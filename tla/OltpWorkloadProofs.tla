------------------------ MODULE OltpWorkloadProofs --------------------------
(***************************************************************************)
(* Proofs about OltpWorkload for any number of workers, sessions and       *)
(* events and any size of the ring: its types, that only committed         *)
(* sessions are sampled and pushed, that the audit trail is exact, that an *)
(* update skips a session only for another that has it, and that deletes   *)
(* wait only for each other and never without a way out                    *)
(* (src/workload/ops.go).                                                  *)
(***************************************************************************)
EXTENDS OltpWorkload, FiniteSetTheorems, SequenceTheorems, TLAPS

Labels == {"idle", "push"} \cup InTransaction
Holders == Workers \cup {NoWorker, Lost}

-----------------------------------------------------------------------------
(* Types *)

\* The part of TypeOK about the workers' own variables.
LocalTypes ==
  /\ pc \in [Workers -> Labels]
  /\ sid \in [Workers -> Ids \cup {Nil}]
  /\ n \in [Workers -> 0..MaxEvents] /\ sent \in [Workers -> 0..MaxEvents]
  /\ target \in [Workers -> Seq(1..MaxEvents)]
  /\ res \in [Workers -> {"none", "ok", "skip", "error"}]
  /\ \A w \in Workers : (pc[w] = "idle" <=> sid[w] = Nil) /\ (pc[w] = "idle" <=> res[w] # "none")

\* The part of it about the locks, and about the tables.
LockTypes ==
  /\ rowLock \in [Ids -> Holders]
  /\ evLock \in [Ids -> [1..MaxEvents -> Holders]]
TableTypes ==
  /\ status \in [Ids -> {"none", "active", "closed"}]
  /\ events \in [Ids -> SUBSET (1..MaxEvents)]
  /\ audits \in [Ids -> [insert : Nat, update : Nat]]

\* TypeOK is these parts, the ring and the history.
LEMMA TypeParts ==
  TypeOK <=> /\ SR!TypeOK /\ TableTypes /\ LockTypes /\ LocalTypes
             /\ pushed \subseteq Ids /\ unknown \subseteq Ids
  BY DEF TypeOK, TableTypes, LockTypes, LocalTypes, Labels, Holders

\* A sampled id is Nil or the id in some slot.
LEMMA SamplesInRing ==
  ASSUME SR!TypeOK, NEW id \in SR!Samples, id # Nil
  PROVE  id \in Ids /\ \E i \in SR!Slots : buf[i] = id
<1>1. PICK i \in 0..(fill - 1) : id = buf[i]
  BY DEF SR!Samples
<1>2. i \in SR!Slots
  BY SizesAssumption DEF SR!TypeOK, SR!Slots
<1> QED
  BY <1>1, <1>2 DEF SR!TypeOK

\* A push keeps the ring well formed and puts id into one slot.
LEMMA PushKeepsRing ==
  ASSUME SR!TypeOK, NEW id \in Ids, SR!Push(id)
  PROVE  /\ SR!TypeOK'
         /\ \A i \in SR!Slots : buf'[i] = id \/ buf'[i] = buf[i]
<1>1. PICK x \in Nat : x = head + 1
  BY SizesAssumption DEF SR!TypeOK, SR!Slots
<1>2. x % Size = IF x < Size THEN x ELSE 0
  <2>1. x <= Size
    BY <1>1, SizesAssumption DEF SR!TypeOK, SR!Slots
  <2>2. CASE x < Size
    BY <2>2, SizesAssumption
  <2>3. CASE x = Size
    BY <2>3, SizesAssumption
  <2> QED
    BY <2>1, <2>2, <2>3, SizesAssumption
<1>3. head' = x % Size
  BY <1>1, Zenon DEF SR!Push
<1>4. /\ buf' \in [SR!Slots -> Ids \cup {Nil}] /\ head' \in SR!Slots /\ fill' \in 0..Size
  BY <1>1, <1>2, <1>3, SizesAssumption DEF SR!Push, SR!TypeOK, SR!Slots
<1>5. fill' < Size => head' = fill'
  BY <1>1, <1>2, <1>3, SizesAssumption DEF SR!Push, SR!TypeOK, SR!Slots
<1>6. ASSUME NEW i \in SR!Slots PROVE buf'[i] = Nil <=> i >= fill'
  BY SizesAssumption DEF SR!Push, SR!TypeOK, SR!Slots
<1>7. \A i \in SR!Slots : buf'[i] = id \/ buf'[i] = buf[i]
  BY DEF SR!Push, SR!TypeOK
<1> QED
  BY <1>4, <1>5, <1>6, <1>7 DEF SR!TypeOK

\* A worker that ends an operation is idle again, with a result.
LEMMA ForgetTypes ==
  ASSUME LocalTypes, NEW w \in Workers, NEW r \in {"ok", "skip", "error"}, Forget(w, r)
  PROVE  LocalTypes'
<1>1. << >> \in Seq(1..MaxEvents) /\ 0 \in 0..MaxEvents
  BY SizesAssumption
<1> QED
  BY <1>1 DEF LocalTypes, Forget, Labels

\* A worker in the middle of an operation goes on with it.
LEMMA GotoTypes ==
  ASSUME LocalTypes, NEW w \in Workers, pc[w] # "idle",
         NEW l \in InTransaction \cup {"push"}, Goto(w, l),
         UNCHANGED <<sid, n, res>>,
         sent' \in [Workers -> 0..MaxEvents], target' \in [Workers -> Seq(1..MaxEvents)]
  PROVE  LocalTypes'
<1>1. l \in Labels /\ l # "idle"
  BY DEF Labels, InTransaction
<1> QED
  BY <1>1 DEF LocalTypes, Goto

\* Locks that change hands stay with somebody.
LEMMA PassLocksTypes ==
  ASSUME LockTypes, NEW h, NEW g \in Holders, PassLocks(h, g)
  PROVE  LockTypes'
  BY DEF LockTypes, PassLocks

\* The order of a batch is a sequence of different events.
LEMMA BatchOrder ==
  ASSUME NEW b \in SUBSET (1..MaxEvents), NEW order \in SetToSeqs(b)
  PROVE  /\ order \in Seq(1..MaxEvents)
         /\ \A i, j \in 1..Len(order) : i # j => order[i] # order[j]
<1>1. IsFiniteSet(1..MaxEvents)
  BY FS_Interval, SizesAssumption
<1>2. Cardinality(b) \in Nat
  BY <1>1, FS_Subset, FS_CardinalityType
<1>3. order \in [1..Cardinality(b) -> b]
  BY DEF SetToSeqs
<1>4. order \in [1..Cardinality(b) -> 1..MaxEvents]
  BY <1>3
<1>5. order \in Seq(1..MaxEvents)
  BY <1>2, <1>4, SeqDef
<1>6. DOMAIN order = 1..Len(order)
  BY <1>5, LenProperties
<1>7. \A i, j \in DOMAIN order : i # j => order[i] # order[j]
  BY <1>3 DEF SetToSeqs
<1> QED
  BY <1>5, <1>6, <1>7

\* Initially the tables are empty and everybody is idle.
LEMMA InitTypeOK == Init => TypeOK
<1> SUFFICES ASSUME Init PROVE TypeOK
  OBVIOUS
<1>1. SR!TypeOK
  BY SizesAssumption DEF Init, SR!Init, SR!TypeOK, SR!Slots
<1>2. TableTypes
  BY DEF Init, TableTypes
<1>3. LockTypes
  BY DEF Init, LockTypes, Holders
<1>4. LocalTypes
  BY SizesAssumption DEF Init, LocalTypes, Labels
<1> QED
  BY <1>1, <1>2, <1>3, <1>4, TypeParts DEF Init

\* Every step of an operation or of the server keeps the types.
LEMMA NextTypeOK == TypeOK /\ [Next]_vars => TypeOK'
<1> SUFFICES ASSUME TypeOK, [Next]_vars
             PROVE  /\ SR!TypeOK' /\ TableTypes' /\ LockTypes' /\ LocalTypes'
                    /\ pushed' \subseteq Ids /\ unknown' \subseteq Ids
  BY DEF TypeOK, TableTypes, LockTypes, LocalTypes, Labels, Holders
<1> DEFINE Typed == /\ SR!TypeOK' /\ TableTypes' /\ LockTypes' /\ LocalTypes'
                    /\ pushed' \subseteq Ids /\ unknown' \subseteq Ids
<1>a. /\ SR!TypeOK /\ TableTypes /\ LockTypes /\ LocalTypes
      /\ pushed \subseteq Ids /\ unknown \subseteq Ids
  BY TypeParts
<1>b. UNCHANGED ring => SR!TypeOK'
  BY <1>a DEF ring, SR!TypeOK
<1>c. UNCHANGED tables => TableTypes'
  BY <1>a DEF tables, TableTypes
<1>d. UNCHANGED locks => LockTypes'
  BY <1>a DEF locks, LockTypes
<1>e. NoWorker \in Holders /\ Lost \in Holders /\ \A w \in Workers : w \in Holders
  BY DEF Holders
<1>f. \A w \in Workers : pc[w] # "idle" => sid[w] \in Ids
  BY <1>a DEF LocalTypes
<1>1. ASSUME NEW w \in Workers, Fails(w) PROVE Typed
  <2>1. LockTypes'
    BY <1>1, <1>a, <1>e, PassLocksTypes DEF Fails
  <2> QED
    BY <1>1, <1>a, <1>b, <1>c, <2>1, ForgetTypes DEF Fails
<1>2. CASE EndLost
  <2>1. LockTypes'
    BY <1>2, <1>a, <1>e, PassLocksTypes DEF EndLost
  <2>2. TableTypes'
    BY <1>2, <1>a DEF EndLost, TableTypes
  <2>3. LocalTypes'
    BY <1>2, <1>a DEF EndLost, LocalTypes, local
  <2> QED
    BY <1>2, <1>a, <1>b, <2>1, <2>2, <2>3 DEF EndLost
<1>3. ASSUME NEW w \in Workers, NEW s \in Ids, NEW k \in 1..MaxEvents, InsertStart(w, s, k)
      PROVE  Typed
  <2>1. s # Nil /\ k \in 0..MaxEvents
    BY SizesAssumption
  <2>2. LocalTypes'
    BY <1>3, <1>a, <2>1 DEF InsertStart, Goto, LocalTypes, Labels, InTransaction
  <2> QED
    BY <1>3, <1>a, <1>b, <1>c, <1>d, <2>2 DEF InsertStart
<1>4. ASSUME NEW w \in Workers, InsertSession(w) \/ InsertAudit(w) \/ UpdateRow(w) \/ UpdateAudit(w)
      PROVE  Typed
  <2>1. PICK l \in InTransaction : Goto(w, l)
    BY <1>4 DEF InsertSession, InsertAudit, UpdateRow, UpdateAudit, InTransaction
  <2>2. LocalTypes'
    BY <1>4, <1>a, <2>1, GotoTypes
       DEF InsertSession, InsertAudit, UpdateRow, UpdateAudit, LocalTypes
  <2> QED
    BY <1>4, <1>a, <1>b, <1>c, <1>d, <2>2 DEF InsertSession, InsertAudit, UpdateRow, UpdateAudit
<1>5. ASSUME NEW w \in Workers, InsertEvent(w) PROVE Typed
  <2>1. CASE sent[w] < n[w] /\ sent' = [sent EXCEPT ![w] = @ + 1] /\ UNCHANGED pc
    <3>1. sent' \in [Workers -> 0..MaxEvents]
      BY <1>a, <2>1, SizesAssumption DEF LocalTypes
    <3>2. LocalTypes'
      BY <1>5, <1>a, <2>1, <3>1 DEF InsertEvent, LocalTypes
    <3> QED
      BY <1>5, <1>a, <1>b, <1>c, <1>d, <3>2 DEF InsertEvent
  <2>2. CASE sent[w] = n[w] /\ Goto(w, "audit") /\ UNCHANGED sent
    <3>1. "audit" \in InTransaction
      BY DEF InTransaction
    <3>2. LocalTypes'
      BY <1>5, <1>a, <2>2, <3>1, GotoTypes DEF InsertEvent, LocalTypes
    <3> QED
      BY <1>5, <1>a, <1>b, <1>c, <1>d, <3>2 DEF InsertEvent
  <2> QED
    BY <1>5, <2>1, <2>2 DEF InsertEvent
<1>6. ASSUME NEW w \in Workers, InsertCommit(w) PROVE Typed
  <2>1. LockTypes'
    BY <1>6, <1>a, <1>e, PassLocksTypes DEF InsertCommit, Unlock
  <2>2. TableTypes'
    <3>1. sid[w] \in Ids /\ 1..sent[w] \subseteq 1..MaxEvents
      BY <1>6, <1>a, <1>f, SizesAssumption DEF InsertCommit, LocalTypes
    <3>2. audits' \in [Ids -> [insert : Nat, update : Nat]]
      <4>1. [audits[sid[w]] EXCEPT !.insert = @ + 1] \in [insert : Nat, update : Nat]
        BY <1>a, <3>1 DEF TableTypes
      <4>2. audits' = [audits EXCEPT ![sid[w]] = [audits[sid[w]] EXCEPT !.insert = @ + 1]]
        BY <1>6 DEF InsertCommit
      <4> QED
        BY <1>a, <4>1, <4>2 DEF TableTypes
    <3> QED
      BY <1>6, <1>a, <3>1, <3>2 DEF InsertCommit, TableTypes
  <2>3. LocalTypes'
    BY <1>6, <1>a, GotoTypes, ForgetTypes DEF InsertCommit, LocalTypes
  <2>4. unknown' \subseteq Ids
    BY <1>6, <1>a, <1>f DEF InsertCommit
  <2> QED
    BY <1>6, <1>a, <1>b, <2>1, <2>2, <2>3, <2>4 DEF InsertCommit
<1>7. ASSUME NEW w \in Workers, InsertPush(w) PROVE Typed
  <2>1. sid[w] \in Ids
    BY <1>7, <1>f DEF InsertPush
  <2>2. SR!TypeOK'
    BY <1>7, <1>a, <2>1, PushKeepsRing DEF InsertPush
  <2> QED
    BY <1>7, <1>a, <1>c, <1>d, <2>1, <2>2, ForgetTypes DEF InsertPush
<1>8. ASSUME NEW w \in Workers, NEW l \in InTransaction, SampleSession(w, l) PROVE Typed
  <2>1. PICK id \in SR!Samples :
          \/ /\ id # Nil
             /\ sid' = [sid EXCEPT ![w] = id] /\ res' = [res EXCEPT ![w] = "none"]
             /\ Goto(w, l) /\ UNCHANGED <<n, sent, target>>
          \/ id = Nil /\ Forget(w, "skip")
    BY <1>8 DEF SampleSession
  <2>2. CASE id = Nil
    BY <1>8, <1>a, <1>b, <1>c, <1>d, <2>1, <2>2, ForgetTypes DEF SampleSession
  <2>3. CASE id # Nil
    <3>1. id \in Ids
      BY <1>a, <2>3, SamplesInRing
    <3>2. l \in Labels /\ l # "idle"
      BY DEF Labels, InTransaction
    <3>3. LocalTypes'
      BY <1>a, <2>1, <2>3, <3>1, <3>2, ZenonT(60) DEF LocalTypes, Goto
    <3> QED
      BY <1>8, <1>a, <1>b, <1>c, <1>d, <3>3 DEF SampleSession
  <2> QED
    BY <2>2, <2>3
<1>9. ASSUME NEW w \in Workers, ReadReturns(w) PROVE Typed
  BY <1>9, <1>a, <1>b, <1>c, <1>d, ForgetTypes DEF ReadReturns
<1>10. ASSUME NEW w \in Workers, UpdateLock(w) PROVE Typed
  <2>1. CASE /\ rowLock' = [rowLock EXCEPT ![sid[w]] = w] /\ Goto(w, "update")
             /\ UNCHANGED <<evLock, sid, n, sent, target, res>>
    <3>1. LockTypes'
      BY <1>a, <1>e, <2>1 DEF LockTypes
    <3>2. LocalTypes'
      BY <1>10, <1>a, <2>1, GotoTypes DEF UpdateLock, LocalTypes, InTransaction
    <3> QED
      BY <1>10, <1>a, <1>b, <1>c, <3>1, <3>2 DEF UpdateLock
  <2>2. CASE Unlock(w) /\ Forget(w, "skip")
    BY <1>10, <1>a, <1>b, <1>c, <1>e, <2>2, PassLocksTypes, ForgetTypes DEF UpdateLock, Unlock
  <2> QED
    BY <1>10, <2>1, <2>2 DEF UpdateLock
<1>11. ASSUME NEW w \in Workers, UpdateCommit(w) PROVE Typed
  <2>1. sid[w] \in Ids
    BY <1>11, <1>f DEF UpdateCommit
  <2>2. audits' \in [Ids -> [insert : Nat, update : Nat]]
    BY <1>11, <1>a, <2>1 DEF UpdateCommit, TableTypes
  <2>3. TableTypes'
    BY <1>11, <1>a, <2>2 DEF UpdateCommit, TableTypes
  <2>4. LockTypes'
    BY <1>11, <1>a, <1>e, PassLocksTypes DEF UpdateCommit, Unlock
  <2>5. LocalTypes'
    BY <1>11, <1>a, ForgetTypes DEF UpdateCommit
  <2> QED
    BY <1>11, <1>a, <1>b, <2>3, <2>4, <2>5 DEF UpdateCommit
<1>12. ASSUME NEW w \in Workers, DeleteSelect(w) PROVE Typed
  <2>1. PICK b \in SUBSET events[sid[w]] : \E order \in SetToSeqs(b) :
          target' = [target EXCEPT ![w] = order]
    BY <1>12 DEF DeleteSelect
  <2>2. PICK order \in SetToSeqs(b) : target' = [target EXCEPT ![w] = order]
    BY <2>1
  <2>3. b \in SUBSET (1..MaxEvents)
    BY <1>12, <1>a, <1>f DEF DeleteSelect, TableTypes
  <2>4. order \in Seq(1..MaxEvents)
    BY <2>3, BatchOrder
  <2>5. target' \in [Workers -> Seq(1..MaxEvents)]
    BY <1>a, <2>2, <2>4 DEF LocalTypes
  <2>6. LocalTypes'
    BY <1>12, <1>a, <2>5, GotoTypes DEF DeleteSelect, LocalTypes, InTransaction
  <2> QED
    BY <1>12, <1>a, <1>b, <1>c, <1>d, <2>6 DEF DeleteSelect
<1>13. ASSUME NEW w \in Workers, DeleteLock(w) PROVE Typed
  <2>1. target' = [target EXCEPT ![w] = Tail(target[w])] /\ target[w] # << >>
    BY <1>13 DEF DeleteLock
  <2>2. Tail(target[w]) \in Seq(1..MaxEvents)
    BY <1>a, <2>1 DEF LocalTypes
  <2>3. target' \in [Workers -> Seq(1..MaxEvents)]
    BY <1>a, <2>1, <2>2 DEF LocalTypes
  <2>4. LocalTypes'
    BY <1>13, <1>a, <2>3 DEF DeleteLock, LocalTypes
  <2>5. LockTypes'
    <3>1. PICK v \in Holders :
            evLock' = [evLock EXCEPT ![sid[w]][Head(target[w])] = v]
      BY <1>13, <1>e DEF DeleteLock
    <3>2. [evLock[sid[w]] EXCEPT ![Head(target[w])] = v] \in [1..MaxEvents -> Holders]
      BY <1>13, <1>a, <1>f DEF DeleteLock, LockTypes
    <3>3. evLock' = [evLock EXCEPT ![sid[w]] = [evLock[sid[w]] EXCEPT ![Head(target[w])] = v]]
      BY <3>1
    <3>4. evLock' \in [Ids -> [1..MaxEvents -> Holders]]
      BY <1>a, <3>2, <3>3, Zenon DEF LockTypes
    <3> QED
      BY <1>13, <1>a, <3>4 DEF DeleteLock, LockTypes
  <2> QED
    BY <1>13, <1>a, <1>b, <1>c, <2>4, <2>5 DEF DeleteLock
<1>14. ASSUME NEW w \in Workers, DeleteCommit(w) PROVE Typed
  <2>1. TableTypes'
    BY <1>14, <1>a, <1>f DEF DeleteCommit, TableTypes
  <2>2. LockTypes'
    BY <1>14, <1>a, <1>e, PassLocksTypes DEF DeleteCommit, Unlock
  <2>3. LocalTypes'
    BY <1>14, <1>a, ForgetTypes DEF DeleteCommit
  <2> QED
    BY <1>14, <1>a, <1>b, <2>1, <2>2, <2>3 DEF DeleteCommit
<1>15. ASSUME NEW w \in Workers, Deadlocked(w) PROVE Typed
  BY <1>15, <1>a, <1>b, <1>c, <1>e, PassLocksTypes, ForgetTypes DEF Deadlocked, Unlock
<1>16. CASE UNCHANGED vars
  <2>1. LocalTypes'
    BY <1>16, <1>a DEF vars, local, LocalTypes
  <2> QED
    BY <1>16, <1>a, <1>b, <1>c, <1>d, <2>1 DEF vars
<1>17. ASSUME NEW w \in Workers, ReadStart(w) \/ UpdateStart(w) \/ DeleteStart(w) PROVE Typed
  BY <1>8, <1>17 DEF ReadStart, UpdateStart, DeleteStart, InTransaction
<1> QED
  BY <1>1, <1>2, <1>3, <1>4, <1>5, <1>6, <1>7, <1>9, <1>10, <1>11, <1>12, <1>13, <1>14,
     <1>15, <1>16, <1>17 DEF Next, Start, Proceed

\* Tables, locks, ring and workers always have their types: a worker is idle
\* exactly when it works on no session and has a result.
THEOREM TypeCorrect == Spec => []TypeOK
  BY InitTypeOK, NextTypeOK, PTL DEF Spec

-----------------------------------------------------------------------------
(* Sessions, the ring and the audit trail *)

Inserting == {"session", "event", "audit", "commit"}
Chasing == Updating \cup {"query", "select", "delete"}

\* A session being inserted is not visible and nobody else has its id; one that
\* is pushed or was sampled is committed.
WorkInv ==
  \A w \in Workers :
    /\ pc[w] \in Inserting => status[sid[w]] = "none" /\ \A v \in Workers \ {w} : sid[v] # sid[w]
    /\ pc[w] = "push" => status[sid[w]] # "none" /\ sid[w] \notin unknown
    /\ pc[w] \in Chasing => status[sid[w]] # "none"

\* The ring holds committed sessions, and so does the history of lost answers.
RingInv ==
  /\ \A i \in SR!Slots : buf[i] # Nil => status[buf[i]] # "none"
  /\ \A s \in unknown : status[s] # "none"

\* The inductive invariant of the sessions.
SessionInv == WorkInv /\ RingInv /\ CommittedIsPushed /\ AuditTrail

\* The labels fall into these classes.
LEMMA LabelClasses ==
  /\ Labels = {"idle", "push"} \cup Inserting \cup Chasing
  /\ "idle" \notin Inserting \cup Chasing /\ "push" \notin Inserting \cup Chasing
  /\ Inserting \cap Chasing = {}
  BY DEF Labels, InTransaction, Inserting, Chasing, Updating

\* A worker rests, ends an operation that owes nothing to the ring, or goes on
\* with it.
Quiet(v) ==
  \/ pc'[v] = pc[v] /\ sid'[v] = sid[v]
  \/ pc'[v] = "idle" /\ sid'[v] = Nil /\ pc[v] # "push"
  \/ sid'[v] = sid[v] /\ pc[v] \in Inserting /\ pc'[v] \in Inserting
  \/ sid'[v] = sid[v] /\ pc[v] \in Chasing /\ pc'[v] \in Chasing

\* Steps that commit and push nothing keep the sessions as they are.
LEMMA QuietStep ==
  ASSUME TypeOK, SessionInv, UNCHANGED <<buf, status, audits, pushed, unknown>>,
         \A v \in Workers : Quiet(v)
  PROVE  SessionInv'
<1>1. \A v \in Workers : /\ pc'[v] \in Inserting => pc[v] \in Inserting /\ sid'[v] = sid[v]
                         /\ pc'[v] \in Chasing => pc[v] \in Chasing /\ sid'[v] = sid[v]
                         /\ pc'[v] = "push" <=> pc[v] = "push"
                         /\ pc'[v] = "push" => sid'[v] = sid[v]
                         /\ sid'[v] = sid[v] \/ sid'[v] = Nil
  BY LabelClasses DEF Quiet
<1>2. \A w \in Workers : pc[w] \in Inserting => sid[w] # Nil
  BY LabelClasses DEF TypeOK
<1>3. WorkInv'
  BY <1>1, <1>2 DEF SessionInv, WorkInv
<1>4. RingInv' /\ AuditTrail'
  BY DEF SessionInv, RingInv, AuditTrail
<1>5. CommittedIsPushed'
  BY <1>1 DEF SessionInv, CommittedIsPushed
<1> QED
  BY <1>3, <1>4, <1>5 DEF SessionInv

\* A worker that forgets its operation is quiet, unless it was about to push.
LEMMA ForgetQuiet ==
  ASSUME TypeOK, NEW w \in Workers, NEW r, Forget(w, r), pc[w] # "push"
  PROVE  \A v \in Workers : Quiet(v)
  BY DEF Forget, Quiet, TypeOK

\* So is one that goes on within its kind of operation.
LEMMA GotoQuiet ==
  ASSUME TypeOK, NEW w \in Workers, NEW l, Goto(w, l), UNCHANGED sid,
         \/ pc[w] \in Inserting /\ l \in Inserting
         \/ pc[w] \in Chasing /\ l \in Chasing
  PROVE  \A v \in Workers : Quiet(v)
  BY DEF Goto, Quiet, TypeOK

\* Every step keeps the sessions consistent.
LEMMA NextSessionInv == TypeOK /\ SessionInv /\ [Next]_vars => SessionInv'
<1> SUFFICES ASSUME TypeOK, SessionInv, [Next]_vars PROVE SessionInv'
  OBVIOUS
<1>a. \A w \in Workers : pc[w] # "idle" => sid[w] \in Ids
  BY DEF TypeOK
<1>1. ASSUME NEW w \in Workers,
             Fails(w) \/ ReadReturns(w) \/ DeleteCommit(w) \/ Deadlocked(w)
      PROVE  SessionInv'
  <2>1. pc[w] # "push"
    BY <1>1 DEF Fails, ReadReturns, DeleteCommit, Deadlocked, WaitsFor, InTransaction
  <2>2. \E r : Forget(w, r)
    BY <1>1 DEF Fails, ReadReturns, DeleteCommit, Deadlocked
  <2>3. UNCHANGED <<buf, status, audits, pushed, unknown>>
    BY <1>1 DEF Fails, ReadReturns, DeleteCommit, Deadlocked, ring, tables
  <2> QED
    BY <2>1, <2>2, <2>3, ForgetQuiet, QuietStep
<1>2. CASE EndLost \/ UNCHANGED vars
  <2>1. \A v \in Workers : Quiet(v)
    BY <1>2 DEF EndLost, vars, local, Quiet
  <2> QED
    BY <1>2, <2>1, QuietStep DEF EndLost, vars, ring, tables
<1>3. ASSUME NEW w \in Workers,
             \/ InsertSession(w) \/ InsertAudit(w)
             \/ UpdateRow(w) \/ UpdateAudit(w) \/ DeleteSelect(w)
      PROVE  SessionInv'
  <2>1. \E l : Goto(w, l) /\ UNCHANGED sid /\ \/ pc[w] \in Inserting /\ l \in Inserting
                                              \/ pc[w] \in Chasing /\ l \in Chasing
    BY <1>3 DEF InsertSession, InsertAudit, UpdateRow, UpdateAudit, DeleteSelect,
                Inserting, Chasing, Updating
  <2> QED
    BY <1>3, <2>1, GotoQuiet, QuietStep
       DEF InsertSession, InsertAudit, UpdateRow, UpdateAudit, DeleteSelect, ring, tables
<1>4. ASSUME NEW w \in Workers, InsertEvent(w) \/ DeleteLock(w) PROVE SessionInv'
  <2>1. \A v \in Workers : Quiet(v)
    <3>1. CASE UNCHANGED <<pc, sid>>
      BY <3>1 DEF Quiet
    <3>2. CASE pc[w] = "event" /\ Goto(w, "audit") /\ UNCHANGED sid
      BY <3>2, GotoQuiet DEF Inserting
    <3> QED
      BY <1>4, <3>1, <3>2 DEF InsertEvent, DeleteLock
  <2> QED
    BY <1>4, <2>1, QuietStep DEF InsertEvent, DeleteLock, ring, tables
<1>5. ASSUME NEW w \in Workers, UpdateLock(w) PROVE SessionInv'
  <2>1. pc[w] = "lock" /\ "lock" \in Chasing /\ "update" \in Chasing
    BY <1>5 DEF UpdateLock, Chasing, Updating
  <2>2. \A v \in Workers : Quiet(v)
    BY <1>5, <2>1, ForgetQuiet, GotoQuiet DEF UpdateLock
  <2> QED
    BY <1>5, <2>2, QuietStep DEF UpdateLock, ring, tables
<1>6. ASSUME NEW w \in Workers, NEW s \in Ids, NEW k \in 1..MaxEvents, InsertStart(w, s, k)
      PROVE  SessionInv'
  <2>1. /\ status[s] = "none" /\ \A v \in Workers : sid[v] # s
        /\ pc[w] = "idle" /\ pc' = [pc EXCEPT ![w] = "session"] /\ sid' = [sid EXCEPT ![w] = s]
        /\ UNCHANGED <<buf, status, audits, pushed, unknown>>
    BY <1>6 DEF InsertStart, Fresh, Goto, ring, tables
  <2>2. WorkInv'
    <3>1. "session" \in Inserting /\ "session" \notin Chasing /\ "session" # "push"
      BY DEF Inserting, Chasing, Updating
    <3> QED
      BY <2>1, <3>1 DEF SessionInv, WorkInv, TypeOK
  <2>3. RingInv' /\ AuditTrail'
    BY <2>1 DEF SessionInv, RingInv, AuditTrail
  <2>4. CommittedIsPushed'
    BY <2>1 DEF SessionInv, CommittedIsPushed, TypeOK
  <2> QED
    BY <2>2, <2>3, <2>4 DEF SessionInv
<1>7. ASSUME NEW w \in Workers, NEW l \in Chasing, SampleSession(w, l) PROVE SessionInv'
  <2>1. PICK id \in SR!Samples :
          \/ id # Nil /\ sid' = [sid EXCEPT ![w] = id] /\ Goto(w, l)
          \/ id = Nil /\ Forget(w, "skip")
    BY <1>7 DEF SampleSession
  <2>2. pc[w] = "idle" /\ UNCHANGED <<buf, status, audits, pushed, unknown>>
    BY <1>7 DEF SampleSession, ring, tables
  <2>3. CASE id = Nil
    BY <2>1, <2>2, <2>3, ForgetQuiet, QuietStep
  <2>4. CASE id # Nil
    <3>1. status[id] # "none"
      BY <2>4, SamplesInRing, ZenonT(60) DEF TypeOK, SessionInv, RingInv
    <3>a. pc'[w] = l /\ sid'[w] = id
      BY <2>1, <2>4 DEF TypeOK, Goto
    <3>b. \A v \in Workers \ {w} : pc'[v] = pc[v] /\ sid'[v] = sid[v]
      BY <2>1, <2>4 DEF TypeOK, Goto
    <3>2. WorkInv'
      <4>1. pc'[w] \notin Inserting /\ pc'[w] # "push" /\ status'[sid'[w]] # "none"
        BY <2>2, <3>1, <3>a, LabelClasses
      <4>2. ASSUME NEW v \in Workers, v # w, pc'[v] \in Inserting
            PROVE  status'[sid'[v]] = "none" /\ \A u \in Workers \ {v} : sid'[u] # sid'[v]
        BY <2>2, <3>1, <3>a, <3>b, <4>2 DEF SessionInv, WorkInv
      <4> QED
        BY <2>2, <3>b, <4>1, <4>2 DEF SessionInv, WorkInv
    <3>3. RingInv' /\ AuditTrail'
      BY <2>2 DEF SessionInv, RingInv, AuditTrail
    <3>4. CommittedIsPushed'
      <4>1. ASSUME NEW v \in Workers, pc[v] = "push" PROVE pc'[v] = "push" /\ sid'[v] = sid[v]
        BY <2>2, <3>b, <4>1
      <4> QED
        BY <2>2, <4>1 DEF SessionInv, CommittedIsPushed
    <3> QED
      BY <3>2, <3>3, <3>4 DEF SessionInv
  <2> QED
    BY <2>3, <2>4
<1>8. ASSUME NEW w \in Workers, ReadStart(w) \/ UpdateStart(w) \/ DeleteStart(w)
      PROVE  SessionInv'
  BY <1>7, <1>8 DEF ReadStart, UpdateStart, DeleteStart, Chasing, Updating
<1>9. ASSUME NEW w \in Workers, InsertCommit(w) PROVE SessionInv'
  <2> DEFINE s == sid[w]
  <2>1. s \in Ids /\ status[s] = "none" /\ \A v \in Workers \ {w} : sid[v] # s
    BY <1>9, <1>a DEF InsertCommit, SessionInv, WorkInv, Inserting
  <2>2. /\ status' = [status EXCEPT ![s] = "active"]
        /\ audits' = [audits EXCEPT ![s].insert = @ + 1]
        /\ UNCHANGED <<buf, pushed>>
    BY <1>9 DEF InsertCommit, ring
  <2>3. \/ pc' = [pc EXCEPT ![w] = "push"] /\ UNCHANGED <<sid, unknown>>
        \/ /\ pc' = [pc EXCEPT ![w] = "idle"] /\ sid' = [sid EXCEPT ![w] = Nil]
           /\ unknown' = unknown \cup {s}
    BY <1>9 DEF InsertCommit, Goto, Forget
  <2>4. s \notin unknown /\ s \notin pushed
    BY <2>1 DEF SessionInv, RingInv, CommittedIsPushed
  <2>5. \A v \in Workers \ {w} : pc'[v] = pc[v] /\ sid'[v] = sid[v]
    BY <2>3 DEF TypeOK
  <2>6. \A t \in Ids : status'[t] = IF t = s THEN "active" ELSE status[t]
    BY <2>1, <2>2 DEF TypeOK
  <2>7. WorkInv'
    <3>1. ASSUME NEW v \in Workers, v # w
          PROVE  /\ pc'[v] \in Inserting =>
                      status'[sid'[v]] = "none" /\ \A u \in Workers \ {v} : sid'[u] # sid'[v]
                 /\ pc'[v] = "push" => status'[sid'[v]] # "none" /\ sid'[v] \notin unknown'
                 /\ pc'[v] \in Chasing => status'[sid'[v]] # "none"
      <4>1. pc[v] # "idle" => sid[v] \in Ids /\ sid[v] # s
        BY <1>a, <2>1, <3>1
      <4>2. \A u \in Workers : sid'[u] = sid[u] \/ sid'[u] = Nil
        BY <2>3 DEF TypeOK
      <4>3. unknown' \subseteq unknown \cup {s}
        BY <2>3
      <4> QED
        BY <2>5, <2>6, <3>1, <4>1, <4>2, <4>3, SizesAssumption, LabelClasses DEF SessionInv, WorkInv
    <3>2. /\ pc'[w] \notin Inserting \cup Chasing
          /\ pc'[w] = "push" => status'[sid'[w]] # "none" /\ sid'[w] \notin unknown'
      BY <2>1, <2>3, <2>4, <2>6, LabelClasses DEF TypeOK
    <3> QED
      BY <3>1, <3>2 DEF WorkInv
  <2>8. RingInv'
    BY <2>1, <2>2, <2>3, <2>6 DEF SessionInv, RingInv, TypeOK, SR!TypeOK
  <2>9. CommittedIsPushed'
    <3>1. ASSUME NEW t \in Ids, t # s
          PROVE  /\ t \in pushed' => status'[t] # "none" /\ t \notin unknown'
                 /\ (status'[t] # "none" /\ t \notin unknown') =>
                      (t \in pushed' \/ \E v \in Workers : pc'[v] = "push" /\ sid'[v] = t)
      <4>1. status'[t] = status[t] /\ pushed' = pushed /\ (t \in unknown' <=> t \in unknown)
        BY <2>2, <2>3, <2>6, <3>1
      <4>2. ASSUME NEW v \in Workers, pc[v] = "push", sid[v] = t
            PROVE  pc'[v] = "push" /\ sid'[v] = t
        BY <1>9, <2>5, <4>2 DEF InsertCommit
      <4> QED
        BY <4>1, <4>2 DEF SessionInv, CommittedIsPushed
    <3>2. s \notin pushed'
      BY <2>2, <2>4
    <3>3. s \in unknown' \/ (pc'[w] = "push" /\ sid'[w] = s)
      BY <2>3 DEF TypeOK
    <3> QED
      BY <3>1, <3>2, <3>3 DEF CommittedIsPushed
  <2>10. AuditTrail'
    <3>1. audits'[s].insert = audits[s].insert + 1 /\ audits'[s].update = audits[s].update
      BY <2>1, <2>2 DEF TypeOK
    <3>2. \A t \in Ids : t # s => audits'[t] = audits[t]
      BY <2>1, <2>2 DEF TypeOK
    <3>3. audits[s].insert = 0 /\ ~(audits[s].update > 0)
      BY <2>1 DEF SessionInv, AuditTrail
    <3> QED
      BY <2>1, <2>6, <3>1, <3>2, <3>3 DEF SessionInv, AuditTrail
  <2> QED
    BY <2>7, <2>8, <2>9, <2>10 DEF SessionInv
<1>10. ASSUME NEW w \in Workers, InsertPush(w) PROVE SessionInv'
  <2>1. /\ pc[w] = "push" /\ sid[w] \in Ids /\ status[sid[w]] # "none" /\ sid[w] \notin unknown
    BY <1>10, <1>a DEF InsertPush, SessionInv, WorkInv
  <2>2. /\ pc' = [pc EXCEPT ![w] = "idle"] /\ sid' = [sid EXCEPT ![w] = Nil]
        /\ pushed' = pushed \cup {sid[w]} /\ UNCHANGED <<status, audits, unknown>>
    BY <1>10 DEF InsertPush, Forget, tables
  <2>3. \A i \in SR!Slots : buf'[i] = sid[w] \/ buf'[i] = buf[i]
    BY <1>10, <2>1, PushKeepsRing DEF InsertPush, TypeOK
  <2>4. WorkInv'
    BY <2>2, LabelClasses, <1>a, SizesAssumption DEF SessionInv, WorkInv, TypeOK
  <2>5. RingInv' /\ AuditTrail'
    BY <2>1, <2>2, <2>3 DEF SessionInv, RingInv, AuditTrail
  <2>6. CommittedIsPushed'
    BY <2>1, <2>2 DEF SessionInv, CommittedIsPushed, TypeOK
  <2> QED
    BY <2>4, <2>5, <2>6 DEF SessionInv
<1>11. ASSUME NEW w \in Workers, UpdateCommit(w) PROVE SessionInv'
  <2> DEFINE s == sid[w]
  <2>1. s \in Ids /\ status[s] # "none" /\ pc[w] = "commitUpdate" /\ pc[w] \in Chasing
    BY <1>11, <1>a DEF UpdateCommit, SessionInv, WorkInv, Chasing, Updating
  <2>2. /\ status' = [status EXCEPT ![s] = "closed"]
        /\ audits' = [audits EXCEPT ![s].update = @ + 1]
        /\ pc' = [pc EXCEPT ![w] = "idle"] /\ sid' = [sid EXCEPT ![w] = Nil]
        /\ UNCHANGED <<buf, pushed, unknown>>
    BY <1>11 DEF UpdateCommit, Forget, ring
  <2>3. \A t \in Ids : status'[t] = IF t = s THEN "closed" ELSE status[t]
    BY <2>1, <2>2 DEF TypeOK
  <2>4. \A v \in Workers : pc[v] \in Inserting => sid[v] # s
    BY <2>1 DEF SessionInv, WorkInv
  <2>5. WorkInv'
    <3>1. ASSUME NEW v \in Workers, v # w
          PROVE  /\ pc'[v] \in Inserting =>
                      status'[sid'[v]] = "none" /\ \A u \in Workers \ {v} : sid'[u] # sid'[v]
                 /\ pc'[v] = "push" => status'[sid'[v]] # "none" /\ sid'[v] \notin unknown'
                 /\ pc'[v] \in Chasing => status'[sid'[v]] # "none"
      <4>1. pc'[v] = pc[v] /\ sid'[v] = sid[v] /\ unknown' = unknown
        BY <2>2, <3>1 DEF TypeOK
      <4>2. \A u \in Workers : sid'[u] = sid[u] \/ sid'[u] = Nil
        BY <2>2 DEF TypeOK
      <4>3. pc[v] # "idle" => sid[v] \in Ids
        BY <1>a
      <4> QED
        BY <2>3, <2>4, <3>1, <4>1, <4>2, <4>3, SizesAssumption, LabelClasses
           DEF SessionInv, WorkInv
    <3>2. pc'[w] = "idle"
      BY <2>2 DEF TypeOK
    <3> QED
      BY <3>1, <3>2, LabelClasses DEF WorkInv
  <2>6. RingInv'
    BY <2>2, <2>3 DEF SessionInv, RingInv, TypeOK, SR!TypeOK
  <2>7. CommittedIsPushed'
    <3>1. ASSUME NEW v \in Workers, pc[v] = "push" PROVE pc'[v] = "push" /\ sid'[v] = sid[v]
      BY <2>1, <2>2, <3>1 DEF TypeOK
    <3>2. \A t \in Ids : status'[t] # "none" <=> status[t] # "none"
      BY <2>1, <2>3
    <3> QED
      BY <2>2, <3>1, <3>2 DEF SessionInv, CommittedIsPushed
  <2>8. AuditTrail'
    <3>1. audits'[s].update = audits[s].update + 1 /\ audits'[s].insert = audits[s].insert
      BY <2>1, <2>2 DEF TypeOK
    <3>2. \A t \in Ids : t # s => audits'[t] = audits[t]
      BY <2>1, <2>2 DEF TypeOK
    <3>3. audits[s].insert = 1 /\ audits[s].update \in Nat
      BY <2>1 DEF SessionInv, AuditTrail, TypeOK
    <3> QED
      BY <2>1, <2>3, <3>1, <3>2, <3>3 DEF SessionInv, AuditTrail
  <2> QED
    BY <2>5, <2>6, <2>7, <2>8 DEF SessionInv
<1> QED
  BY <1>1, <1>2, <1>3, <1>4, <1>5, <1>6, <1>8, <1>9, <1>10, <1>11 DEF Next, Start, Proceed

\* The sessions are consistent throughout.
LEMMA SessionsConsistent == Spec => []SessionInv
<1>1. Init => SessionInv
  BY LabelClasses DEF Init, SR!Init, SessionInv, WorkInv, RingInv, CommittedIsPushed, AuditTrail
<1> QED
  BY <1>1, TypeCorrect, NextSessionInv, PTL DEF Spec

\* No read, update or delete ever chases a row that was rolled back or is not
\* visible yet, however inserts, commits and pushes interleave.
THEOREM SampledSessionsExist == Spec => []SampledIsCommitted
<1>1. SessionInv => SampledIsCommitted
  BY DEF SessionInv, WorkInv, RingInv, SampledIsCommitted, Chasing
<1> QED
  BY <1>1, SessionsConsistent, PTL

\* A session whose insert succeeded is pushed to the ring, and no other ever is
\* (ops.go:169-173).
THEOREM SuccessfulInsertsPushed == Spec => []CommittedIsPushed
<1>1. SessionInv => CommittedIsPushed
  BY DEF SessionInv
<1> QED
  BY <1>1, SessionsConsistent, PTL

\* One INSERT row per committed session, UPDATE rows for exactly the closed ones.
THEOREM AuditTrailExact == Spec => []AuditTrail
<1>1. SessionInv => AuditTrail
  BY DEF SessionInv
<1> QED
  BY <1>1, SessionsConsistent, PTL

-----------------------------------------------------------------------------
(* Row locks *)

\* A worker that holds a row is in the middle of an update of that session.
LockInv ==
  \A s \in Ids : rowLock[s] \in Workers =>
    sid[rowLock[s]] = s /\ pc[rowLock[s]] \in Updating \ {"lock"}

\* Steps of a worker that holds no row and takes none.
LEMMA LocksKept ==
  ASSUME TypeOK, LockInv, UNCHANGED rowLock, NEW w \in Workers, pc[w] \notin Updating \ {"lock"},
         \A v \in Workers \ {w} : pc'[v] = pc[v] /\ sid'[v] = sid[v]
  PROVE  LockInv'
  BY DEF LockInv

\* A worker that ends its transaction gives up its locks.
LEMMA LocksPassed ==
  ASSUME TypeOK, LockInv, NEW w \in Workers, NEW g \in {NoWorker, Lost}, PassLocks(w, g),
         \A v \in Workers \ {w} : pc'[v] = pc[v] /\ sid'[v] = sid[v]
  PROVE  LockInv'
  BY WorkersAssumption DEF LockInv, PassLocks

\* What a worker does to its own variables leaves those of the others alone.
LEMMA OthersRest ==
  ASSUME TypeOK, NEW w \in Workers,
         \/ \E r : Forget(w, r)
         \/ \E l : Goto(w, l) /\ \E x : sid' = [sid EXCEPT ![w] = x]
         \/ \E l : Goto(w, l) /\ UNCHANGED sid
         \/ UNCHANGED <<pc, sid>>
  PROVE  \A v \in Workers \ {w} : pc'[v] = pc[v] /\ sid'[v] = sid[v]
  BY DEF Forget, Goto, TypeOK

\* Every step leaves row locks with updates, with a lost client or with nobody.
LEMMA NextLockInv == TypeOK /\ LockInv /\ [Next]_vars => LockInv'
<1> SUFFICES ASSUME TypeOK, LockInv, [Next]_vars PROVE LockInv'
  OBVIOUS
<1> DEFINE Rest(w) == \A v \in Workers \ {w} : pc'[v] = pc[v] /\ sid'[v] = sid[v]
<1>1. ASSUME NEW w \in Workers,
             Fails(w) \/ InsertCommit(w) \/ UpdateCommit(w) \/ DeleteCommit(w) \/ Deadlocked(w)
      PROVE  LockInv'
  <2>1. PICK g \in {NoWorker, Lost} : PassLocks(w, g)
    BY <1>1 DEF Fails, InsertCommit, UpdateCommit, DeleteCommit, Deadlocked, Unlock
  <2>2. Rest(w)
    BY <1>1, OthersRest DEF Fails, InsertCommit, UpdateCommit, DeleteCommit, Deadlocked
  <2> QED
    BY <2>1, <2>2, LocksPassed
<1>2. CASE EndLost
  BY <1>2, WorkersAssumption DEF EndLost, PassLocks, LockInv, local
<1>3. ASSUME NEW w \in Workers,
             \/ InsertSession(w) \/ InsertEvent(w) \/ InsertAudit(w) \/ InsertPush(w)
             \/ ReadReturns(w) \/ DeleteSelect(w) \/ DeleteLock(w)
      PROVE  LockInv'
  <2>1. UNCHANGED rowLock /\ pc[w] \notin Updating \ {"lock"}
    BY <1>3 DEF InsertSession, InsertEvent, InsertAudit, InsertPush, ReadReturns, DeleteSelect,
                DeleteLock, Updating, locks
  <2>2. Rest(w)
    BY <1>3, OthersRest DEF InsertSession, InsertEvent, InsertAudit, InsertPush, ReadReturns,
                            DeleteSelect, DeleteLock
  <2> QED
    BY <2>1, <2>2, LocksKept
<1>4. ASSUME NEW w \in Workers, Start(w) PROVE LockInv'
  <2>1. UNCHANGED rowLock /\ pc[w] = "idle"
    BY <1>4 DEF Start, InsertStart, ReadStart, UpdateStart, DeleteStart, SampleSession, locks
  <2>2. Rest(w)
    BY <1>4, OthersRest DEF Start, InsertStart, ReadStart, UpdateStart, DeleteStart, SampleSession
  <2> QED
    BY <2>1, <2>2, LocksKept DEF Updating
<1>5. ASSUME NEW w \in Workers, UpdateRow(w) \/ UpdateAudit(w) PROVE LockInv'
  <2>1. /\ UNCHANGED <<rowLock, sid>> /\ pc'[w] \in Updating \ {"lock"}
        /\ \A v \in Workers \ {w} : pc'[v] = pc[v]
    BY <1>5 DEF UpdateRow, UpdateAudit, Goto, Updating, TypeOK, locks
  <2> QED
    BY <2>1 DEF LockInv
<1>6. ASSUME NEW w \in Workers, UpdateLock(w) PROVE LockInv'
  <2>1. CASE Unlock(w) /\ Forget(w, "skip")
    BY <2>1, LocksPassed, OthersRest DEF Unlock
  <2>2. CASE /\ rowLock' = [rowLock EXCEPT ![sid[w]] = w] /\ Goto(w, "update")
             /\ UNCHANGED sid
    <3>1. pc[w] = "lock" /\ Rest(w) /\ pc'[w] = "update"
      BY <1>6, <2>2, OthersRest DEF UpdateLock, Goto, TypeOK
    <3>2. ASSUME NEW s \in Ids, rowLock'[s] \in Workers
          PROVE  sid'[rowLock'[s]] = s /\ pc'[rowLock'[s]] \in Updating \ {"lock"}
      <4>1. CASE s = sid[w]
        BY <2>2, <3>1, <4>1 DEF TypeOK, Updating
      <4>2. CASE s # sid[w]
        BY <2>2, <3>1, <3>2, <4>2, ZenonT(60) DEF TypeOK, LockInv
      <4> QED
        BY <4>1, <4>2
    <3> QED
      BY <3>2 DEF LockInv
  <2> QED
    BY <1>6, <2>1, <2>2 DEF UpdateLock
<1>7. CASE UNCHANGED vars
  BY <1>7 DEF LockInv, vars, locks, local
<1> QED
  BY <1>1, <1>2, <1>3, <1>4, <1>5, <1>6, <1>7 DEF Next, Proceed

\* Row locks are never left behind.
LEMMA RowLocksHeld == Spec => []LockInv
<1>1. Init => LockInv
  BY WorkersAssumption DEF Init, LockInv
<1> QED
  BY <1>1, TypeCorrect, NextLockInv, PTL DEF Spec

\* An update that skips the session it sampled does so because another update,
\* under way or cut off from its client, has the row.
THEOREM SkipsAreContention == Spec => SkipMeansContention
<1> DEFINE Skips(w) == pc[w] = "lock" /\ pc'[w] = "idle" /\ res'[w] = "skip"
           Contended(w) == LET h == rowLock[sid[w]]
                           IN  /\ h \in (Workers \ {w}) \cup {Lost}
                               /\ h # Lost => sid[h] = sid[w] /\ pc[h] \in Updating \ {"lock"}
<1>1. ASSUME TypeOK, SessionInv, LockInv, [Next]_vars
      PROVE  [\A w \in Workers : Skips(w) => Contended(w)]_vars
  <2> SUFFICES ASSUME NEW w \in Workers, Skips(w) PROVE Contended(w)
    OBVIOUS
  <2>1. UpdateLock(w)
    <3>1. ASSUME NEW v \in Workers, v # w, Start(v) \/ Proceed(v) \/ Fails(v) PROVE FALSE
      BY <1>1, <3>1 DEF Start, Proceed, InsertStart, ReadStart, UpdateStart, DeleteStart,
           SampleSession, InsertSession, InsertEvent, InsertAudit, InsertCommit, InsertPush,
           ReadReturns, UpdateLock, UpdateRow, UpdateAudit, UpdateCommit, DeleteSelect,
           DeleteLock, DeleteCommit, Deadlocked, Fails, Forget, Goto, TypeOK
    <3>2. ~Start(w) /\ ~Fails(w)
      BY <1>1 DEF Start, InsertStart, ReadStart, UpdateStart, DeleteStart, SampleSession, Fails,
                  Forget, TypeOK
    <3>3. Proceed(w) => UpdateLock(w)
      BY <1>1 DEF Proceed, InsertSession, InsertEvent, InsertAudit, InsertCommit, InsertPush,
           ReadReturns, UpdateRow, UpdateAudit, UpdateCommit, DeleteSelect,
           DeleteLock, DeleteCommit, Deadlocked, WaitsFor
    <3>4. ~EndLost /\ ~UNCHANGED vars
      BY DEF EndLost, vars, local
    <3> QED
      BY <1>1, <3>1, <3>2, <3>3, <3>4 DEF Next
  <2>2. sid[w] \in Ids /\ status[sid[w]] # "none"
    BY <1>1 DEF TypeOK, SessionInv, WorkInv, Chasing, Updating
  <2>3. rowLock[sid[w]] # NoWorker
    BY <1>1, <2>1, <2>2 DEF UpdateLock, Goto, TypeOK
  <2>4. rowLock[sid[w]] \in Workers \cup {Lost}
    BY <1>1, <2>2, <2>3 DEF TypeOK
  <2> QED
    BY <1>1, <2>2, <2>4, WorkersAssumption DEF LockInv
<1> QED
  BY <1>1, TypeCorrect, SessionsConsistent, RowLocksHeld, PTL DEF Spec, SkipMeansContention

-----------------------------------------------------------------------------
(* Locks of events, and who waits for whom *)

\* The events a delete still has to lock are different ones, and one that is
\* locked for a worker belongs to its delete, which has passed it.
BatchInv ==
  /\ \A w \in Workers : \A i, j \in 1..Len(target[w]) : i # j => target[w][i] # target[w][j]
  /\ \A s \in Ids, e \in 1..MaxEvents : evLock[s][e] \in Workers =>
       LET v == evLock[s][e]
       IN  pc[v] = "delete" /\ sid[v] = s /\ \A i \in 1..Len(target[v]) : target[v][i] # e

\* The first of the events to be locked.
LEMMA NextEvent ==
  ASSUME TypeOK, NEW w \in Workers, target[w] # <<>>
  PROVE  /\ Head(target[w]) \in 1..MaxEvents /\ Head(target[w]) = target[w][1]
         /\ 1 \in 1..Len(target[w])
<1> DEFINE q == target[w]
<1>1. q \in Seq(1..MaxEvents) /\ q # <<>>
  BY DEF TypeOK
<1> HIDE DEF q
<1>2. Head(q) = q[1] /\ 1 \in 1..Len(q)
  BY <1>1
<1>3. q[1] \in 1..MaxEvents
  BY <1>1, <1>2, ElementOfSeq
<1> QED
  BY <1>2, <1>3 DEF q

\* A step of w that leaves events, and the others, alone.
LEMMA BatchKept ==
  ASSUME TypeOK, BatchInv, NEW w \in Workers, pc[w] # "delete", UNCHANGED evLock,
         \A v \in Workers \ {w} : pc'[v] = pc[v] /\ sid'[v] = sid[v] /\ target'[v] = target[v],
         \A i, j \in 1..Len(target'[w]) : i # j => target'[w][i] # target'[w][j]
  PROVE  BatchInv'
<1>1. ASSUME NEW v \in Workers
      PROVE  \A i, j \in 1..Len(target'[v]) : i # j => target'[v][i] # target'[v][j]
  BY DEF BatchInv
<1>2. ASSUME NEW s \in Ids, NEW e \in 1..MaxEvents, NEW v \in Workers, evLock'[s][e] = v
      PROVE  pc'[v] = "delete" /\ sid'[v] = s /\ \A i \in 1..Len(target'[v]) : target'[v][i] # e
  BY <1>2 DEF BatchInv
<1> QED
  BY <1>1, <1>2 DEF BatchInv

\* A worker whose operation ends gives up its events and forgets its batch.
LEMMA BatchPassed ==
  ASSUME TypeOK, BatchInv, NEW w \in Workers, NEW g \in {NoWorker, Lost}, PassLocks(w, g),
         \A v \in Workers \ {w} : pc'[v] = pc[v] /\ sid'[v] = sid[v],
         target' = [target EXCEPT ![w] = <<>>] \/ UNCHANGED target
  PROVE  BatchInv'
<1>1. \A v \in Workers : target'[v] = target[v] \/ target'[v] = <<>>
  BY DEF TypeOK
<1>2. ASSUME NEW v \in Workers
      PROVE  \A i, j \in 1..Len(target'[v]) : i # j => target'[v][i] # target'[v][j]
  BY <1>1 DEF BatchInv
<1>3. ASSUME NEW s \in Ids, NEW e \in 1..MaxEvents, NEW v \in Workers, evLock'[s][e] = v
      PROVE  pc'[v] = "delete" /\ sid'[v] = s /\ \A i \in 1..Len(target'[v]) : target'[v][i] # e
  <2>1. v # w /\ evLock[s][e] = v
    BY <1>3, WorkersAssumption DEF PassLocks
  <2>2. target'[v] = target[v]
    BY <2>1 DEF TypeOK
  <2> QED
    BY <2>1, <2>2 DEF BatchInv
<1> QED
  BY <1>2, <1>3 DEF BatchInv

\* What a worker does to its own variables leaves those of the others alone.
LEMMA OtherBatchesRest ==
  ASSUME TypeOK, NEW w \in Workers,
         \/ \E r : Forget(w, r)
         \/ \E l : Goto(w, l) /\ (UNCHANGED sid \/ \E x : sid' = [sid EXCEPT ![w] = x])
                              /\ UNCHANGED target
  PROVE  /\ \A v \in Workers \ {w} : pc'[v] = pc[v] /\ sid'[v] = sid[v] /\ target'[v] = target[v]
         /\ target'[w] = target[w] \/ target'[w] = <<>>
  BY DEF Forget, Goto, TypeOK

\* Every step leaves the locks of events with the deletes that took them.
LEMMA NextBatchInv == TypeOK /\ BatchInv /\ [Next]_vars => BatchInv'
<1> SUFFICES ASSUME TypeOK, BatchInv, [Next]_vars PROVE BatchInv'
  OBVIOUS
<1> DEFINE Rest(w) == \A v \in Workers \ {w} :
                         pc'[v] = pc[v] /\ sid'[v] = sid[v] /\ target'[v] = target[v]
           Distinct(w) == \A i, j \in 1..Len(target'[w]) : i # j => target'[w][i] # target'[w][j]
<1>0. \A w \in Workers : target'[w] = target[w] \/ target'[w] = <<>> => Distinct(w)
  BY DEF BatchInv
<1>1. ASSUME NEW w \in Workers,
             Fails(w) \/ InsertCommit(w) \/ UpdateCommit(w) \/ DeleteCommit(w) \/ Deadlocked(w)
      PROVE  BatchInv'
  <2>1. PICK g \in {NoWorker, Lost} : PassLocks(w, g)
    BY <1>1 DEF Fails, InsertCommit, UpdateCommit, DeleteCommit, Deadlocked, Unlock
  <2>2. \/ \E r : Forget(w, r)
        \/ Goto(w, "push") /\ UNCHANGED <<sid, target>>
    BY <1>1 DEF Fails, InsertCommit, UpdateCommit, DeleteCommit, Deadlocked
  <2>3. \A v \in Workers \ {w} : pc'[v] = pc[v] /\ sid'[v] = sid[v]
    BY <2>2, OthersRest
  <2>4. target' = [target EXCEPT ![w] = <<>>] \/ UNCHANGED target
    BY <2>2 DEF Forget
  <2> QED
    BY <2>1, <2>3, <2>4, BatchPassed
<1>2. CASE EndLost
  <2>1. /\ UNCHANGED <<pc, sid, target>>
        /\ \A s \in Ids, e \in 1..MaxEvents :
             evLock'[s][e] \in Workers => evLock'[s][e] = evLock[s][e]
    BY <1>2, WorkersAssumption DEF EndLost, PassLocks, local
  <2>2. \A w \in Workers : Distinct(w)
    BY <1>0, <2>1
  <2>3. ASSUME NEW s \in Ids, NEW e \in 1..MaxEvents, evLock'[s][e] \in Workers
        PROVE  LET v == evLock'[s][e]
               IN  /\ pc'[v] = "delete" /\ sid'[v] = s
                   /\ \A i \in 1..Len(target'[v]) : target'[v][i] # e
    BY <2>1, <2>3 DEF BatchInv
  <2> QED
    BY <2>2, <2>3 DEF BatchInv
<1>3. ASSUME NEW w \in Workers,
             \/ InsertSession(w) \/ InsertEvent(w) \/ InsertAudit(w) \/ InsertPush(w)
             \/ ReadReturns(w) \/ UpdateRow(w) \/ UpdateAudit(w) \/ Start(w)
      PROVE  BatchInv'
  <2>1. UNCHANGED evLock /\ pc[w] # "delete"
    BY <1>3 DEF InsertSession, InsertEvent, InsertAudit, InsertPush, ReadReturns, UpdateRow,
                UpdateAudit, Start, InsertStart, ReadStart, UpdateStart, DeleteStart,
                SampleSession, locks
  <2>2. \/ \E r : Forget(w, r)
        \/ \E l : Goto(w, l) /\ (UNCHANGED sid \/ \E x : sid' = [sid EXCEPT ![w] = x])
                             /\ UNCHANGED target
        \/ UNCHANGED <<pc, sid, target>>
    BY <1>3 DEF InsertSession, InsertEvent, InsertAudit, InsertPush, ReadReturns, UpdateRow,
                UpdateAudit, Start, InsertStart, ReadStart, UpdateStart, DeleteStart, SampleSession
  <2>3. Rest(w) /\ (target'[w] = target[w] \/ target'[w] = <<>>)
    BY <2>2, OtherBatchesRest
  <2>4. Distinct(w)
    BY <1>0, <2>3
  <2> QED
    BY <2>1, <2>3, <2>4, BatchKept
<1>4. ASSUME NEW w \in Workers, UpdateLock(w) PROVE BatchInv'
  <2>1. CASE Unlock(w) /\ Forget(w, "skip")
    BY <2>1, BatchPassed, OthersRest DEF Unlock, Forget
  <2>2. CASE Goto(w, "update") /\ UNCHANGED <<evLock, sid, target>>
    <3>1. pc[w] # "delete"
      BY <1>4 DEF UpdateLock
    <3> QED
      BY <1>0, <2>2, <3>1, OtherBatchesRest, BatchKept
  <2> QED
    BY <1>4, <2>1, <2>2 DEF UpdateLock
<1>5. ASSUME NEW w \in Workers, DeleteSelect(w) PROVE BatchInv'
  <2>0. PICK b \in SUBSET events[sid[w]] :
          \E order \in SetToSeqs(b) : target' = [target EXCEPT ![w] = order]
    BY <1>5 DEF DeleteSelect
  <2>1. PICK order \in SetToSeqs(b) : target' = [target EXCEPT ![w] = order]
    BY <2>0
  <2>2. b \in SUBSET (1..MaxEvents)
    BY <1>5, <2>1 DEF DeleteSelect, TypeOK
  <2>3. /\ order \in Seq(1..MaxEvents)
        /\ \A i, j \in 1..Len(order) : i # j => order[i] # order[j]
    BY <2>1, <2>2, BatchOrder
  <2>4. pc[w] # "delete" /\ UNCHANGED <<evLock, sid>> /\ Goto(w, "delete")
    BY <1>5 DEF DeleteSelect, locks
  <2>5. target'[w] = order /\ \A v \in Workers \ {w} : target'[v] = target[v]
    BY <2>1 DEF TypeOK
  <2>6. Distinct(w)
    BY <2>3, <2>5
  <2>7. Rest(w)
    BY <2>4, <2>5 DEF Goto, TypeOK
  <2> QED
    BY <2>4, <2>6, <2>7, BatchKept
<1>6. ASSUME NEW w \in Workers, DeleteLock(w) PROVE BatchInv'
  <2> DEFINE e0 == Head(target[w])
  <2>1. /\ pc[w] = "delete" /\ target[w] # <<>> /\ target[w] \in Seq(1..MaxEvents)
        /\ sid[w] \in Ids /\ e0 \in 1..MaxEvents
    BY <1>6, NextEvent DEF DeleteLock, TypeOK
  <2>2. /\ UNCHANGED <<pc, sid>> /\ target'[w] = Tail(target[w])
        /\ \A v \in Workers \ {w} : target'[v] = target[v]
    BY <1>6 DEF DeleteLock, TypeOK
  <2>3. \A i \in 1..Len(Tail(target[w])) :
          /\ i + 1 \in 1..Len(target[w]) /\ i + 1 # 1 /\ 1 \in 1..Len(target[w])
          /\ Tail(target[w])[i] = target[w][i + 1]
    BY <2>1
  <2>4. e0 = target[w][1]
    BY <2>1
  <2>5. \A i \in 1..Len(target'[w]) : target'[w][i] # e0
    BY <2>2, <2>3, <2>4 DEF BatchInv
  <2>6. Distinct(w)
    <3> SUFFICES ASSUME NEW i \in 1..Len(target'[w]), NEW j \in 1..Len(target'[w]), i # j
                 PROVE  target'[w][i] # target'[w][j]
      OBVIOUS
    <3>1. i + 1 # j + 1
      BY <2>1, <2>2
    <3> QED
      BY <2>2, <2>3, <3>1 DEF BatchInv
  <2>7. ASSUME NEW s \in Ids, NEW e \in 1..MaxEvents, NEW v \in Workers, evLock'[s][e] = v
        PROVE  pc'[v] = "delete" /\ sid'[v] = s /\ \A i \in 1..Len(target'[v]) : target'[v][i] # e
    <3>1. CASE s = sid[w] /\ e = e0
      <4>1. evLock'[s][e] \in {w, NoWorker}
        BY <1>6, <2>1, <3>1 DEF DeleteLock, TypeOK
      <4>2. v = w
        BY <2>7, <4>1, WorkersAssumption
      <4> QED
        BY <2>1, <2>2, <2>5, <3>1, <4>2
    <3>2. CASE ~(s = sid[w] /\ e = e0)
      <4>1. evLock[s][e] = v
        BY <1>6, <2>1, <2>7, <3>2 DEF DeleteLock, TypeOK
      <4>2. pc[v] = "delete" /\ sid[v] = s /\ \A i \in 1..Len(target[v]) : target[v][i] # e
        BY <4>1 DEF BatchInv
      <4>3. CASE v = w
        BY <2>2, <2>3, <4>2, <4>3, ZenonT(60)
      <4>4. CASE v # w
        BY <2>2, <4>2, <4>4
      <4> QED
        BY <2>2, <4>2, <4>3, <4>4
    <3> QED
      BY <3>1, <3>2
  <2>8. \A v \in Workers : Distinct(v)
    BY <1>0, <2>2, <2>6
  <2> QED
    BY <2>7, <2>8 DEF BatchInv
<1>7. CASE UNCHANGED vars
  <2>1. UNCHANGED <<evLock, pc, sid, target>>
    BY <1>7 DEF vars, locks, local
  <2> QED
    BY <2>1 DEF BatchInv
<1> QED
  BY <1>1, <1>2, <1>3, <1>4, <1>5, <1>6, <1>7 DEF Next, Proceed

\* Locks of events are never left behind, and a delete never meets its own.
LEMMA BatchesLocked == Spec => []BatchInv
<1>1. Init => BatchInv
  BY WorkersAssumption DEF Init, BatchInv
<1> QED
  BY <1>1, TypeCorrect, NextBatchInv, PTL DEF Spec

\* A delete never waits for itself, for an operation of another kind or for one
\* that has ended: only for another delete of the same session that is under way.
WaitsAmongDeletes ==
  \A w, v \in Workers : WaitsFor(w, v) => v # w /\ pc[v] = "delete" /\ sid[v] = sid[w]

\* When deletes are under way one of them finds its next event free or is done,
\* or the server has a lost client to end, or its detector may fail any of them.
DeletesUnblocked ==
  LET D == {w \in Workers : pc[w] = "delete"}
  IN  \/ \E w \in D : target[w] = <<>> \/ evLock[sid[w]][Head(target[w])] = NoWorker
      \/ HeldByLost
      \/ \A w \in D : \E C \in SUBSET D : w \in C /\ \A v \in C : \E u \in C : WaitsFor(v, u)

\* The safety half of EveryOpReturns: the deletes of ops.go:308, the only
\* operations that wait, never wait in a way that nothing resolves.
THEOREM DeletesNeverStuck == Spec => [](WaitsAmongDeletes /\ DeletesUnblocked)
<1>1. ASSUME TypeOK, BatchInv PROVE WaitsAmongDeletes
  <2> SUFFICES ASSUME NEW w \in Workers, NEW v \in Workers, WaitsFor(w, v)
               PROVE  v # w /\ pc[v] = "delete" /\ sid[v] = sid[w]
    BY DEF WaitsAmongDeletes
  <2>1. pc[w] = "delete" /\ target[w] # <<>> /\ evLock[sid[w]][Head(target[w])] = v
    BY DEF WaitsFor
  <2>2. sid[w] \in Ids
    BY <1>1, <2>1 DEF TypeOK
  <2>3. /\ Head(target[w]) \in 1..MaxEvents
        /\ 1 \in 1..Len(target[w]) /\ Head(target[w]) = target[w][1]
    BY <1>1, <2>1, NextEvent
  <2> QED
    BY <1>1, <2>1, <2>2, <2>3 DEF BatchInv
<1>2. ASSUME TypeOK, WaitsAmongDeletes PROVE DeletesUnblocked
  <2> DEFINE D == {w \in Workers : pc[w] = "delete"}
  <2> SUFFICES ASSUME ~HeldByLost,
                      \A w \in D : target[w] # <<>> /\ evLock[sid[w]][Head(target[w])] # NoWorker
               PROVE  \A w \in D : \E C \in SUBSET D :
                        w \in C /\ \A v \in C : \E u \in C : WaitsFor(v, u)
    BY DEF DeletesUnblocked
  <2>1. ASSUME NEW v \in D PROVE \E u \in D : WaitsFor(v, u)
    <3>1. sid[v] \in Ids /\ Head(target[v]) \in 1..MaxEvents
      BY <1>2, <2>1, NextEvent DEF TypeOK
    <3>2. evLock[sid[v]][Head(target[v])] \in Workers
      BY <1>2, <2>1, <3>1 DEF TypeOK, HeldByLost
    <3>3. WaitsFor(v, evLock[sid[v]][Head(target[v])])
      BY <2>1 DEF WaitsFor
    <3> QED
      BY <1>2, <2>1, <3>2, <3>3 DEF WaitsAmongDeletes
  <2> QED
    BY <2>1
<1>3. TypeOK /\ BatchInv => WaitsAmongDeletes /\ DeletesUnblocked
  BY <1>1, <1>2
<1> QED
  BY <1>3, TypeCorrect, BatchesLocked, PTL
=============================================================================
