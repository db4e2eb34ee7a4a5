-------------------------- MODULE RunResultProofs ---------------------------
(***************************************************************************)
(* Proofs about RunResult for any number of runs, tables and chunks: the   *)
(* result file is replaced as a whole, which is the refinement of          *)
(* ResultFile; a run that is not killed leaves cleanly, with a complete    *)
(* document when nothing failed; and the growth it reports covers what its *)
(* own workers wrote (src/main.go, src/workload/result.go).                *)
(***************************************************************************)
EXTENDS RunResult, SumTheorems, TLAPS

Labels == {"open_query", "open_rows", "server", "run", "close_query", "close_rows",
           "write", "chunks", "rename", "exit", "killed"}

-----------------------------------------------------------------------------
(* The file *)

\* What keeps the path whole: it names the earlier file or a published one, a
\* published file is complete and its run is over, a file about to be renamed is
\* complete, and a temporary name belongs to a run that is writing, or was killed.
FileInv ==
  /\ pc \in [Runs -> Labels]
  /\ length \in [Inodes -> Nat] /\ length[Previous] = Chunks
  /\ published \subseteq Runs /\ temps \subseteq Runs
  /\ path \in {NoFile, Previous} \cup published
  /\ \A r \in published : pc[r] = "exit" /\ length[r] = Chunks
  /\ \A r \in Runs : pc[r] = "rename" => length[r] = Chunks
  /\ \A r \in temps : pc[r] \in {"chunks", "rename", "killed"}

\* Initially the path names the file of an earlier run, or none.
LEMMA InitFileInv == Init => FileInv
  BY RunResultAssumption DEF Init, FileInv, Labels, Inodes

\* Steps of a run that has not begun to write leave the files alone.
LEMMA FileUntouched ==
  ASSUME FileInv, UNCHANGED <<fileVars, published>>, NEW r \in Runs,
         pc[r] \notin {"chunks", "rename", "exit", "killed"},
         \/ UNCHANGED pc
         \/ \E l \in Labels \ {"chunks", "rename"} : pc' = [pc EXCEPT ![r] = l]
  PROVE  FileInv'
  BY DEF FileInv, fileVars

\* Every step keeps the files as they must be.
LEMMA NextFileInv == FileInv /\ [Next]_vars => FileInv'
<1> SUFFICES ASSUME FileInv, [Next]_vars PROVE FileInv'
  OBVIOUS
<1>1. ASSUME NEW r \in Runs, Query(r) PROVE FileInv'
  BY <1>1, FileUntouched DEF Query, Querying, Goto, Labels
<1>2. ASSUME NEW r \in Runs, Row(r) PROVE FileInv'
  BY <1>2, FileUntouched DEF Row, Reading, history
<1>3. ASSUME NEW r \in Runs, SnapshotFails(r) PROVE FileInv'
  BY <1>3, FileUntouched DEF SnapshotFails, Querying, Reading, Goto, Labels
<1>4. ASSUME NEW r \in Runs, SnapshotDone(r) PROVE FileInv'
  BY <1>4, FileUntouched DEF SnapshotDone, Reading, Goto, Labels, history
<1>5. ASSUME NEW r \in Runs, SnapshotServerInfo(r) PROVE FileInv'
  BY <1>5, FileUntouched DEF SnapshotServerInfo, Goto, Labels
<1>6. ASSUME NEW r \in Runs, WorkersWrite(r) PROVE FileInv'
  BY <1>6, FileUntouched DEF WorkersWrite, mainVars
<1>7. ASSUME NEW r \in Runs, StopRun(r) PROVE FileInv'
  BY <1>7, FileUntouched DEF StopRun, Goto, Labels, history
<1>8. ASSUME NEW r \in Runs, CreateTemp(r) PROVE FileInv'
  BY <1>8 DEF FileInv, CreateTemp, Goto, Labels, history
<1>9. ASSUME NEW r \in Runs, WriteChunk(r) PROVE FileInv'
  <2>1. r \notin published /\ r # Previous /\ r \in Inodes
    BY <1>9, RunResultAssumption DEF FileInv, WriteChunk, Inodes
  <2> QED
    BY <1>9, <2>1 DEF FileInv, WriteChunk, Inodes, mainVars, history
<1>10. ASSUME NEW r \in Runs, CloseTemp(r) PROVE FileInv'
  BY <1>10 DEF FileInv, CloseTemp, Goto, Labels, fileVars, history
<1>11. ASSUME NEW r \in Runs, Rename(r) PROVE FileInv'
  BY <1>11 DEF FileInv, Rename, Goto, Labels
<1>12. ASSUME NEW r \in Runs, WriteFails(r) PROVE FileInv'
  <2>1. r \notin published /\ r # Previous /\ r \in Inodes
    BY <1>12, RunResultAssumption DEF FileInv, WriteFails, Inodes
  <2> QED
    BY <1>12, <2>1 DEF FileInv, WriteFails, Goto, Labels, Inodes
<1>13. ASSUME NEW r \in Runs, Killed(r) PROVE FileInv'
  BY <1>13 DEF FileInv, Killed, Goto, Labels, fileVars
<1>14. CASE UNCHANGED vars
  BY <1>14 DEF FileInv, vars, mainVars, fileVars, history
<1> QED
  BY <1>1, <1>2, <1>3, <1>4, <1>5, <1>6, <1>7, <1>8, <1>9, <1>10, <1>11, <1>12, <1>13,
     <1>14 DEF Next

\* The files are as they must be throughout.
LEMMA FilesCorrect == Spec => []FileInv
  BY InitFileInv, NextFileInv, PTL DEF Spec

\* The path never names a torn file.
LEMMA NeverTorn == FileInv => Version = path
  BY DEF FileInv, Version

\* WriteRunResult implements ResultFile: only os.Rename moves the path, from one
\* complete version to the next and once per run, whatever fails or is killed.
THEOREM ResultReplacedAsAWhole == Spec => ReplacedAsAWhole
<1>1. Init => Abstract!Init
  BY RunResultAssumption, InitFileInv, NeverTorn DEF Init, Abstract!Init
<1>2. FileInv /\ FileInv' /\ [Next]_vars => [Abstract!Next]_<<Version, published>>
  <2> SUFFICES ASSUME FileInv, FileInv', [Next]_vars
               PROVE  Abstract!Next \/ UNCHANGED <<Version, published>>
    OBVIOUS
  <2>1. Version = path /\ Version' = path'
    BY NeverTorn DEF FileInv, Version
  <2>2. CASE UNCHANGED <<path, published>>
    BY <2>1, <2>2
  <2>3. ASSUME NEW r \in Runs, Rename(r) PROVE Abstract!Next
    <3>1. r \notin published
      BY <2>3 DEF FileInv, Rename
    <3> QED
      BY <2>1, <2>3, <3>1 DEF Rename, Abstract!Next, Abstract!Publish
  <2>4. ASSUME NEW r \in Runs,
               \/ Query(r) \/ Row(r) \/ SnapshotFails(r) \/ SnapshotDone(r)
               \/ SnapshotServerInfo(r) \/ WorkersWrite(r) \/ StopRun(r)
               \/ CreateTemp(r) \/ WriteChunk(r) \/ CloseTemp(r) \/ WriteFails(r)
               \/ Killed(r)
        PROVE  UNCHANGED <<path, published>>
    BY <2>4 DEF Query, Row, SnapshotFails, SnapshotDone, SnapshotServerInfo, WorkersWrite,
                StopRun, CreateTemp, WriteChunk, CloseTemp, WriteFails, Killed,
                fileVars, history
  <2>5. CASE UNCHANGED vars
    BY <2>2, <2>5 DEF vars, fileVars, history
  <2> QED
    BY <2>2, <2>3, <2>4, <2>5 DEF Next
<1> QED
  BY <1>1, <1>2, FilesCorrect, PTL DEF Spec, ReplacedAsAWhole, Abstract!Spec

-----------------------------------------------------------------------------
(* The document *)

\* What main holds while it goes through its phases.
DocumentTypes ==
  /\ pc \in [Runs -> Labels]
  /\ size \in [Tables -> Nat]
  /\ out \in [Runs -> Snapshots]
  /\ opening \in [Runs -> Snapshots \cup {None}]
  /\ document \in [Runs -> Documents \cup {None}]

\* ctx is cancelled only to stop the workers, and the closing snapshot is taken
\* only of a run that has an opening one.
Phased(r) ==
  /\ pc[r] \in {"open_query", "open_rows", "server", "run"} => r \notin cancelled
  /\ pc[r] \in {"close_query", "close_rows"} => opening[r] # None

\* A run in which nothing has failed has all it should have by now.
Complete(r) ==
  /\ pc[r] \in {"server", "run"} => opening[r] # None
  /\ pc[r] \in {"run", "close_query", "close_rows"} => r \in server
  /\ pc[r] \in {"write", "chunks", "rename", "exit"} =>
       document[r] # None /\ document[r].dataset # None /\ document[r].server
  /\ pc[r] = "exit" => r \in published

\* The inductive invariant behind ExitIsClean.
DocumentInv ==
  /\ DocumentTypes
  /\ \A r \in Runs : Phased(r) /\ (r \notin faults => Complete(r))

\* Initially nothing has been read.
LEMMA InitDocumentInv == Init => DocumentInv
<1> SUFFICES ASSUME Init PROVE DocumentInv
  OBVIOUS
<1>1. Empty \in Snapshots
  BY DEF Empty, Snapshots
<1>2. DocumentTypes
  BY <1>1 DEF Init, DocumentTypes, Labels
<1> QED
  BY <1>2 DEF Init, DocumentInv, Phased, Complete

\* A row adds a table and its size to the snapshot.
LEMMA RowType ==
  ASSUME NEW s \in Snapshots, NEW t \in Tables, NEW n \in Nat
  PROVE  [tables |-> s.tables \cup {t}, total |-> s.total + n] \in Snapshots
  BY DEF Snapshots

\* The document of a run that has both snapshots shows a dataset.
LEMMA DatasetType ==
  ASSUME NEW a \in Snapshots, NEW b \in Snapshots
  PROVE  /\ [start |-> a, end |-> b, growth |-> GrowthOf(a, b)] \in Datasets
         /\ [start |-> a, end |-> b, growth |-> GrowthOf(a, b)] # None
<1>1. GrowthOf(a, b) \in Int
  BY DEF GrowthOf, Snapshots
<1>2. [start |-> a, end |-> b, growth |-> GrowthOf(a, b)] \in Datasets
  BY <1>1 DEF Datasets
<1> QED
  BY <1>2, NilAssumption

\* What BuildRunResult makes of a dataset and the settings of the server.
LEMMA BuildType ==
  ASSUME DocumentTypes, NEW r \in Runs, NEW d \in Datasets \cup {None}, Build(r, d)
  PROVE  /\ document' \in [Runs -> Documents \cup {None}]
         /\ document'[r] # None /\ document'[r].dataset = d
         /\ r \in server => document'[r].server
         /\ \A q \in Runs : q # r => document'[q] = document[q]
<1> DEFINE doc == [dataset |-> d, server |-> r \in server]
<1>1. doc \in Documents /\ doc.dataset = d /\ (r \in server => doc.server)
  <2>1. ASSUME NEW b \in BOOLEAN PROVE [dataset |-> d, server |-> b] \in Documents
    BY DEF Documents
  <2>2. CASE r \in server
    <3>1. doc = [dataset |-> d, server |-> TRUE]
      BY <2>2, Zenon
    <3> QED
      BY <2>1, <3>1
  <2>3. CASE r \notin server
    <3>1. (r \in server) = FALSE
      BY <2>3
    <3>2. doc = [dataset |-> d, server |-> FALSE]
      BY <3>1, Zenon
    <3> QED
      BY <2>1, <2>3, <3>2
  <2> QED
    BY <2>2, <2>3
<1>2. doc # None
  BY <1>1, NilAssumption
<1>3. document' = [document EXCEPT ![r] = doc]
  BY DEF Build
<1> HIDE DEF doc
<1> QED
  BY <1>1, <1>2, <1>3 DEF DocumentTypes

\* A step of run r does not touch what belongs to another run.
LEMMA OthersKept ==
  ASSUME DocumentInv, DocumentTypes', NEW r \in Runs,
         \A q \in Runs \ {r} :
           /\ pc'[q] = pc[q] /\ opening'[q] = opening[q] /\ document'[q] = document[q]
           /\ (q \in cancelled') = (q \in cancelled) /\ (q \in server') = (q \in server)
           /\ (q \in published') = (q \in published) /\ (q \in faults') = (q \in faults),
         Phased(r)', r \notin faults' => Complete(r)'
  PROVE  DocumentInv'
<1>1. ASSUME NEW q \in Runs, q # r PROVE Phased(q)'
  BY <1>1 DEF DocumentInv, Phased
<1>2. ASSUME NEW q \in Runs, q # r, q \notin faults' PROVE Complete(q)'
  BY <1>2 DEF DocumentInv, Complete
<1> QED
  BY <1>1, <1>2 DEF DocumentInv

\* Every step keeps the promise that a run without a failure is complete.
LEMMA NextDocumentInv == DocumentInv /\ [Next]_vars => DocumentInv'
<1> SUFFICES ASSUME DocumentInv, [Next]_vars PROVE DocumentInv'
  OBVIOUS
<1>a. Empty \in Snapshots
  BY DEF Empty, Snapshots
<1> USE DEF Goto, Faulty
<1>1. ASSUME NEW r \in Runs, Query(r) PROVE DocumentInv'
  <2>1. DocumentTypes'
    BY <1>1, <1>a DEF DocumentInv, DocumentTypes, Query, Labels
  <2>2. Phased(r)' /\ (r \notin faults' => Complete(r)')
    BY <1>1 DEF DocumentInv, DocumentTypes, Query, Querying, Opens, Phased, Complete
  <2> QED
    BY <1>1, <2>1, <2>2, OthersKept DEF DocumentInv, DocumentTypes, Query
<1>2. ASSUME NEW r \in Runs, Row(r) PROVE DocumentInv'
  <2>1. PICK t \in Tables : out' = [out EXCEPT ![r] =
              [tables |-> out[r].tables \cup {t}, total |-> out[r].total + size[t]]]
    BY <1>2 DEF Row
  <2>2. out[r] \in Snapshots /\ size[t] \in Nat
    BY DEF DocumentInv, DocumentTypes
  <2>3. out' \in [Runs -> Snapshots]
    BY <2>1, <2>2, RowType DEF DocumentInv, DocumentTypes
  <2>4. DocumentTypes'
    BY <1>2, <2>3 DEF DocumentInv, DocumentTypes, Row
  <2> QED
    BY <1>2, <2>4 DEF DocumentInv, Row, Phased, Complete, history
<1>3. ASSUME NEW r \in Runs, SnapshotFails(r) PROVE DocumentInv'
  <2>1. CASE Opens(r)
    <3>1. pc' = [pc EXCEPT ![r] = "server"] /\ UNCHANGED document
      BY <1>3, <2>1 DEF SnapshotFails
    <3>2. r \notin cancelled
      BY <2>1 DEF DocumentInv, Phased, Opens
    <3>3. faults' = faults \cup {r}
      BY <1>3, <3>2 DEF SnapshotFails, ContextDone
    <3>4. DocumentTypes'
      BY <1>3, <1>a, <3>1 DEF DocumentInv, DocumentTypes, SnapshotFails, Labels
    <3>5. Phased(r)'
      BY <1>3, <3>1, <3>2 DEF DocumentInv, DocumentTypes, SnapshotFails, Phased
    <3> QED
      BY <1>3, <3>1, <3>3, <3>4, <3>5, OthersKept DEF DocumentInv, DocumentTypes, SnapshotFails
  <2>2. CASE ~Opens(r)
    <3>1. pc' = [pc EXCEPT ![r] = "write"] /\ Build(r, None)
      BY <1>3, <2>2 DEF SnapshotFails
    <3>2. /\ document' \in [Runs -> Documents \cup {None}]
          /\ \A q \in Runs : q # r => document'[q] = document[q]
      BY <3>1, BuildType DEF DocumentInv
    <3>3. faults' = faults \cup {r}
      BY <1>3, <2>2 DEF SnapshotFails, ContextDone
    <3>4. DocumentTypes'
      BY <1>3, <1>a, <3>1, <3>2 DEF DocumentInv, DocumentTypes, SnapshotFails, Labels
    <3>5. Phased(r)'
      BY <3>1 DEF DocumentInv, DocumentTypes, Phased
    <3> QED
      BY <1>3, <3>1, <3>2, <3>3, <3>4, <3>5, OthersKept
         DEF DocumentInv, DocumentTypes, SnapshotFails
  <2> QED
    BY <2>1, <2>2
<1>4. ASSUME NEW r \in Runs, SnapshotDone(r) PROVE DocumentInv'
  <2>0. out[r] \in Snapshots /\ out[r] # None
    BY NilAssumption DEF DocumentInv, DocumentTypes
  <2>1. CASE Opens(r)
    <3>1. /\ pc' = [pc EXCEPT ![r] = "server"] /\ UNCHANGED document
          /\ opening' = [opening EXCEPT ![r] = out[r]]
      BY <1>4, <2>1 DEF SnapshotDone
    <3>2. r \notin cancelled
      BY <2>1 DEF DocumentInv, Phased, Opens
    <3>3. DocumentTypes'
      BY <1>4, <1>a, <2>0, <3>1 DEF DocumentInv, DocumentTypes, SnapshotDone, Labels
    <3>4. Phased(r)' /\ Complete(r)'
      BY <1>4, <2>0, <3>1, <3>2
         DEF DocumentInv, DocumentTypes, SnapshotDone, Phased, Complete
    <3> QED
      BY <1>4, <3>1, <3>3, <3>4, OthersKept
         DEF DocumentInv, DocumentTypes, SnapshotDone, history
  <2>2. CASE ~Opens(r)
    <3> DEFINE d == [start |-> opening[r], end |-> out[r], growth |-> GrowthOf(opening[r], out[r])]
    <3>1. pc' = [pc EXCEPT ![r] = "write"] /\ Build(r, d) /\ UNCHANGED opening
      BY <1>4, <2>2 DEF SnapshotDone
    <3>2. pc[r] = "close_rows" /\ opening[r] \in Snapshots
      BY <1>4, <2>2 DEF SnapshotDone, Reading, Opens, DocumentInv, DocumentTypes, Phased
    <3>3. d \in Datasets /\ d # None
      BY <2>0, <3>2, DatasetType
    <3> HIDE DEF d
    <3>4. /\ document' \in [Runs -> Documents \cup {None}]
          /\ document'[r] # None /\ document'[r].dataset = d
          /\ r \in server => document'[r].server
          /\ \A q \in Runs : q # r => document'[q] = document[q]
      BY <3>1, <3>3, BuildType DEF DocumentInv
    <3>5. DocumentTypes'
      BY <1>4, <1>a, <3>1, <3>4 DEF DocumentInv, DocumentTypes, SnapshotDone, Labels
    <3>6. Phased(r)'
      BY <3>1 DEF DocumentInv, DocumentTypes, Phased
    <3>7. r \notin faults' => Complete(r)'
      BY <1>4, <3>1, <3>2, <3>3, <3>4
         DEF DocumentInv, DocumentTypes, SnapshotDone, Complete, history
    <3> QED
      BY <1>4, <3>1, <3>4, <3>5, <3>6, <3>7, OthersKept
         DEF DocumentInv, DocumentTypes, SnapshotDone, history
  <2> QED
    BY <2>1, <2>2
<1>5. ASSUME NEW r \in Runs, SnapshotServerInfo(r) PROVE DocumentInv'
  <2>1. DocumentTypes'
    BY <1>5 DEF DocumentInv, DocumentTypes, SnapshotServerInfo, Labels
  <2>2. Phased(r)' /\ (r \notin faults' => Complete(r)')
    BY <1>5 DEF DocumentInv, DocumentTypes, SnapshotServerInfo, Phased, Complete
  <2> QED
    BY <1>5, <2>1, <2>2, OthersKept DEF DocumentInv, DocumentTypes, SnapshotServerInfo
<1>6. ASSUME NEW r \in Runs, WorkersWrite(r) PROVE DocumentInv'
  <2>1. size' \in [Tables -> Nat]
    BY <1>6 DEF DocumentInv, DocumentTypes, WorkersWrite
  <2> QED
    BY <1>6, <2>1 DEF DocumentInv, DocumentTypes, WorkersWrite, Phased, Complete, mainVars
<1>7. ASSUME NEW r \in Runs, StopRun(r) PROVE DocumentInv'
  <2>1. CASE opening[r] # None
    <3>1. pc' = [pc EXCEPT ![r] = "close_query"] /\ UNCHANGED document
      BY <1>7, <2>1 DEF StopRun
    <3>2. DocumentTypes'
      BY <1>7, <3>1 DEF DocumentInv, DocumentTypes, StopRun, Labels
    <3>3. Phased(r)' /\ (r \notin faults' => Complete(r)')
      BY <1>7, <2>1, <3>1 DEF DocumentInv, DocumentTypes, StopRun, Phased, Complete, history
    <3> QED
      BY <1>7, <3>1, <3>2, <3>3, OthersKept DEF DocumentInv, DocumentTypes, StopRun, history
  <2>2. CASE opening[r] = None
    <3>1. pc' = [pc EXCEPT ![r] = "write"] /\ Build(r, None)
      BY <1>7, <2>2 DEF StopRun
    <3>2. /\ document' \in [Runs -> Documents \cup {None}]
          /\ \A q \in Runs : q # r => document'[q] = document[q]
      BY <3>1, BuildType DEF DocumentInv
    <3>3. r \in faults /\ faults' = faults
      BY <1>7, <2>2 DEF DocumentInv, StopRun, Complete, history
    <3>4. DocumentTypes'
      BY <1>7, <3>1, <3>2 DEF DocumentInv, DocumentTypes, StopRun, Labels
    <3>5. Phased(r)'
      BY <3>1 DEF DocumentInv, DocumentTypes, Phased
    <3> QED
      BY <1>7, <3>1, <3>2, <3>3, <3>4, <3>5, OthersKept
         DEF DocumentInv, DocumentTypes, StopRun, history
  <2> QED
    BY <2>1, <2>2
<1>8. ASSUME NEW r \in Runs, CreateTemp(r) \/ CloseTemp(r) PROVE DocumentInv'
  <2>1. DocumentTypes'
    BY <1>8 DEF DocumentInv, DocumentTypes, CreateTemp, CloseTemp, Labels
  <2>2. Phased(r)' /\ (r \notin faults' => Complete(r)')
    BY <1>8 DEF DocumentInv, DocumentTypes, CreateTemp, CloseTemp, Phased, Complete, history
  <2> QED
    BY <1>8, <2>1, <2>2, OthersKept
       DEF DocumentInv, DocumentTypes, CreateTemp, CloseTemp, history
<1>9. ASSUME NEW r \in Runs, WriteChunk(r) PROVE DocumentInv'
  BY <1>9 DEF DocumentInv, DocumentTypes, WriteChunk, Phased, Complete, mainVars, history
<1>10. ASSUME NEW r \in Runs, Rename(r) PROVE DocumentInv'
  <2>1. DocumentTypes'
    BY <1>10 DEF DocumentInv, DocumentTypes, Rename, Labels
  <2>2. Phased(r)' /\ (r \notin faults' => Complete(r)')
    BY <1>10 DEF DocumentInv, DocumentTypes, Rename, Phased, Complete
  <2> QED
    BY <1>10, <2>1, <2>2, OthersKept DEF DocumentInv, DocumentTypes, Rename
<1>11. ASSUME NEW r \in Runs, WriteFails(r) PROVE DocumentInv'
  <2>1. DocumentTypes'
    BY <1>11 DEF DocumentInv, DocumentTypes, WriteFails, Labels
  <2>2. Phased(r)' /\ r \in faults'
    BY <1>11 DEF DocumentInv, DocumentTypes, WriteFails, Phased
  <2> QED
    BY <1>11, <2>1, <2>2, OthersKept DEF DocumentInv, DocumentTypes, WriteFails
<1>12. ASSUME NEW r \in Runs, Killed(r) PROVE DocumentInv'
  <2>1. DocumentTypes'
    BY <1>12, <1>a DEF DocumentInv, DocumentTypes, Killed, Labels
  <2>2. Phased(r)' /\ r \in faults'
    BY <1>12 DEF DocumentInv, DocumentTypes, Killed, Phased
  <2> QED
    BY <1>12, <2>1, <2>2, OthersKept DEF DocumentInv, DocumentTypes, Killed
<1>13. CASE UNCHANGED vars
  BY <1>13 DEF DocumentInv, DocumentTypes, Phased, Complete, vars, mainVars, history
<1> QED
  BY <1>1, <1>2, <1>3, <1>4, <1>5, <1>6, <1>7, <1>8, <1>9, <1>10, <1>11, <1>12, <1>13 DEF Next

\* A run that is not killed leaves no temporary file behind; if nothing failed it
\* has published a document with both optional parts.
THEOREM RunExitsClean == Spec => []ExitIsClean
<1>1. FileInv /\ DocumentInv => ExitIsClean
  BY DEF FileInv, DocumentInv, Complete, ExitIsClean
<1> QED
  BY <1>1, FilesCorrect, InitDocumentInv, NextDocumentInv, PTL DEF Spec

-----------------------------------------------------------------------------
(* The growth of the data set *)

SizeOf(S) == SumFunctionOnSet(size, S)

\* The snapshot being read never runs ahead of the tables it has seen; what is
\* still to come makes up for what the run began from.  A table that has been
\* seen may have grown since, so the sums bound each other from one side only.
Measured(r) ==
  /\ out[r].total <= SizeOf(out[r].tables)
  /\ pc[r] = "open_rows" => before[r] <= out[r].total + SizeOf(Tables \ out[r].tables)
  /\ opening[r] # None => /\ opening[r].tables = Tables
                          /\ before[r] <= opening[r].total
                          /\ opening[r].total + own[r] <= Bytes
  /\ pc[r] = "close_rows" =>
       opening[r].total + own[r] <= out[r].total + SizeOf(Tables \ out[r].tables)

\* When the parts of the document come into being.
Timed(r) ==
  /\ pc[r] \in {"open_query", "open_rows"} => opening[r] = None
  /\ pc[r] \in {"open_query", "open_rows", "server"} => own[r] = 0
  /\ pc[r] \in {"open_query", "open_rows", "server", "run", "close_query", "close_rows"} =>
       document[r] = None

\* What GrowthCoversRun says of one run.
Covered(r) ==
  document[r] # None /\ document[r].dataset # None =>
    LET d == document[r].dataset IN
      /\ d.start.tables = Tables /\ d.end.tables = Tables
      /\ own[r] <= d.growth
      /\ d.growth <= Bytes - before[r]

GrowthTypes == own \in [Runs -> Nat] /\ before \in [Runs -> Int]

\* The inductive invariant behind GrowthCoversRun.
GrowthInv == GrowthTypes /\ \A r \in Runs : Measured(r) /\ Timed(r) /\ Covered(r)

\* The size of a set of tables is a number.
LEMMA SizeType ==
  ASSUME NEW f \in [Tables -> Nat], NEW S \in SUBSET Tables
  PROVE  IsFiniteSet(S) /\ SumFunctionOnSet(f, S) \in Int
BY SumType, FS_Subset, RunResultAssumption

\* The next row moves a table from what is to come to what has been seen.
LEMMA SizeSplit ==
  ASSUME NEW f \in [Tables -> Nat], NEW S \in SUBSET Tables, NEW t \in Tables \ S
  PROVE  /\ SumFunctionOnSet(f, S \cup {t}) = f[t] + SumFunctionOnSet(f, S)
         /\ SumFunctionOnSet(f, Tables \ S) = f[t] + SumFunctionOnSet(f, Tables \ (S \cup {t}))
<1>1. IsFiniteSet(S \cup {t}) /\ IsFiniteSet(Tables \ S)
  BY SizeType
<1>2. (S \cup {t}) \ {t} = S /\ (Tables \ S) \ {t} = Tables \ (S \cup {t})
  OBVIOUS
<1>3. SumFunctionOnSet(f, S \cup {t}) = f[t] + SumFunctionOnSet(f, (S \cup {t}) \ {t})
  BY <1>1, SumRemove
<1>4. SumFunctionOnSet(f, Tables \ S) = f[t] + SumFunctionOnSet(f, (Tables \ S) \ {t})
  BY <1>1, SumRemove
<1>5. QED
  BY <1>2, <1>3, <1>4

\* A write adds one byte to every set of tables that has the table written to.
LEMMA SizeGrows ==
  ASSUME NEW f \in [Tables -> Nat], NEW t \in Tables, NEW g, g[t] = f[t] + 1,
         \A x \in Tables \ {t} : g[x] = f[x], NEW S \in SUBSET Tables
  PROVE  SumFunctionOnSet(g, S) = SumFunctionOnSet(f, S) + (IF t \in S THEN 1 ELSE 0)
<1>1. IsFiniteSet(S) /\ \A x \in S : f[x] \in Int
  BY SizeType
<1>2. CASE t \in S
  <2> DEFINE R == S \ {t}
  <2>1. IsFiniteSet(R) /\ (\A x \in R : f[x] \in Int /\ g[x] = f[x]) /\ g[t] = f[t] + 1
    BY SizeType
  <2>2. SumFunctionOnSet(g, R) = SumFunctionOnSet(f, R) /\ SumFunctionOnSet(f, R) \in Int
    BY <2>1, SumEqual, SumType
  <2>3. SumFunctionOnSet(f, S) = f[t] + SumFunctionOnSet(f, R)
    BY <1>1, <1>2, SumRemove
  <2>4. SumFunctionOnSet(g, S) = g[t] + SumFunctionOnSet(g, R)
    <3>1. \A x \in S : g[x] \in Int
      OBVIOUS
    <3>2. QED
      BY <1>1, <1>2, <3>1, SumRemove
  <2>5. QED
    BY <1>2, <2>1, <2>2, <2>3, <2>4
<1>3. CASE t \notin S
  <2>1. \A x \in S : f[x] \in Int /\ g[x] = f[x]
    BY <1>3
  <2>2. SumFunctionOnSet(g, S) = SumFunctionOnSet(f, S)
    BY <1>1, <2>1, SumEqual
  <2>3. QED
    BY <1>3, <2>2, SizeType
<1>4. QED
  BY <1>2, <1>3

\* Initially there are no bytes and nothing has been read.
LEMMA InitGrowthInv == Init => GrowthInv
<1> SUFFICES ASSUME Init PROVE GrowthInv
  OBVIOUS
<1>1. ASSUME NEW r \in Runs PROVE Measured(r)
  <2>1. out[r].total = 0 /\ SizeOf(out[r].tables) = 0
    BY SumEmpty DEF Init, Empty, SizeOf
  <2>2. QED
    BY <2>1 DEF Init, Measured
<1>2. ASSUME NEW r \in Runs PROVE Timed(r) /\ Covered(r)
  BY DEF Init, Timed, Covered
<1>3. QED
  BY <1>1, <1>2 DEF Init, GrowthInv, GrowthTypes

\* A step of run r that writes nothing does not touch what belongs to another run.
LEMMA OthersMeasured ==
  ASSUME GrowthInv, GrowthTypes', size' = size, NEW r \in Runs,
         \A q \in Runs \ {r} :
           /\ pc'[q] = pc[q] /\ out'[q] = out[q] /\ opening'[q] = opening[q]
           /\ document'[q] = document[q] /\ own'[q] = own[q] /\ before'[q] = before[q],
         Measured(r)', Timed(r)', Covered(r)'
  PROVE  GrowthInv'
<1>1. ASSUME NEW q \in Runs, q # r PROVE Measured(q)' /\ Timed(q)' /\ Covered(q)'
  <2>1. Bytes' = Bytes
    BY DEF Bytes
  <2>2. ASSUME NEW S PROVE SizeOf(S)' = SizeOf(S)
    BY DEF SizeOf
  <2>3. Measured(q)'
    BY <1>1, <2>1, <2>2 DEF GrowthInv, Measured
  <2>4. Timed(q)'
    BY <1>1 DEF GrowthInv, Timed
  <2>5. Covered(q)'
    BY <1>1, <2>1 DEF GrowthInv, Covered
  <2>6. QED
    BY <2>3, <2>4, <2>5
<1>2. QED
  BY <1>1 DEF GrowthInv

\* Steps that only move main, or deal with the files.
LEMMA MainMoves ==
  ASSUME GrowthInv, DocumentTypes, DocumentTypes', NEW r \in Runs,
         UNCHANGED <<size, own, before, out, opening>>,
         \A q \in Runs \ {r} : pc'[q] = pc[q] /\ document'[q] = document[q],
         \/ pc'[r] = pc[r] /\ document'[r] = document[r]
         \/ pc[r] = "server" /\ pc'[r] = "run" /\ document'[r] = document[r]
         \/ pc[r] = "run" /\ pc'[r] = "close_query" /\ document'[r] = document[r]
         \/ pc'[r] \in {"write", "chunks", "rename", "exit"} /\ document'[r] = document[r]
         \/ pc'[r] = "write" /\ document'[r].dataset = None
  PROVE  GrowthInv'
<1>1. Bytes' = Bytes
  BY DEF Bytes
<1>2. ASSUME NEW S PROVE SizeOf(S)' = SizeOf(S)
  BY DEF SizeOf
<1>3. Measured(r)'
  BY <1>1, <1>2 DEF GrowthInv, Measured
<1>4. Timed(r)'
  BY DEF GrowthInv, Timed
<1>5. Covered(r)'
  BY <1>1 DEF GrowthInv, Covered
<1>6. GrowthTypes'
  BY DEF GrowthInv, GrowthTypes
<1>7. QED
  BY <1>3, <1>4, <1>5, <1>6, OthersMeasured

\* The query is sent: the bytes at this moment are what the run starts from.
LEMMA QueryMeasured ==
  ASSUME GrowthInv, DocumentInv, NEW r \in Runs, Query(r)
  PROVE  GrowthInv'
<1> USE DEF Goto, DocumentInv, DocumentTypes
<1>1. Bytes' = Bytes /\ Bytes \in Int /\ Bytes = SizeOf(Tables)
  BY SizeType DEF Query, Bytes, SizeOf, SumFunction
<1>2. ASSUME NEW S PROVE SizeOf(S)' = SizeOf(S)
  BY DEF SizeOf, Query
<1>3. out'[r].total = 0 /\ out'[r].tables = {} /\ SizeOf({}) = 0
  BY SumEmpty DEF Query, Empty, SizeOf
<1>4. Tables \ out'[r].tables = Tables
  BY <1>3
<1>5. GrowthTypes'
  BY <1>1 DEF Query, GrowthInv, GrowthTypes
<1>6. CASE Opens(r)
  <2>1. pc[r] = "open_query" /\ pc'[r] = "open_rows" /\ before'[r] = Bytes
    BY <1>6 DEF Query, Querying, Opens, GrowthInv, GrowthTypes
  <2>2. opening'[r] = None /\ document'[r] = None /\ own'[r] = 0
    BY <2>1 DEF Query, GrowthInv, Timed
  <2>3. Measured(r)'
    BY <1>1, <1>2, <1>3, <1>4, <2>1, <2>2 DEF Measured
  <2>4. QED
    BY <1>5, <2>1, <2>2, <2>3, OthersMeasured DEF Query, Timed, Covered, GrowthInv, GrowthTypes
<1>7. CASE ~Opens(r)
  <2>1. pc[r] = "close_query" /\ pc'[r] = "close_rows" /\ before' = before
    BY <1>7 DEF Query, Querying, Opens
  <2>2. /\ opening'[r] = opening[r] /\ opening[r] # None
        /\ document[r] = None /\ document'[r] = None /\ own'[r] = own[r]
    BY <2>1 DEF Query, GrowthInv, Timed, Phased
  <2>3. Measured(r)'
    <3>1. /\ opening[r].tables = Tables /\ before[r] <= opening[r].total
          /\ opening[r].total + own[r] <= Bytes
      BY <2>2 DEF GrowthInv, Measured
    <3>2. opening[r].total + own[r] <= 0 + SizeOf(Tables)
      BY <1>1, <3>1
    <3>3. QED
      BY <1>1, <1>2, <1>3, <1>4, <2>1, <2>2, <3>1, <3>2 DEF Measured
  <2>4. QED
    BY <1>5, <2>1, <2>2, <2>3, OthersMeasured DEF Query, Timed, Covered, GrowthInv, GrowthTypes
<1>8. QED
  BY <1>6, <1>7

\* One more row.
LEMMA RowMeasured ==
  ASSUME GrowthInv, DocumentInv, NEW r \in Runs, Row(r)
  PROVE  GrowthInv'
<1> USE DEF DocumentInv, DocumentTypes
<1>1. PICK t \in Tables \ out[r].tables : out' = [out EXCEPT ![r] =
            [tables |-> out[r].tables \cup {t}, total |-> out[r].total + size[t]]]
  BY DEF Row
<1> DEFINE S == out[r].tables
           T == S \cup {t}
<1>2. out[r].total \in Nat /\ S \in SUBSET Tables /\ T \in SUBSET Tables /\ size[t] \in Nat
  BY DEF Snapshots
<1>3. /\ SizeOf(S) \in Int /\ SizeOf(T) = size[t] + SizeOf(S)
      /\ SizeOf(Tables \ T) \in Int /\ SizeOf(Tables \ S) = size[t] + SizeOf(Tables \ T)
  <2>1. t \in Tables \ S /\ Tables \ T \in SUBSET Tables /\ T = S \cup {t}
        /\ size \in [Tables -> Nat]
    OBVIOUS
  <2> HIDE DEF S, T
  <2>2. /\ SumFunctionOnSet(size, S \cup {t}) = size[t] + SumFunctionOnSet(size, S)
        /\ SumFunctionOnSet(size, Tables \ S)
             = size[t] + SumFunctionOnSet(size, Tables \ (S \cup {t}))
    BY <1>2, <2>1, SizeSplit, SMTT(60)
  <2>3. SumFunctionOnSet(size, S) \in Int /\ SumFunctionOnSet(size, Tables \ T) \in Int
    BY <1>2, <2>1, SizeType
  <2>4. QED
    BY <2>1, <2>2, <2>3 DEF SizeOf
<1>4. out'[r].total = out[r].total + size[t] /\ out'[r].tables = T
  BY <1>1
<1>5. Bytes' = Bytes
  BY DEF Row, Bytes
<1>6. ASSUME NEW V PROVE SizeOf(V)' = SizeOf(V)
  BY DEF SizeOf, Row
<1>7. /\ pc' = pc /\ opening' = opening /\ document' = document
      /\ own' = own /\ before' = before /\ size' = size
  BY DEF Row, history
<1>8. /\ out[r].total <= SizeOf(S)
      /\ pc[r] = "open_rows" => before[r] <= out[r].total + SizeOf(Tables \ S)
      /\ pc[r] = "close_rows" => opening[r].total + own[r] <= out[r].total + SizeOf(Tables \ S)
  BY DEF GrowthInv, Measured
<1> HIDE DEF S, T
<1>9. out'[r].total <= SizeOf(T)
  BY <1>2, <1>3, <1>4, <1>8
<1>10. out'[r].total + SizeOf(Tables \ T) = out[r].total + SizeOf(Tables \ S)
  BY <1>2, <1>3, <1>4
<1>11. /\ SizeOf(out[r].tables)' = SizeOf(T)
       /\ SizeOf(Tables \ out[r].tables)' = SizeOf(Tables \ T)
  BY <1>4, <1>6
<1>12. Measured(r)'
  BY <1>5, <1>7, <1>8, <1>9, <1>10, <1>11 DEF GrowthInv, Measured
<1>13. Timed(r)' /\ Covered(r)'
  BY <1>5, <1>7 DEF GrowthInv, Timed, Covered
<1>14. QED
  BY <1>1, <1>7, <1>12, <1>13, OthersMeasured DEF GrowthInv, GrowthTypes

\* A snapshot is dropped.
LEMMA FailureMeasured ==
  ASSUME GrowthInv, DocumentInv, DocumentTypes', NEW r \in Runs, SnapshotFails(r)
  PROVE  GrowthInv'
<1> USE DEF Goto, DocumentInv, DocumentTypes
<1>1. Bytes' = Bytes
  BY DEF SnapshotFails, Bytes
<1>2. ASSUME NEW V PROVE SizeOf(V)' = SizeOf(V)
  BY DEF SizeOf, SnapshotFails
<1>3. out'[r].total = 0 /\ out'[r].tables = {} /\ SizeOf({}) = 0
  BY SumEmpty DEF SnapshotFails, Empty, SizeOf
<1>4. GrowthTypes' /\ size' = size /\ own' = own /\ before' = before /\ opening' = opening
  BY DEF SnapshotFails, GrowthInv, GrowthTypes
<1>5. pc'[r] \in {"server", "write"}
  <2>1. CASE Opens(r)
    BY <2>1 DEF SnapshotFails
  <2>2. CASE ~Opens(r)
    BY <2>2 DEF SnapshotFails
  <2>3. QED
    BY <2>1, <2>2
<1>6. Measured(r)'
  <2>1. SizeOf(out[r].tables)' = 0
    BY <1>2, <1>3
  <2>2. opening[r] # None => /\ opening[r].tables = Tables
                             /\ before[r] <= opening[r].total
                             /\ opening[r].total + own[r] <= Bytes
    BY DEF GrowthInv, Measured
  <2>3. pc'[r] # "open_rows" /\ pc'[r] # "close_rows"
    BY <1>5
  <2>4. QED
    BY <1>1, <1>3, <1>4, <2>1, <2>2, <2>3 DEF Measured
<1>7. Timed(r)' /\ Covered(r)' /\ \A q \in Runs \ {r} : document'[q] = document[q]
  <2>1. CASE Opens(r)
    <3>1. pc'[r] = "server" /\ document' = document
      BY <2>1 DEF SnapshotFails
    <3>2. document[r] = None /\ own[r] = 0
      BY <2>1 DEF Opens, GrowthInv, Timed
    <3>3. QED
      BY <1>4, <3>1, <3>2 DEF Timed, Covered
  <2>2. CASE ~Opens(r)
    <3>1. pc'[r] = "write" /\ Build(r, None)
      BY <2>2 DEF SnapshotFails
    <3>2. document'[r].dataset = None /\ \A q \in Runs : q # r => document'[q] = document[q]
      BY <3>1, BuildType
    <3>3. QED
      BY <3>1, <3>2 DEF Timed, Covered
  <2>3. QED
    BY <2>1, <2>2
<1>8. \A q \in Runs \ {r} : pc'[q] = pc[q] /\ out'[q] = out[q]
  BY DEF SnapshotFails
<1>9. QED
  BY <1>4, <1>6, <1>7, <1>8, OthersMeasured

\* A snapshot is complete: nothing is still to come.
LEMMA DoneMeasured ==
  ASSUME GrowthInv, DocumentInv, NEW r \in Runs, SnapshotDone(r)
  PROVE  GrowthInv'
<1> USE DEF Goto, DocumentInv, DocumentTypes
<1>1. Bytes' = Bytes /\ Bytes \in Int /\ Bytes = SizeOf(Tables)
  BY SizeType DEF SnapshotDone, Bytes, SizeOf, SumFunction
<1>2. ASSUME NEW V PROVE SizeOf(V)' = SizeOf(V)
  BY DEF SizeOf, SnapshotDone
<1>3. out'[r].total = 0 /\ out'[r].tables = {} /\ SizeOf({}) = 0
  BY SumEmpty DEF SnapshotDone, Empty, SizeOf
<1>4. GrowthTypes' /\ size' = size /\ own' = own /\ before' = before
  BY DEF SnapshotDone, GrowthInv, GrowthTypes, history
<1>5. /\ out[r].tables = Tables /\ Tables \ out[r].tables = {}
      /\ out[r] \in Snapshots /\ out[r].total \in Nat /\ own[r] \in Nat /\ before[r] \in Int
  BY DEF SnapshotDone, Snapshots, GrowthInv, GrowthTypes
<1>6. /\ out[r].total <= Bytes
      /\ pc[r] = "open_rows" => before[r] <= out[r].total
      /\ pc[r] = "close_rows" => opening[r].total + own[r] <= out[r].total
  BY <1>1, <1>3, <1>5 DEF GrowthInv, Measured
<1>7. CASE Opens(r)
  <2>1. /\ pc[r] = "open_rows" /\ pc'[r] = "server" /\ document' = document
        /\ opening' = [opening EXCEPT ![r] = out[r]]
    BY <1>7 DEF SnapshotDone, Reading, Opens
  <2>2. document[r] = None /\ own[r] = 0
    BY <2>1 DEF GrowthInv, Timed
  <2>3. opening'[r] = out[r] /\ out[r].total + own[r] <= Bytes
    BY <1>5, <1>6, <2>1, <2>2
  <2>4. Measured(r)'
    BY <1>1, <1>2, <1>3, <1>4, <1>5, <1>6, <2>1, <2>3 DEF Measured
  <2>5. Timed(r)' /\ Covered(r)'
    BY <1>4, <2>1, <2>2 DEF Timed, Covered
  <2>6. QED
    BY <1>4, <2>1, <2>4, <2>5, OthersMeasured DEF SnapshotDone
<1>8. CASE ~Opens(r)
  <2> DEFINE d == [start |-> opening[r], end |-> out[r], growth |-> GrowthOf(opening[r], out[r])]
  <2>1. /\ pc[r] = "close_rows" /\ pc'[r] = "write" /\ opening' = opening /\ Build(r, d)
    BY <1>8 DEF SnapshotDone, Reading, Opens
  <2>2. opening[r] \in Snapshots /\ opening[r] # None /\ opening[r].total \in Nat
    BY <2>1 DEF Phased, Snapshots
  <2>3. /\ opening[r].tables = Tables /\ before[r] <= opening[r].total
        /\ opening[r].total + own[r] <= Bytes
    BY <2>2 DEF GrowthInv, Measured
  <2>4. /\ d.start.tables = Tables /\ d.end.tables = Tables
        /\ d.growth = out[r].total - opening[r].total
    BY <1>5, <2>3 DEF GrowthOf
  <2>5. d \in Datasets
    BY <1>5, <2>2, DatasetType
  <2> HIDE DEF d
  <2>6. document'[r].dataset = d /\ \A q \in Runs : q # r => document'[q] = document[q]
    BY <2>1, <2>5, BuildType
  <2>7. own[r] <= d.growth /\ d.growth <= Bytes - before[r]
    BY <1>1, <1>5, <1>6, <2>1, <2>2, <2>3, <2>4
  <2>8. Covered(r)'
    BY <1>1, <1>4, <2>4, <2>6, <2>7 DEF Covered
  <2>9. Measured(r)'
    BY <1>1, <1>2, <1>3, <1>4, <2>1, <2>3 DEF Measured
  <2>10. Timed(r)'
    BY <2>1 DEF Timed
  <2>11. QED
    BY <1>4, <2>1, <2>6, <2>8, <2>9, <2>10, OthersMeasured DEF SnapshotDone
<1>9. QED
  BY <1>7, <1>8

\* The workers write: what has been seen may grow, what is to come does not shrink.
LEMMA WriteMeasured ==
  ASSUME GrowthInv, DocumentInv, NEW r \in Runs, WorkersWrite(r)
  PROVE  GrowthInv'
<1> USE DEF DocumentInv, DocumentTypes
<1>1. PICK t \in Tables : size' = [size EXCEPT ![t] = @ + 1]
  BY DEF WorkersWrite
<1>2. ASSUME NEW V \in SUBSET Tables
      PROVE  SizeOf(V) \in Int /\ SizeOf(V)' \in {SizeOf(V), SizeOf(V) + 1}
  <2>1. SumFunctionOnSet(size', V) = SumFunctionOnSet(size, V) + (IF t \in V THEN 1 ELSE 0)
    <3>1. /\ size \in [Tables -> Nat] /\ size'[t] = size[t] + 1
          /\ \A x \in Tables \ {t} : size'[x] = size[x]
      BY <1>1
    <3>2. QED
      BY <3>1, SizeGrows
  <2>2. SumFunctionOnSet(size, V) \in Int
    BY SizeType
  <2>3. QED
    BY <2>1, <2>2 DEF SizeOf
<1>3. Bytes \in Int /\ Bytes' = Bytes + 1
  <2>1. SumFunctionOnSet(size', Tables) = SumFunctionOnSet(size, Tables) + 1
    <3>1. /\ size \in [Tables -> Nat] /\ Tables \in SUBSET Tables /\ size'[t] = size[t] + 1
          /\ \A x \in Tables \ {t} : size'[x] = size[x]
      BY <1>1
    <3>2. SumFunctionOnSet(size', Tables)
            = SumFunctionOnSet(size, Tables) + (IF t \in Tables THEN 1 ELSE 0)
      BY <3>1, SizeGrows
    <3>3. QED
      BY <3>2
  <2>2. DOMAIN size = Tables /\ DOMAIN size' = Tables
    BY <1>1
  <2>3. SumFunctionOnSet(size, Tables) \in Int
    BY SizeType
  <2>4. QED
    BY <2>1, <2>2, <2>3 DEF Bytes, SumFunction
<1>4. /\ pc[r] = "run" /\ pc' = pc /\ out' = out /\ opening' = opening /\ document' = document
      /\ before' = before /\ own' = [own EXCEPT ![r] = @ + 1]
  BY DEF WorkersWrite, mainVars
<1>5. ASSUME NEW q \in Runs PROVE Measured(q)'
  <2> DEFINE S == out[q].tables
             T == Tables \ out[q].tables
  <2>1. /\ S \in SUBSET Tables /\ T \in SUBSET Tables /\ out[q].total \in Nat
        /\ own[q] \in Nat /\ before[q] \in Int
        /\ opening[q] # None => opening[q].total \in Nat
    BY DEF Snapshots, GrowthInv, GrowthTypes
  <2>2. SizeOf(S) \in Int /\ SizeOf(T) \in Int
    BY <1>2, <2>1
  <2>3. /\ SizeOf(out[q].tables)' \in {SizeOf(S), SizeOf(S) + 1}
        /\ SizeOf(Tables \ out[q].tables)' \in {SizeOf(T), SizeOf(T) + 1}
    BY <1>2, <1>4, <2>1
  <2>4. own'[q] \in {own[q], own[q] + 1} /\ (pc[q] = "close_rows" => own'[q] = own[q])
    BY <1>4, <2>1 DEF GrowthInv, GrowthTypes
  <2>5. Measured(q)
    BY DEF GrowthInv
  <2>6. out'[q].total <= SizeOf(out[q].tables)'
    BY <1>4, <2>1, <2>2, <2>3, <2>5 DEF Measured
  <2>7. pc'[q] = "open_rows" =>
          before'[q] <= out'[q].total + SizeOf(Tables \ out[q].tables)'
    BY <1>4, <2>1, <2>2, <2>3, <2>5 DEF Measured
  <2>8. opening'[q] # None => /\ opening'[q].tables = Tables
                              /\ before'[q] <= opening'[q].total
                              /\ opening'[q].total + own'[q] <= Bytes'
    BY <1>3, <1>4, <2>1, <2>4, <2>5 DEF Measured
  <2>9. pc'[q] = "close_rows" =>
          opening'[q].total + own'[q] <= out'[q].total + SizeOf(Tables \ out[q].tables)'
    <3>1. SUFFICES ASSUME pc[q] = "close_rows"
                   PROVE  opening[q].total + own[q] <= out[q].total
                                                       + SizeOf(Tables \ out[q].tables)'
      BY <1>4, <2>4
    <3>2. opening[q].total \in Nat
      BY <2>1, <3>1 DEF Phased
    <3>3. opening[q].total + own[q] <= out[q].total + SizeOf(T)
      BY <2>5, <3>1 DEF Measured
    <3> HIDE DEF T
    <3>4. QED
      BY <2>1, <2>2, <2>3, <3>2, <3>3
  <2>10. QED
    BY <2>6, <2>7, <2>8, <2>9 DEF Measured
<1>6. ASSUME NEW q \in Runs PROVE Timed(q)'
  BY <1>4 DEF GrowthInv, GrowthTypes, Timed
<1>7. ASSUME NEW q \in Runs PROVE Covered(q)'
  <2>1. SUFFICES ASSUME document[q] # None, document[q].dataset # None
                 PROVE  /\ document[q].dataset.start.tables = Tables
                        /\ document[q].dataset.end.tables = Tables
                        /\ own'[q] <= document[q].dataset.growth
                        /\ document[q].dataset.growth <= Bytes' - before[q]
    BY <1>4 DEF Covered
  <2>2. document[q].dataset.growth \in Int /\ before[q] \in Int
    BY <2>1 DEF Documents, Datasets, GrowthInv, GrowthTypes
  <2>3. own'[q] = own[q]
    BY <1>4, <2>1 DEF GrowthInv, GrowthTypes, Timed
  <2>4. QED
    BY <1>3, <2>1, <2>2, <2>3 DEF GrowthInv, Covered
<1>8. GrowthTypes'
  BY <1>4 DEF GrowthInv, GrowthTypes
<1>9. QED
  BY <1>5, <1>6, <1>7, <1>8 DEF GrowthInv

\* A killed run holds nothing any more.
LEMMA KillMeasured ==
  ASSUME GrowthInv, DocumentInv, NEW r \in Runs, Killed(r)
  PROVE  GrowthInv'
<1> USE DEF DocumentInv, DocumentTypes, Goto
<1>1. GrowthTypes' /\ size' = size
  BY DEF Killed, GrowthInv, GrowthTypes
<1>2. /\ out'[r].total = 0 /\ out'[r].tables = {} /\ opening'[r] = None
      /\ document'[r] = None /\ pc'[r] = "killed"
  BY DEF Killed, Empty
<1>3. SizeOf(out[r].tables)' = 0
  BY <1>2, SumEmpty DEF SizeOf
<1>4. Measured(r)' /\ Timed(r)' /\ Covered(r)'
  BY <1>2, <1>3 DEF Measured, Timed, Covered
<1>5. QED
  BY <1>1, <1>4, OthersMeasured DEF Killed, GrowthInv, GrowthTypes

\* Every step keeps the sums within each other's bounds.
LEMMA NextGrowthInv == DocumentInv /\ DocumentInv' /\ GrowthInv /\ [Next]_vars => GrowthInv'
<1> SUFFICES ASSUME DocumentInv, DocumentInv', GrowthInv, [Next]_vars PROVE GrowthInv'
  OBVIOUS
<1>0. DocumentTypes /\ DocumentTypes'
  BY DEF DocumentInv
<1>1. ASSUME NEW r \in Runs, SnapshotServerInfo(r) PROVE GrowthInv'
  BY <1>0, <1>1, MainMoves DEF SnapshotServerInfo, Goto, DocumentTypes
<1>2. ASSUME NEW r \in Runs, StopRun(r) PROVE GrowthInv'
  <2>1. UNCHANGED <<size, own, before, out, opening>> /\ pc[r] = "run"
    BY <1>2 DEF StopRun, history
  <2>2. CASE opening[r] # None
    BY <1>0, <1>2, <2>1, <2>2, MainMoves DEF StopRun, Goto, DocumentTypes
  <2>3. CASE opening[r] = None
    <3>1. pc' = [pc EXCEPT ![r] = "write"] /\ Build(r, None)
      BY <1>2, <2>3 DEF StopRun, Goto
    <3>2. document'[r].dataset = None /\ \A q \in Runs : q # r => document'[q] = document[q]
      BY <1>0, <3>1, BuildType
    <3>3. pc'[r] = "write" /\ \A q \in Runs \ {r} : pc'[q] = pc[q]
      BY <1>0, <3>1 DEF DocumentTypes
    <3>4. QED
      BY <1>0, <2>1, <3>2, <3>3, MainMoves
  <2>4. QED
    BY <2>2, <2>3
<1>3. ASSUME NEW r \in Runs, CreateTemp(r) \/ CloseTemp(r) \/ Rename(r) \/ WriteFails(r)
      PROVE  GrowthInv'
  <2>1. UNCHANGED <<size, own, before, out, opening, document>>
    BY <1>3 DEF CreateTemp, CloseTemp, Rename, WriteFails, history
  <2>2. /\ pc'[r] \in {"chunks", "rename", "exit"}
        /\ \A q \in Runs \ {r} : pc'[q] = pc[q]
    BY <1>0, <1>3 DEF CreateTemp, CloseTemp, Rename, WriteFails, Goto, DocumentTypes
  <2>3. QED
    BY <1>0, <2>1, <2>2, MainMoves
<1>4. ASSUME NEW r \in Runs, WriteChunk(r) PROVE GrowthInv'
  BY <1>0, <1>4, MainMoves DEF WriteChunk, mainVars, history
<1>5. CASE UNCHANGED vars
  <2>1. UNCHANGED <<size, own, before, out, opening, document, pc>>
    BY <1>5 DEF vars, mainVars, history
  <2>2. QED
    BY <2>1 DEF GrowthInv, GrowthTypes, Measured, Timed, Covered, SizeOf, Bytes
<1>6. QED
  BY <1>0, <1>1, <1>2, <1>3, <1>4, <1>5, QueryMeasured, RowMeasured, FailureMeasured,
     DoneMeasured, WriteMeasured, KillMeasured DEF Next

\* A dataset in the document is two complete measurements around the run: its
\* growth covers all that the run's own workers wrote, and nothing from before the
\* first query, however the other runs write in between.
THEOREM GrowthIsCovered == Spec => []GrowthCoversRun
<1>1. GrowthInv => GrowthCoversRun
  BY DEF GrowthInv, Covered, GrowthCoversRun
<1> QED
  BY <1>1, InitDocumentInv, NextDocumentInv, InitGrowthInv, NextGrowthInv, PTL DEF Spec
=============================================================================
