----------------------------- MODULE RunResult ------------------------------
(***************************************************************************)
(* The measurements around a run and the document written at its end       *)
(* (src/main.go:101-136 and 196-233, src/workload/result.go).  Several     *)
(* runs, one after another or at the same time, write the same path and    *)
(* share one database.  Any query, row or file operation may fail, and a   *)
(* process may be killed between any two steps.  What the document holds   *)
(* about the operations is in StatsCollector and LatencyReport; here it is *)
(* the dataset, the server settings and the length of the text.            *)
(***************************************************************************)
EXTENDS Integers, FiniteSets, Functions

CONSTANTS
  Runs,             \* processes; also the inode of the file each of them writes
  Tables,           \* profile.Schema().TrackedTables
  Chunks,           \* length of a complete document
  MaxBytes,         \* bound: bytes in a table
  NoFile, Previous, \* no file; the inode an earlier run left at the path
  None              \* a nil pointer

ASSUME RunResultAssumption ==
  /\ IsFiniteSet(Tables) /\ Chunks \in Nat \ {0} /\ MaxBytes \in Nat
  /\ {NoFile, Previous} \cap Runs = {} /\ NoFile # Previous

\* DatasetSnapshot, RunResult.Dataset and RunResult; a nil pointer is none of them.
Snapshots == [tables : SUBSET Tables, total : Nat]
Datasets == [start : Snapshots, end : Snapshots, growth : Int]
Documents == [dataset : Datasets \cup {None}, server : BOOLEAN]

ASSUME NilAssumption == None \notin Snapshots /\ None \notin Datasets /\ None \notin Documents

VARIABLES
  pc,         \* where main stands in each run
  cancelled,  \* ctx has been cancelled, to stop the workers
  out,        \* the snapshot being read: tables seen and TotalBytes
  opening,    \* datasetStart, or None when datasetOK is false
  document,   \* result, or None before BuildRunResult
  server,     \* whether the server settings could be read
  size,       \* the server: bytes in each table
  path,       \* the file system: inode the result path names
  temps,      \*   runs whose temporary name exists
  length,     \*   bytes in each inode
  own,        \* history: bytes each run's own workers have added
  before,     \* history: size of the dataset when the first query was sent
  published,  \* history: runs that have renamed their file into place
  faults      \* history: runs in which something failed

mainVars == <<pc, cancelled, out, opening, document, server>>
fileVars == <<path, temps, length>>
history == <<own, before, published, faults>>
vars == <<mainVars, size, fileVars, history>>

Empty == [tables |-> {}, total |-> 0]
Inodes == Runs \cup {Previous}
Bytes == SumFunction(size)

Init ==
  /\ pc = [r \in Runs |-> "open_query"]
  /\ cancelled = {}
  /\ out = [r \in Runs |-> Empty]
  /\ opening = [r \in Runs |-> None]
  /\ document = [r \in Runs |-> None]
  /\ server = {}
  /\ size = [t \in Tables |-> 0]
  /\ path \in {NoFile, Previous}
  /\ temps = {}
  /\ length = [i \in Inodes |-> IF i = Previous THEN Chunks ELSE 0]
  /\ own = [r \in Runs |-> 0]
  /\ before = [r \in Runs |-> 0]
  /\ published = {} /\ faults = {}

Goto(r, l) == pc' = [pc EXCEPT ![r] = l]
Faulty(r) == faults' = faults \cup {r}
-----------------------------------------------------------------------------
(* SnapshotDataset, before the workers start and after they have stopped *)

Querying(r) == pc[r] \in {"open_query", "close_query"}
Reading(r) == pc[r] \in {"open_rows", "close_rows"}
Opens(r) == pc[r] \in {"open_query", "open_rows"}

\* Regression: the closing snapshot uses the context that stopped the workers.
ContextDone_Shared(r) == r \in cancelled

\* The opening snapshot uses ctx, the closing one a context of its own.
ContextDone(r) == Opens(r) /\ r \in cancelled

Query(r) ==
  /\ Querying(r) /\ ~ContextDone(r)
  /\ Goto(r, IF Opens(r) THEN "open_rows" ELSE "close_rows")
  /\ out' = [out EXCEPT ![r] = Empty]
  /\ before' = IF Opens(r) THEN [before EXCEPT ![r] = Bytes] ELSE before
  /\ UNCHANGED <<cancelled, opening, document, server, size, fileVars, own, published, faults>>

\* Sizes are those of the relation's files when the server gets to the row.
Row(r) ==
  /\ Reading(r)
  /\ \E t \in Tables \ out[r].tables :
       out' = [out EXCEPT ![r] = [tables |-> @.tables \cup {t}, total |-> @.total + size[t]]]
  /\ UNCHANGED <<pc, cancelled, opening, document, server, size, fileVars, history>>

\* BuildRunResult, with the dataset main passes to it.
Build(r, dataset) ==
  document' = [document EXCEPT ![r] = [dataset |-> dataset, server |-> r \in server]]

GrowthOf(from, to) == to.total - from.total

\* Regression: what was read before the error is used as if it were complete.
SnapshotFails_KeepsPartial(r) ==
  /\ Querying(r) \/ Reading(r)
  /\ IF Opens(r)
       THEN /\ Goto(r, "server") /\ UNCHANGED document
            /\ opening' = [opening EXCEPT ![r] = out[r]]
       ELSE Goto(r, "write") /\ Build(r, None) /\ UNCHANGED opening
  /\ out' = [out EXCEPT ![r] = Empty]
  /\ IF ContextDone(r) THEN UNCHANGED faults ELSE Faulty(r)
  /\ UNCHANGED <<cancelled, server, size, fileVars, own, before, published>>

\* The query or a row fails, or the closing context's time is up: the snapshot
\* is dropped as a whole and the run goes on without it.
SnapshotFails(r) ==
  /\ Querying(r) \/ Reading(r)
  /\ IF Opens(r)
       THEN Goto(r, "server") /\ UNCHANGED document
       ELSE Goto(r, "write") /\ Build(r, None)
  /\ out' = [out EXCEPT ![r] = Empty]
  /\ IF ContextDone(r) THEN UNCHANGED faults ELSE Faulty(r)
  /\ UNCHANGED <<cancelled, opening, server, size, fileVars, own, before, published>>

\* The rows end.  The migration has created the tables, so pg_stat_user_tables has
\* a row for each; the code relies on that and does not check it.
SnapshotDone(r) ==
  /\ Reading(r) /\ out[r].tables = Tables
  /\ IF Opens(r)
       THEN /\ Goto(r, "server") /\ UNCHANGED document
            /\ opening' = [opening EXCEPT ![r] = out[r]]
       ELSE /\ Goto(r, "write") /\ UNCHANGED opening
            /\ Build(r, [start |-> opening[r], end |-> out[r],
                         growth |-> GrowthOf(opening[r], out[r])])
  /\ out' = [out EXCEPT ![r] = Empty]
  /\ UNCHANGED <<cancelled, server, size, fileVars, history>>

SnapshotServerInfo(r) ==
  /\ pc[r] = "server"
  /\ Goto(r, "run")
  /\ \/ server' = server \cup {r} /\ UNCHANGED faults
     \/ Faulty(r) /\ UNCHANGED server
  /\ UNCHANGED <<cancelled, out, opening, document, size, fileVars, own, before, published>>

\* The workers of a run add to the database until the run is stopped.
WorkersWrite(r) ==
  /\ pc[r] = "run"
  /\ \E t \in Tables :
       /\ size[t] < MaxBytes
       /\ size' = [size EXCEPT ![t] = @ + 1]
  /\ own' = [own EXCEPT ![r] = @ + 1]
  /\ UNCHANGED <<mainVars, fileVars, before, published, faults>>

\* cancel, wg.Wait, and Finalize; the closing snapshot needs an opening one.
StopRun(r) ==
  /\ pc[r] = "run"
  /\ cancelled' = cancelled \cup {r}
  /\ IF opening[r] # None
       THEN Goto(r, "close_query") /\ UNCHANGED document
       ELSE Goto(r, "write") /\ Build(r, None)
  /\ UNCHANGED <<out, opening, server, size, fileVars, history>>
-----------------------------------------------------------------------------
(* WriteRunResult *)

\* Regression: the destination itself is opened and truncated.
CreateTemp_InPlace(r) ==
  /\ pc[r] = "write" /\ Goto(r, "chunks")
  /\ path' = r
  /\ UNCHANGED <<cancelled, out, opening, document, server, size, temps, length, history>>

\* MkdirAll and CreateTemp, which picks a name nobody uses.
CreateTemp(r) ==
  /\ pc[r] = "write" /\ Goto(r, "chunks")
  /\ temps' = temps \cup {r}
  /\ UNCHANGED <<cancelled, out, opening, document, server, size, path, length, history>>

\* tmp.Write writes the document in one call that the kernel may split.
WriteChunk(r) ==
  /\ pc[r] = "chunks" /\ length[r] < Chunks
  /\ length' = [length EXCEPT ![r] = @ + 1]
  /\ UNCHANGED <<mainVars, size, path, temps, history>>

CloseTemp(r) ==
  /\ pc[r] = "chunks" /\ length[r] = Chunks
  /\ Goto(r, "rename")
  /\ UNCHANGED <<cancelled, out, opening, document, server, size, fileVars, history>>

\* os.Rename; the deferred Remove then finds no such name.
Rename(r) ==
  /\ pc[r] = "rename" /\ Goto(r, "exit")
  /\ path' = r /\ temps' = temps \ {r}
  /\ published' = published \cup {r}
  /\ UNCHANGED <<cancelled, out, opening, document, server, size, length, own, before, faults>>

\* Any of its calls fails: the deferred Remove runs, main logs the error and
\* leaves by the same path.
WriteFails(r) ==
  /\ pc[r] \in {"write", "chunks", "rename"}
  /\ Goto(r, "exit")
  /\ Faulty(r)
  /\ temps' = temps \ {r} /\ length' = [length EXCEPT ![r] = 0]
  /\ UNCHANGED <<cancelled, out, opening, document, server, size, path, own, before, published>>
-----------------------------------------------------------------------------
(* The environment *)

\* The process is killed: nothing of it runs any more, deferred calls included.
Killed(r) ==
  /\ pc[r] \notin {"exit", "killed"}
  /\ Goto(r, "killed")
  /\ Faulty(r)
  /\ out' = [out EXCEPT ![r] = Empty]
  /\ opening' = [opening EXCEPT ![r] = None]
  /\ document' = [document EXCEPT ![r] = None]
  /\ server' = server \ {r}
  /\ before' = [before EXCEPT ![r] = 0]
  /\ own' = [own EXCEPT ![r] = 0]
  /\ UNCHANGED <<cancelled, size, fileVars, published>>

Next ==
  \E r \in Runs :
    \/ Query(r) \/ Row(r) \/ SnapshotFails(r) \/ SnapshotDone(r)
    \/ SnapshotServerInfo(r) \/ WorkersWrite(r) \/ StopRun(r)
    \/ CreateTemp(r) \/ WriteChunk(r) \/ CloseTemp(r) \/ Rename(r) \/ WriteFails(r)
    \/ Killed(r)

Spec == Init /\ [][Next]_vars
-----------------------------------------------------------------------------
(* Properties *)

Torn == <<"torn">>

Version == IF path = NoFile \/ length[path] = Chunks THEN path ELSE Torn

Abstract == INSTANCE ResultFile WITH version <- Version

\* The path is replaced as a whole and once per run: a run that fails or is
\* killed on the way leaves the previous result as it was ("a crash mid-write
\* cannot corrupt a previous one", result.go:404).
ReplacedAsAWhole == Abstract!Spec

\* A dataset in the document is two complete measurements around the run: the
\* growth covers all that the run's own workers wrote, and nothing from before
\* the first query (main.go:101-104 and 201-217).
GrowthCoversRun ==
  \A r \in Runs : document[r] # None /\ document[r].dataset # None =>
    LET d == document[r].dataset IN
      /\ d.start.tables = Tables /\ d.end.tables = Tables
      /\ own[r] <= d.growth
      /\ d.growth <= Bytes - before[r]

\* A run that is not killed leaves no temporary file behind, whatever failed;
\* and if nothing failed it has written its result with both optional parts:
\* the cancellation that ends the run does not reach the closing queries.
ExitIsClean ==
  \A r \in Runs : pc[r] = "exit" =>
    /\ r \notin temps
    /\ r \notin faults => /\ r \in published
                          /\ document[r].dataset # None /\ document[r].server
=============================================================================
