----------------------------- MODULE FileOpening -----------------------------
(***************************************************************************)
(* How the range tasks of one plan open their files with the direct        *)
(* Parquet reader (open_logical_data_file_stream in direct_parquet.rs) and *)
(* share what they load: the Parquet metadata of a file through a OnceCell *)
(* (metadata_cache.rs), its deletion vector through a weak reference under *)
(* a lock (deletion_vector.rs).  A task may be cancelled at any time and   *)
(* its future dropped at any await.                                        *)
(***************************************************************************)
EXTENDS WaitQueues, SequencesExt

CONSTANTS
    Tasks,          \* file tasks of the plan
    FileOf,         \* FileOf[t]: the (path, size) key of the task's file
    DeletionVectors,\* files that have a deletion vector
    SharedCache,    \* whether the plan has a ParquetMetadataCache (it was repartitioned)
    MayFail,        \* tasks whose requests may fail
    None

ASSUME FileOpeningAssumption ==
    /\ IsFiniteSet(Tasks) /\ DOMAIN FileOf = Tasks /\ None \notin Tasks
    /\ MayFail \subseteq Tasks /\ SharedCache \in BOOLEAN

FilesOpened == {FileOf[t] : t \in Tasks}

VARIABLES
    step,       \* step[t]: where the future of task t is
    cell,       \* cell[f]: whether the OnceCell of f is initialised
    cellQueue,  \* cellQueue[f]: tasks at the cell; the first one runs its initialiser
    rowsQueue,  \* rowsQueue[f]: tasks at the lock of cached_rows; the first one holds it
    thread,     \* thread[t]: the blocking load of a deletion vector t spawned
    cachedRows, \* cachedRows[f]: the load the weak reference names, or None
    rows,       \* rows[t]: the load whose rows task t holds, or None
    cancelled,  \* tasks whose ScanCancellation is set
    loads       \* loads[f]: metadata loads begun for f (a history variable)

openVars == <<step, cell, cellQueue, rowsQueue, thread, cachedRows, rows, cancelled, loads>>

Ended == {"done", "failed", "cancelled", "dropped"}
Steps == {"idle", "metadata", "loadMetadata", "setup", "rows", "loadRows", "open"} \cup Ended

OpenTypeOK ==
    /\ step \in [Tasks -> Steps]
    /\ cell \in [FilesOpened -> BOOLEAN]
    /\ cellQueue \in [FilesOpened -> Seq(Tasks)]
    /\ rowsQueue \in [FilesOpened -> Seq(Tasks)]
    /\ thread \in [Tasks -> {"none", "running", "loaded", "failed"}]
    /\ cachedRows \in [FilesOpened -> Tasks \cup {None}]
    /\ rows \in [Tasks -> Tasks \cup {None}]
    /\ cancelled \subseteq Tasks
    /\ loads \in [FilesOpened -> Nat]

OpenInit ==
    /\ step = [t \in Tasks |-> "idle"]
    /\ cell = [f \in FilesOpened |-> FALSE]
    /\ cellQueue = [f \in FilesOpened |-> <<>>]
    /\ rowsQueue = [f \in FilesOpened |-> <<>>]
    /\ thread = [t \in Tasks |-> "none"]
    /\ cachedRows = [f \in FilesOpened |-> None]
    /\ rows = [t \in Tasks |-> None]
    /\ cancelled = {}
    /\ loads = [f \in FilesOpened |-> 0]

Go(t, s) == step' = [step EXCEPT ![t] = s]

\* Joining the wait queue of the task's file, and leaving it by being served or
\* by being dropped.
Join(queue, t) == [queue EXCEPT ![FileOf[t]] = Append(@, t)]
Leave(queue, t) == [f \in FilesOpened |-> Without(queue[f], {t})]
First(queue, t) == queue[FileOf[t]] # <<>> /\ Head(queue[FileOf[t]]) = t

EndTaskKeepsTurn(t, how) ==
    /\ Go(t, how)
    /\ UNCHANGED cellQueue
    /\ rowsQueue' = Leave(rowsQueue, t)
    /\ rows' = [rows EXCEPT ![t] = None]

\* The future of t ends: its guards, its queue entries and its rows are dropped.
\* A blocking load that is running goes on without it.
EndTask(t, how) ==
    /\ Go(t, how)
    /\ cellQueue' = Leave(cellQueue, t)
    /\ rowsQueue' = Leave(rowsQueue, t)
    /\ rows' = [rows EXCEPT ![t] = None]

-----------------------------------------------------------------------------
(* open_physical_parquet_stream, under a biased select with cancellation.    *)

\* load_parquet_metadata; without a cache every task is alone at its cell.
BeginOpen(t) ==
    /\ step[t] = "idle" /\ t \notin cancelled
    /\ Go(t, "metadata")
    /\ cellQueue' = IF SharedCache THEN Join(cellQueue, t) ELSE cellQueue
    /\ UNCHANGED <<cell, rowsQueue, thread, cachedRows, rows, cancelled, loads>>

BeginLoadUnlocked(t) ==
    /\ step[t] = "metadata" /\ ~cell[FileOf[t]]
    /\ Go(t, "loadMetadata")
    /\ loads' = [loads EXCEPT ![FileOf[t]] = @ + 1]
    /\ UNCHANGED <<cell, cellQueue, rowsQueue, thread, cachedRows, rows, cancelled>>

\* get_or_try_init: the first task at an empty cell runs its initialiser.
BeginLoad(t) ==
    /\ step[t] = "metadata"
    /\ SharedCache => First(cellQueue, t) /\ ~cell[FileOf[t]]
    /\ Go(t, "loadMetadata")
    /\ loads' = [loads EXCEPT ![FileOf[t]] = @ + 1]
    /\ UNCHANGED <<cell, cellQueue, rowsQueue, thread, cachedRows, rows, cancelled>>

FinishLoad(t) ==
    /\ step[t] = "loadMetadata"
    /\ Go(t, "setup")
    /\ cell' = [cell EXCEPT ![FileOf[t]] = SharedCache]
    /\ cellQueue' = Leave(cellQueue, t)
    /\ UNCHANGED <<rowsQueue, thread, cachedRows, rows, cancelled, loads>>

\* The cell was initialised before or while t waited at it.
UseCachedMetadata(t) ==
    /\ step[t] = "metadata" /\ cell[FileOf[t]]
    /\ Go(t, "setup")
    /\ cellQueue' = Leave(cellQueue, t)
    /\ UNCHANGED <<cell, rowsQueue, thread, cachedRows, rows, cancelled, loads>>

\* The load fails, which leaves the cell empty, or what follows it does:
\* resolving the object, schema alignment, row-group selection, row filter.
FailOpen(t) ==
    /\ step[t] \in {"idle", "loadMetadata", "setup"} /\ t \in MayFail
    /\ EndTask(t, "failed")
    /\ UNCHANGED <<cell, thread, cachedRows, cancelled, loads>>

\* The select drops open_physical_parquet_stream wherever it is.
ObserveCancellation(t) ==
    /\ step[t] \in {"idle", "metadata", "loadMetadata", "setup"} /\ t \in cancelled
    /\ EndTask(t, "cancelled")
    /\ UNCHANGED <<cell, thread, cachedRows, cancelled, loads>>

-----------------------------------------------------------------------------
(* load_deletion_vector_masker, which nothing cancels but a drop.            *)

BeginRows(t) ==
    /\ step[t] = "setup" /\ t \notin cancelled
    /\ IF FileOf[t] \in DeletionVectors
       THEN /\ Go(t, "rows")
            /\ rowsQueue' = Join(rowsQueue, t)
       ELSE Go(t, "open") /\ UNCHANGED rowsQueue
    /\ UNCHANGED <<cell, cellQueue, thread, cachedRows, rows, cancelled, loads>>

\* Weak::upgrade succeeds while some task holds the rows.
Upgrades(f) == cachedRows[f] # None /\ \E u \in Tasks : rows[u] = cachedRows[f]

\* The lock is released; a cancelled task drops the rows it just got.
TakeRows(t, load) ==
    /\ rowsQueue' = Leave(rowsQueue, t)
    /\ IF t \in cancelled
       THEN Go(t, "cancelled") /\ UNCHANGED rows
       ELSE Go(t, "open") /\ rows' = [rows EXCEPT ![t] = load]
    /\ UNCHANGED <<cell, cellQueue, cancelled, loads>>

UseCachedRows(t) ==
    /\ step[t] = "rows" /\ First(rowsQueue, t) /\ Upgrades(FileOf[t])
    /\ TakeRows(t, cachedRows[FileOf[t]])
    /\ UNCHANGED <<thread, cachedRows>>

SpawnLoadUnlocked(t) ==
    /\ step[t] = "rows" /\ ~Upgrades(FileOf[t])
    /\ Go(t, "loadRows")
    /\ thread' = [thread EXCEPT ![t] = "running"]
    /\ UNCHANGED <<cell, cellQueue, rowsQueue, cachedRows, rows, cancelled, loads>>

\* spawn_blocking, with the lock held.
SpawnLoad(t) ==
    /\ step[t] = "rows" /\ First(rowsQueue, t) /\ ~Upgrades(FileOf[t])
    /\ Go(t, "loadRows")
    /\ thread' = [thread EXCEPT ![t] = "running"]
    /\ UNCHANGED <<cell, cellQueue, rowsQueue, cachedRows, rows, cancelled, loads>>

\* The blocking thread ends, whether or not anybody waits for it; a result that
\* nobody awaits is dropped.
ThreadEnds(t) ==
    /\ thread[t] = "running"
    /\ \E end \in {"loaded", "failed"} :
         /\ end = "failed" => t \in MayFail
         /\ thread' = [thread EXCEPT ![t] = IF step[t] = "loadRows" THEN end ELSE "none"]
    /\ UNCHANGED <<step, cell, cellQueue, rowsQueue, cachedRows, rows, cancelled, loads>>

ReceiveRows(t) ==
    /\ step[t] = "loadRows" /\ thread[t] = "loaded"
    /\ cachedRows' = [cachedRows EXCEPT ![FileOf[t]] = t]
    /\ TakeRows(t, t)
    /\ thread' = [thread EXCEPT ![t] = "none"]

RowsFailed(t) ==
    /\ step[t] = "loadRows" /\ thread[t] = "failed"
    /\ EndTask(t, "failed")
    /\ thread' = [thread EXCEPT ![t] = "none"]
    /\ UNCHANGED <<cell, cachedRows, cancelled, loads>>

-----------------------------------------------------------------------------
\* The opened stream is read to its end (or to an error or cancellation).
CloseFile(t) ==
    /\ step[t] = "open"
    /\ EndTask(t, "done")
    /\ UNCHANGED <<cell, thread, cachedRows, cancelled, loads>>

\* The scan of t is cancelled; the producer may then drop its future.
CancelTask(t) ==
    /\ step[t] \notin Ended /\ t \notin cancelled
    /\ cancelled' = cancelled \cup {t}
    /\ UNCHANGED <<step, cell, cellQueue, rowsQueue, thread, cachedRows, rows, loads>>

DropTask(t) ==
    /\ step[t] \notin Ended /\ t \in cancelled
    /\ EndTask(t, "dropped")
    /\ thread' = [thread EXCEPT ![t] = IF @ = "running" THEN @ ELSE "none"]
    /\ UNCHANGED <<cell, cachedRows, cancelled, loads>>

OpenStep(t) ==
    \/ BeginOpen(t) \/ BeginLoad(t) \/ FinishLoad(t) \/ UseCachedMetadata(t)
    \/ ObserveCancellation(t) \/ BeginRows(t) \/ UseCachedRows(t) \/ SpawnLoad(t)
    \/ ThreadEnds(t) \/ ReceiveRows(t) \/ RowsFailed(t) \/ CloseFile(t)

AllEnded ==
    /\ \A t \in Tasks : step[t] \in Ended /\ thread[t] # "running"
    /\ UNCHANGED openVars

OpenNext ==
    \/ \E t \in Tasks : OpenStep(t) \/ FailOpen(t) \/ CancelTask(t) \/ DropTask(t)
    \/ AllEnded

\* Futures are polled, requests that do not fail complete, threads end.
OpenFairness == \A t \in Tasks : WF_openVars(OpenStep(t))
OpenSpec == OpenInit /\ [][OpenNext]_openVars
FairOpenSpec == OpenSpec /\ OpenFairness

-----------------------------------------------------------------------------
(* Properties                                                               *)

\* Range tasks that read a file at the same time hold one copy of its deleted
\* rows, also when loads were abandoned by cancelled tasks before.
OneCopyOfRows ==
    \A t, u \in Tasks :
      FileOf[t] = FileOf[u] /\ rows[t] # None /\ rows[u] # None => rows[t] = rows[u]

\* Tasks of f that left without their file.
GaveUp(f) == {t \in Tasks : FileOf[t] = f /\ step[t] \in {"failed", "cancelled", "dropped"}}

\* With a shared cache the metadata of a file is requested again only to make up
\* for a task that failed or was cancelled or dropped, and never once it is there.
RepeatedLoadsExplained ==
    SharedCache => \A f \in FilesOpened :
      loads[f] <= 1 + Cardinality(GaveUp(f))

\* A task that is not cancelled opens its file or fails by a request of its own:
\* no task waits for ever at a cell or a lock whose holder failed or was dropped.
OpensEnd == \A t \in Tasks : <>(step[t] \in Ended)

\* Behind OneCopyOfRows: rows that are held are the ones the weak reference
\* names, a reference names a load of its own file, and a task loads only as
\* the holder of the lock and while nobody holds rows of its file.
RowsInv ==
    \A t \in Tasks :
      /\ rows[t] # None => rows[t] = cachedRows[FileOf[t]]
      /\ cachedRows[FileOf[t]] # None => FileOf[cachedRows[FileOf[t]]] = FileOf[t]
      /\ step[t] = "loadRows" => First(rowsQueue, t) /\ ~Upgrades(FileOf[t])

\* Behind RepeatedLoadsExplained: the initialiser runs at an empty cell and in
\* the first task there, so that every load but one belongs to a task that gave
\* up, and that one is running or has filled the cell.
Loading(f) == \E t \in Tasks : FileOf[t] = f /\ step[t] = "loadMetadata"

LoadInv ==
    SharedCache =>
      /\ \A t \in Tasks :
           step[t] = "loadMetadata" => First(cellQueue, t) /\ ~cell[FileOf[t]]
      /\ \A f \in FilesOpened :
           loads[f] <= Cardinality(GaveUp(f)) + (IF cell[f] \/ Loading(f) THEN 1 ELSE 0)
=============================================================================
