---------------------------- MODULE FileProducers ----------------------------
(***************************************************************************)
(* The producer task of each partition (run_partition in scheduling.rs):   *)
(* it schedules the partition's data files in order, sets up as many as    *)
(* the prefetch allows, waits for read permits, and forwards the batches   *)
(* of one file at a time to the partition's output channel.                *)
(*                                                                         *)
(* Both backends are here.  A Direct file stream is polled by the producer *)
(* itself; a DeltaKernel file is read by a blocking thread that hands its  *)
(* batches over a second bounded channel and keeps the file's read permit  *)
(* until it returns, even after its stream was dropped.                    *)
(*                                                                         *)
(* tokio's semaphores are FIFO and assign a released permit to the longest *)
(* waiter, so a semaphore is the sequence of its claimants in arrival      *)
(* order, of which the first `capacity` hold a permit.                     *)
(***************************************************************************)
EXTENDS PartitionStreams, WaitQueues

CONSTANTS
    FailingFiles,   \* pairs <<p, i>>: files whose setup or reads may fail
    SkippedFiles,   \* pairs <<p, i>>: files the admission policy may skip
    PanickingPartitions  \* partitions whose producer may panic

VARIABLES
    next,           \* next[p]: file tasks popped by schedule_next
    inFlight,       \* inFlight[p]: the FuturesOrdered of scheduled files
    ready,          \* ready[p]: files set up ahead of the current one
    current,        \* current[p]: the file being drained, 0 in take_next_file
    hand,           \* hand[p]: drain_current_file holds a batch for the channel
    fut,            \* fut[p][i]: the scheduled future of a file, then its stream
    yielded,        \* yielded[p][i]: batches file i has given to the drain
    thread,         \* thread[p][i]: the blocking thread of a DeltaKernel file
    queued,         \* queued[p][i]: batches in that thread's channel
    partitionQueue, \* partitionQueue[p]: claimants of the partition's permits
    scanQueue,      \* claimants of the scan's permits
    filesCompleted, \* record_file_task_completed calls, by file
    partitionsCompleted  \* record_scan_partition_completed calls

producerVars ==
    <<next, inFlight, ready, current, hand, fut, yielded, thread, queued,
      partitionQueue, scanQueue, filesCompleted, partitionsCompleted>>

Files(p) == 1..Len(FileTasks[p])
AllFiles == UNION {{p} \X Files(p) : p \in Partitions}

FutureStates ==
    {"planned", "unpolled", "waitPartition", "waitScan", "opening", "open",
     "skipped", "failed", "cancelled", "ended", "dropped"}
ThreadStates == {"none", "running", "sending", "finished", "stopped", "failed"}

\* A value for every file of every partition.
OfFiles(f) == f = [p \in Partitions |-> [i \in Files(p) |-> f[p][i]]]

ProducerTypeOK ==
    /\ next \in [Partitions -> Nat]
    /\ inFlight \in [Partitions -> Seq(Nat)] /\ ready \in [Partitions -> Seq(Nat)]
    /\ current \in [Partitions -> Nat]
    /\ hand \in [Partitions -> BOOLEAN]
    /\ OfFiles(fut) /\ OfFiles(yielded) /\ OfFiles(thread) /\ OfFiles(queued)
    /\ \A p \in Partitions : \A i \in Files(p) :
         /\ fut[p][i] \in FutureStates /\ thread[p][i] \in ThreadStates
         /\ yielded[p][i] \in Nat /\ queued[p][i] \in Nat
    /\ partitionQueue \in [Partitions -> Seq(Nat)]
    /\ scanQueue \in Seq(Partitions \X Nat)

ProducerInit ==
    /\ next = [p \in Partitions |-> 0]
    /\ inFlight = [p \in Partitions |-> <<>>]
    /\ ready = [p \in Partitions |-> <<>>]
    /\ current = [p \in Partitions |-> 0]
    /\ hand = [p \in Partitions |-> FALSE]
    /\ fut = [p \in Partitions |-> [i \in Files(p) |-> "planned"]]
    /\ yielded = [p \in Partitions |-> [i \in Files(p) |-> 0]]
    /\ thread = [p \in Partitions |-> [i \in Files(p) |-> "none"]]
    /\ queued = [p \in Partitions |-> [i \in Files(p) |-> 0]]
    /\ partitionQueue = [p \in Partitions |-> <<>>]
    /\ scanQueue = <<>>
    /\ filesCompleted = {}
    /\ partitionsCompleted = {}

-----------------------------------------------------------------------------
(* Read permits.                                                            *)

Granted(queue, capacity, claimant) ==
    \E k \in 1..Smaller(Len(queue), capacity) : queue[k] = claimant

\* Files of p that hold a partition permit.
Reading(p) ==
    {i \in Files(p) :
       \/ fut[p][i] \in {"waitScan", "opening"}
       \/ Backend = "Direct" /\ fut[p][i] = "open"
       \/ thread[p][i] \in {"running", "sending"}}

\* Both permits of the files in gone are returned, or their waits abandoned.
Release(p, gone) ==
    /\ partitionQueue' = [partitionQueue EXCEPT ![p] = Without(@, gone)]
    /\ scanQueue' = Without(scanQueue, {p} \X gone)
    /\ reads' = [reads EXCEPT ![p] = Cardinality(Reading(p) \ gone)]

-----------------------------------------------------------------------------
(* refill_pending_file_streams: the producer schedules files before it      *)
(* waits for anything, prefetch + 1 of them when none is being drained.     *)

Vacancies(p) ==
    LET target == IF current[p] = 0 THEN Prefetch + 1 ELSE Prefetch
        room == target - Len(inFlight[p]) - Len(ready[p])
    IN  IF room < 0 THEN 0 ELSE Smaller(room, Len(FileTasks[p]) - next[p])

Refill(p) ==
    /\ task[p] = "running" /\ Vacancies(p) > 0
    /\ next' = [next EXCEPT ![p] = @ + Vacancies(p)]
    /\ inFlight' = [inFlight EXCEPT ![p] =
                      @ \o [k \in 1..Vacancies(p) |-> next[p] + k]]
    /\ fut' = [fut EXCEPT ![p] =
                 [i \in Files(p) |-> IF i \in (next[p] + 1)..(next[p] + Vacancies(p))
                                     THEN "unpolled" ELSE @[i]]]
    /\ UNCHANGED <<streamVars, ready, current, hand, yielded, thread, queued,
                   partitionQueue, scanQueue, filesCompleted, partitionsCompleted>>

Polling(p) == task[p] = "running" /\ Vacancies(p) = 0

-----------------------------------------------------------------------------
(* The future that schedule_next builds for file i.  FuturesOrdered first   *)
(* polls its futures in the order they were pushed.                         *)

SetFuture(p, i, to) == fut' = [fut EXCEPT ![p][i] = to]

EarlierPast(p, i, stages) ==
    \A j \in Files(p) : j < i => fut[p][j] \notin stages

PollNew(p, i) ==
    /\ Polling(p) /\ fut[p][i] = "unpolled" /\ EarlierPast(p, i, {"unpolled"})
    /\ IF cancelled[p] THEN SetFuture(p, i, "cancelled") /\ UNCHANGED partitionQueue
       ELSE \/ /\ SetFuture(p, i, "waitPartition")
               /\ partitionQueue' = [partitionQueue EXCEPT ![p] = Append(@, i)]
            \/ /\ <<p, i>> \in SkippedFiles
               /\ SetFuture(p, i, "skipped") /\ UNCHANGED partitionQueue
    /\ UNCHANGED <<streamVars, next, inFlight, ready, current, hand, yielded, thread,
                   queued, scanQueue, filesCompleted, partitionsCompleted>>

GetPartitionPermitUnfair(p, i) ==
    /\ Polling(p) /\ fut[p][i] = "waitPartition" /\ ~cancelled[p]
    /\ Cardinality(Reading(p)) < permits[p]
    /\ SetFuture(p, i, "waitScan")
    /\ scanQueue' = Append(scanQueue, <<p, i>>)
    /\ reads' = [reads EXCEPT ![p] = @ + 1]
    /\ UNCHANGED <<cancelled, state, task, out, permits, sent, next, inFlight, ready,
                   current, hand, yielded, thread, queued, partitionQueue,
                   filesCompleted, partitionsCompleted>>

\* acquire_until_cancelled on the partition's permits: cancellation wins.
GetPartitionPermit(p, i) ==
    /\ Polling(p) /\ fut[p][i] = "waitPartition" /\ ~cancelled[p]
    /\ EarlierPast(p, i, {"waitPartition"})
    /\ Granted(partitionQueue[p], permits[p], i)
    /\ SetFuture(p, i, "waitScan")
    /\ scanQueue' = Append(scanQueue, <<p, i>>)
    /\ reads' = [reads EXCEPT ![p] = @ + 1]
    /\ UNCHANGED <<cancelled, state, task, out, permits, sent, next, inFlight, ready,
                   current, hand, yielded, thread, queued, partitionQueue,
                   filesCompleted, partitionsCompleted>>

GetScanPermitUnlimited(p, i) ==
    /\ Polling(p) /\ fut[p][i] = "waitScan" /\ ~cancelled[p]
    /\ IF Backend = "Direct"
       THEN SetFuture(p, i, "opening") /\ UNCHANGED thread
       ELSE SetFuture(p, i, "open") /\ thread' = [thread EXCEPT ![p][i] = "running"]
    /\ UNCHANGED <<streamVars, next, inFlight, ready, current, hand, yielded, queued,
                   partitionQueue, scanQueue, filesCompleted, partitionsCompleted>>

\* acquire_until_cancelled on the scan's permits, then the executor: Direct
\* starts to open the file, DeltaKernel spawns its blocking thread.
GetScanPermit(p, i) ==
    /\ Polling(p) /\ fut[p][i] = "waitScan" /\ ~cancelled[p]
    /\ Granted(scanQueue, ScanCapacity, <<p, i>>)
    /\ IF Backend = "Direct"
       THEN SetFuture(p, i, "opening") /\ UNCHANGED thread
       ELSE SetFuture(p, i, "open") /\ thread' = [thread EXCEPT ![p][i] = "running"]
    /\ UNCHANGED <<streamVars, next, inFlight, ready, current, hand, yielded, queued,
                   partitionQueue, scanQueue, filesCompleted, partitionsCompleted>>

\* open_logical_data_file_stream: metadata, row groups and deletion vector.
OpenFile(p, i) ==
    /\ Polling(p) /\ fut[p][i] = "opening" /\ ~cancelled[p]
    /\ SetFuture(p, i, "open")
    /\ UNCHANGED <<streamVars, next, inFlight, ready, current, hand, yielded, thread,
                   queued, partitionQueue, scanQueue, filesCompleted, partitionsCompleted>>

\* The future fails, or notices the cancellation at one of its waits; the
\* permits it holds or waits for are dropped with it.
FutureFails(p, i) ==
    /\ Polling(p)
    /\ \/ fut[p][i] = "opening" /\ ~cancelled[p] /\ <<p, i>> \in FailingFiles
          /\ SetFuture(p, i, "failed")
       \/ fut[p][i] \in {"waitPartition", "waitScan", "opening"} /\ cancelled[p]
          /\ SetFuture(p, i, "cancelled")
    /\ Release(p, {i})
    /\ UNCHANGED <<cancelled, state, task, out, permits, sent, next, inFlight, ready,
                   current, hand, yielded, thread, queued, filesCompleted,
                   partitionsCompleted>>

-----------------------------------------------------------------------------
(* The blocking thread of a DeltaKernel file (read_file).                   *)

ThreadEnds(p, i, to) ==
    /\ thread' = [thread EXCEPT ![p][i] = to]
    /\ Release(p, {i})
    /\ UNCHANGED queued

ThreadStepDeaf(p, i) ==
    /\ \/ thread[p][i] = "running" /\ yielded[p][i] + queued[p][i] < FileTasks[p][i]
          /\ thread' = [thread EXCEPT ![p][i] = "sending"]
          /\ UNCHANGED <<reads, queued, partitionQueue, scanQueue>>
       \/ thread[p][i] = "running" /\ yielded[p][i] + queued[p][i] = FileTasks[p][i]
          /\ ThreadEnds(p, i, "finished")
       \/ thread[p][i] = "sending" /\ (fut[p][i] = "open" => queued[p][i] < OutputBuffer)
          /\ queued' = [queued EXCEPT ![p][i] = IF fut[p][i] = "open" THEN @ + 1 ELSE @]
          /\ thread' = [thread EXCEPT ![p][i] = "running"]
          /\ UNCHANGED <<reads, partitionQueue, scanQueue>>
    /\ UNCHANGED <<cancelled, state, task, out, permits, sent, next, inFlight, ready,
                   current, hand, fut, yielded, filesCompleted, partitionsCompleted>>

ThreadStep(p, i) ==
    /\ \/ thread[p][i] = "running" /\ yielded[p][i] + queued[p][i] < FileTasks[p][i]
          /\ IF cancelled[p] THEN ThreadEnds(p, i, "stopped")
             ELSE \/ thread' = [thread EXCEPT ![p][i] = "sending"]
                     /\ UNCHANGED <<reads, queued, partitionQueue, scanQueue>>
                  \/ <<p, i>> \in FailingFiles /\ ThreadEnds(p, i, "failed")
       \/ thread[p][i] = "running" /\ yielded[p][i] + queued[p][i] = FileTasks[p][i]
          /\ \/ ThreadEnds(p, i, "finished")
             \/ <<p, i>> \in FailingFiles /\ ThreadEnds(p, i, "failed")
       \* Dropping the stream aborts a task that has not started to run.
       \/ thread[p][i] = "running" /\ fut[p][i] = "dropped"
          /\ yielded[p][i] + queued[p][i] = 0 /\ ThreadEnds(p, i, "stopped")
       \/ thread[p][i] = "sending" /\ fut[p][i] = "dropped"
          /\ ThreadEnds(p, i, "stopped")
       \/ thread[p][i] = "sending" /\ fut[p][i] = "open" /\ queued[p][i] < OutputBuffer
          /\ queued' = [queued EXCEPT ![p][i] = @ + 1]
          /\ thread' = [thread EXCEPT ![p][i] = "running"]
          /\ UNCHANGED <<reads, partitionQueue, scanQueue>>
    /\ UNCHANGED <<cancelled, state, task, out, permits, sent, next, inFlight, ready,
                   current, hand, fut, yielded, filesCompleted, partitionsCompleted>>

-----------------------------------------------------------------------------
(* run_partition.                                                           *)

\* Everything run_partition owns is dropped.  Running blocking threads keep
\* their permits until their next handoff.
DropProducer(p) ==
    /\ inFlight' = [inFlight EXCEPT ![p] = <<>>]
    /\ ready' = [ready EXCEPT ![p] = <<>>]
    /\ current' = [current EXCEPT ![p] = 0]
    /\ hand' = [hand EXCEPT ![p] = FALSE]
    /\ fut' = [fut EXCEPT ![p] = [i \in Files(p) |-> "dropped"]]
    /\ Release(p, {i \in Files(p) : thread[p][i] \notin {"running", "sending"}})
    /\ UNCHANGED <<next, yielded, thread, queued, filesCompleted>>

ReturnAs(p, to) ==
    /\ DropProducer(p)
    /\ task' = [task EXCEPT ![p] = to]
    /\ UNCHANGED <<state, permits, sent>>

SendNoError(p, failed, scope) ==
    /\ Cancel(scope)
    /\ ReturnAs(p, "closing")
    /\ UNCHANGED <<out, partitionsCompleted>>

\* send_first_error.  The producer keeps its other files while it waits.
SendFirstError(p, failed, scope) ==
    IF cancelled[p]
    THEN ReturnAs(p, "closing") /\ UNCHANGED <<cancelled, out, partitionsCompleted>>
    ELSE /\ Cancel(scope)
         /\ task' = [task EXCEPT ![p] = "failing"]
         /\ Release(p, {failed})
         /\ UNCHANGED <<state, out, permits, sent, inFlight, ready, current, hand, fut,
                        next, yielded, thread, queued, filesCompleted,
                        partitionsCompleted>>

ErrorSentDeaf(p) ==
    /\ task[p] = "failing" /\ Len(out[p]) < OutputBuffer /\ ReceiverLive(p)
    /\ out' = [out EXCEPT ![p] = Append(@, "file_failed")]
    /\ ReturnAs(p, "closing")
    /\ UNCHANGED <<cancelled, partitionsCompleted>>

ErrorSent(p) ==
    /\ task[p] = "failing"
    /\ \/ ReceiverLive(p) /\ Len(out[p]) < OutputBuffer
          /\ out' = [out EXCEPT ![p] = Append(@, "file_failed")]
       \/ ~ReceiverLive(p) /\ UNCHANGED out
    /\ ReturnAs(p, "closing")
    /\ UNCHANGED <<cancelled, partitionsCompleted>>

\* take_next_file: files set up ahead come first, then the oldest future.
NextResult(p) == IF ready[p] # <<>> THEN Head(ready[p]) ELSE Head(inFlight[p])
PopResult(p) ==
    IF ready[p] # <<>>
    THEN ready' = [ready EXCEPT ![p] = Tail(@)] /\ UNCHANGED inFlight
    ELSE inFlight' = [inFlight EXCEPT ![p] = Tail(@)] /\ UNCHANGED ready

Taking(p) == Polling(p) /\ current[p] = 0
HasResult(p, results) ==
    /\ ready[p] # <<>> \/ inFlight[p] # <<>>
    /\ fut[p][NextResult(p)] \in results

\* The file becomes current; drain_current_file looks at the flag first.
TakeFile(p) ==
    /\ Taking(p) /\ HasResult(p, {"open"})
    /\ IF cancelled[p]
       THEN ReturnAs(p, "closing")
       ELSE /\ PopResult(p)
            /\ current' = [current EXCEPT ![p] = NextResult(p)]
            /\ UNCHANGED <<state, task, permits, reads, sent, next, hand, fut, yielded,
                           thread, queued, partitionQueue, scanQueue, filesCompleted>>
    /\ UNCHANGED <<cancelled, out, partitionsCompleted>>

TakeSkipped(p) ==
    /\ Taking(p) /\ HasResult(p, {"skipped"})
    /\ PopResult(p)
    /\ UNCHANGED <<streamVars, next, current, hand, fut, yielded, thread, queued,
                   partitionQueue, scanQueue, filesCompleted, partitionsCompleted>>

TakeError(p, scope) ==
    /\ Taking(p) /\ HasResult(p, {"failed", "cancelled"})
    /\ SendFirstError(p, NextResult(p), scope)

\* The select is biased towards the oldest future.
TakeCancelled(p) ==
    /\ Taking(p) /\ cancelled[p] /\ ready[p] = <<>> /\ inFlight[p] # <<>>
    /\ ~HasResult(p, {"open", "skipped", "failed", "cancelled"})
    /\ ReturnAs(p, "closing")
    /\ UNCHANGED <<cancelled, out, partitionsCompleted>>

Exhausted(p) ==
    /\ Taking(p) /\ ready[p] = <<>> /\ inFlight[p] = <<>>
    /\ partitionsCompleted' = partitionsCompleted \cup {p}
    /\ ReturnAs(p, "closing")
    /\ UNCHANGED <<cancelled, out>>

\* drain_current_file.  Its select looks at the flag first, so what follows is
\* the rest of a poll whose look was negative: the flag may be set meanwhile.
Draining(p) == Polling(p) /\ current[p] # 0

\* file.next(): a Direct stream looks at the flag again, a DeltaKernel stream
\* only receives from its thread.
NextBatch(p) ==
    /\ Draining(p) /\ ~hand[p]
    /\ LET i == current[p] IN
         /\ IF Backend = "Direct"
            THEN ~cancelled[p] /\ yielded[p][i] < FileTasks[p][i] /\ UNCHANGED queued
            ELSE queued[p][i] > 0 /\ queued' = [queued EXCEPT ![p][i] = @ - 1]
         /\ yielded' = [yielded EXCEPT ![p][i] = @ + 1]
    /\ hand' = [hand EXCEPT ![p] = TRUE]
    /\ UNCHANGED <<streamVars, next, inFlight, ready, current, fut, thread,
                   partitionQueue, scanQueue, filesCompleted, partitionsCompleted>>

EmitBatchUnbounded(p) ==
    /\ Draining(p) /\ hand[p] /\ ReceiverLive(p)
    /\ LET batch == <<current[p], yielded[p][current[p]]>> IN
         /\ out' = [out EXCEPT ![p] = Append(@, batch)]
         /\ sent' = [sent EXCEPT ![p] = batch]
    /\ hand' = [hand EXCEPT ![p] = FALSE]
    /\ UNCHANGED <<cancelled, state, task, permits, reads, next, inFlight, ready,
                   current, fut, yielded, thread, queued, partitionQueue, scanQueue,
                   filesCompleted, partitionsCompleted>>

EmitBatch(p) ==
    /\ Draining(p) /\ hand[p] /\ ReceiverLive(p) /\ Len(out[p]) < OutputBuffer
    /\ LET batch == <<current[p], yielded[p][current[p]]>> IN
         /\ out' = [out EXCEPT ![p] = Append(@, batch)]
         /\ sent' = [sent EXCEPT ![p] = batch]
    /\ hand' = [hand EXCEPT ![p] = FALSE]
    /\ UNCHANGED <<cancelled, state, task, permits, reads, next, inFlight, ready,
                   current, fut, yielded, thread, queued, partitionQueue, scanQueue,
                   filesCompleted, partitionsCompleted>>

\* output.reserve() fails once the receiver is gone.
EmitUnread(p, scope) ==
    /\ Draining(p) /\ hand[p] /\ ~ReceiverLive(p)
    /\ Cancel(scope)
    /\ ReturnAs(p, "closing")
    /\ UNCHANGED <<out, partitionsCompleted>>

\* drain_current_file's file ended; next() returned None for the reason why.
EndFile(p, ended) ==
    /\ Draining(p) /\ ~hand[p] /\ ended
    /\ SetFuture(p, current[p], "ended")
    /\ Release(p, {current[p]})
    /\ filesCompleted' = filesCompleted \cup {<<p, current[p]>>}
    /\ current' = [current EXCEPT ![p] = 0]
    /\ UNCHANGED <<cancelled, state, task, out, permits, sent, next, inFlight, ready,
                   hand, yielded, thread, queued, partitionsCompleted>>

FileEndsOnCancel(p) ==
    LET i == current[p] IN
    EndFile(p, \/ Backend = "Direct" /\ (cancelled[p] \/ yielded[p][i] = FileTasks[p][i])
               \/ Backend # "Direct" /\ queued[p][i] = 0
                  /\ thread[p][i] \in {"finished", "stopped"})

\* A DeltaKernel thread that stopped because of a cancellation returned Ok.
FileEnds(p) ==
    LET i == current[p] IN
    EndFile(p, \/ Backend = "Direct" /\ ~cancelled[p] /\ yielded[p][i] = FileTasks[p][i]
               \/ Backend # "Direct" /\ queued[p][i] = 0
                  /\ thread[p][i] \in {"finished", "stopped"})

FileFails(p, scope) ==
    /\ Draining(p) /\ ~hand[p]
    /\ LET i == current[p] IN
         /\ IF Backend = "Direct"
            THEN <<p, i>> \in FailingFiles /\ ~cancelled[p]
            ELSE queued[p][i] = 0 /\ thread[p][i] = "failed"
         /\ SendFirstError(p, i, scope)

\* A file set up ahead is parked while the current one is drained.
ParkReady(p) ==
    /\ Draining(p) /\ ~cancelled[p] /\ inFlight[p] # <<>>
    /\ LET i == Head(inFlight[p]) IN
         /\ fut[p][i] \in {"open", "skipped", "failed", "cancelled"}
         /\ ready' = IF fut[p][i] = "skipped" THEN ready
                     ELSE [ready EXCEPT ![p] = Append(@, i)]
    /\ inFlight' = [inFlight EXCEPT ![p] = Tail(@)]
    /\ UNCHANGED <<streamVars, next, current, hand, fut, yielded, thread, queued,
                   partitionQueue, scanQueue, filesCompleted, partitionsCompleted>>

DrainCancelled(p) ==
    /\ Draining(p) /\ cancelled[p]
    /\ ReturnAs(p, "closing")
    /\ UNCHANGED <<cancelled, out, partitionsCompleted>>

ProducerPanics(p) ==
    /\ p \in PanickingPartitions /\ task[p] = "running"
    /\ ReturnAs(p, "unwinding")
    /\ UNCHANGED <<cancelled, out, partitionsCompleted>>

\* The steps of p's producer task but its exit: the futures of its files, then
\* run_partition.  A panic may strike a running task but is never its way on.
FileStep(p) ==
    \E i \in Files(p) :
      \/ PollNew(p, i) \/ GetPartitionPermit(p, i) \/ GetScanPermit(p, i)
      \/ OpenFile(p, i) \/ FutureFails(p, i)

PartitionProgress(p, scope) ==
    \/ Refill(p) \/ TakeFile(p) \/ TakeSkipped(p) \/ TakeError(p, scope)
    \/ TakeCancelled(p) \/ Exhausted(p) \/ NextBatch(p) \/ EmitBatch(p)
    \/ EmitUnread(p, scope) \/ FileEnds(p) \/ FileFails(p, scope) \/ ParkReady(p)
    \/ DrainCancelled(p) \/ ErrorSent(p)

RunPartition(p, scope) == PartitionProgress(p, scope) \/ ProducerPanics(p)

-----------------------------------------------------------------------------
(* Properties                                                               *)

\* Files of p that are being read: past both permits and not yet released.
ActiveReads(p) ==
    {i \in Files(p) :
       \/ fut[p][i] = "opening"
       \/ Backend = "Direct" /\ task[p] = "running" /\ fut[p][i] = "open"
       \/ thread[p][i] \in {"running", "sending"}}

\* Both documented limits hold at every moment, for blocking reads that outlive
\* their cancelled producer too.
ReadLimits ==
    /\ \A p \in Partitions : Cardinality(ActiveReads(p)) <= PartitionCapacity
    /\ Cardinality(UNION {{p} \X ActiveReads(p) : p \in Partitions}) <= ScanCapacity

\* Prefetching never lets a later file of a partition read while an earlier
\* one still waits for a permit: the earlier one is needed first, so that
\* would be a wait that only the later file's end could resolve.
EarlierFileReadsFirst ==
    \A p \in Partitions : \A i, j \in Files(p) :
      i < j /\ j \in ActiveReads(p) =>
        /\ fut[p][i] \notin {"unpolled", "waitPartition"}
        /\ fut[p][i] = "waitScan" => Granted(scanQueue, ScanCapacity, <<p, i>>)

\* metrics.rs: a data-file task counted as completed "completed normally", and
\* so did a scan partition: all of its batches were read.
CompletedMeansRead ==
    /\ \A f \in filesCompleted : yielded[f[1]][f[2]] = FileTasks[f[1]][f[2]]
    /\ \A p \in partitionsCompleted : \A i \in Files(p) :
         <<p, i>> \notin SkippedFiles => yielded[p][i] = FileTasks[p][i]

-----------------------------------------------------------------------------
(* The inductive invariants behind ReadLimits and EarlierFileReadsFirst.    *)

\* Files are scheduled in order and first polled in order; a producer that
\* returned has dropped all of them, and only a blocking read outlives that.
\* The file being drained was set up.
FutureOK(p) ==
    /\ state[p] = "NotStarted" => task[p] = "none"
    /\ task[p] = "none" => next[p] = 0
    /\ \A i \in Files(p) :
         /\ fut[p][i] = "dropped" <=> task[p] \notin {"none", "running", "failing"}
         /\ fut[p][i] # "dropped" => (fut[p][i] = "planned" <=> i > next[p])
         /\ thread[p][i] \in {"running", "sending"} =>
              Backend # "Direct" /\ fut[p][i] \in {"open", "dropped"}
         /\ fut[p][i] = "opening" => Backend = "Direct"
         /\ current[p] = i => fut[p][i] = "open"
         /\ fut[p][i] = "waitPartition" =>
              \A j \in Files(p) : j < i => fut[p][j] \notin {"planned", "unpolled"}

FutureInv == \A p \in Partitions : FutureOK(p)

\* Who has a permit stays within the capacity of its queue, although others
\* leave the queue, and permits are added, at any time.
GrantInv ==
    \A p \in Partitions : \A i \in Files(p) :
      /\ i \in ActiveReads(p) \/ fut[p][i] = "waitScan" =>
           Granted(partitionQueue[p], permits[p], i)
      /\ i \in ActiveReads(p) => Granted(scanQueue, ScanCapacity, <<p, i>>)

\* The files of a partition are in the scan's queue in their own order, and not
\* before those ahead of them have their partition permit.
QueueOrderInv ==
    \A p \in Partitions : \A i \in Files(p) :
      /\ fut[p][i] = "waitScan" => Ahead(scanQueue, Len(scanQueue) + 1, <<p, i>>)
      /\ \A k \in 1..Len(scanQueue) : scanQueue[k][1] = p =>
           /\ i <= scanQueue[k][2] => fut[p][i] \notin {"planned", "unpolled", "waitPartition"}
           /\ i < scanQueue[k][2] /\ fut[p][i] = "waitScan" => Ahead(scanQueue, k, <<p, i>>)

ProducerInv ==
    StreamTypeOK /\ ProducerTypeOK /\ FutureInv /\ GrantInv /\ QueueOrderInv

-----------------------------------------------------------------------------
(* The inductive invariants behind CompletedMeansRead, the order of a       *)
(* partition's batches, and the implementation of the merger's producers.   *)

\* Files popped from the FuturesOrdered, or set up and parked behind current.
Taken(p) == next[p] - Len(inFlight[p])

\* inFlight is the tail of what was scheduled; what was taken out of it is being
\* drained, parked in order behind that, or done with.
PipelineOK(p) ==
    task[p] \in {"none", "running", "failing"} =>
      /\ next[p] <= Len(FileTasks[p]) /\ Len(inFlight[p]) <= next[p]
      /\ \A k \in 1..Len(inFlight[p]) : inFlight[p][k] = Taken(p) + k
      /\ current[p] <= Taken(p)
      /\ \A k \in 1..Len(ready[p]) :
           /\ current[p] < ready[p][k] /\ ready[p][k] <= Taken(p)
           /\ \A j \in 1..(k - 1) : ready[p][j] < ready[p][k]
      /\ \A i \in 1..Taken(p) :
           \/ i = current[p] \/ fut[p][i] \in {"ended", "skipped"}
           \/ \E k \in 1..Len(ready[p]) : ready[p][k] = i
      /\ \A i \in Files(p) : fut[p][i] = "ended" =>
           /\ i <= Taken(p) /\ (current[p] # 0 => i < current[p])
           /\ \A k \in 1..Len(ready[p]) : i < ready[p][k]

\* A file's batches are read once the file is current, and all of them unless
\* the scan was cancelled: only then a blocking thread stops early.
ReadOK(p) ==
    /\ hand[p] => current[p] # 0
    /\ \A i \in Files(p) :
         /\ yielded[p][i] + queued[p][i] <= FileTasks[p][i]
         /\ thread[p][i] = "sending" => yielded[p][i] + queued[p][i] < FileTasks[p][i]
         /\ thread[p][i] = "finished" => yielded[p][i] + queued[p][i] = FileTasks[p][i]
         /\ thread[p][i] = "stopped" => cancelled[p] \/ fut[p][i] = "dropped"
         /\ Backend = "Direct" \/ thread[p][i] = "none" => queued[p][i] = 0
         /\ fut[p][i] = "skipped" => <<p, i>> \in SkippedFiles
         /\ i # current[p] /\ fut[p][i] \notin {"ended", "dropped"} => yielded[p][i] = 0
         /\ hand[p] /\ i = current[p] => yielded[p][i] >= 1
         /\ fut[p][i] = "ended" =>
              \/ yielded[p][i] = FileTasks[p][i]
              \/ Backend # "Direct" /\ cancelled[p] /\ current[p] = 0

\* Batches of file i that were sent.
Handed(p, i) == IF hand[p] /\ current[p] = i THEN yielded[p][i] - 1 ELSE yielded[p][i]

\* What is left to send comes after what was sent, unless the scan was
\* cancelled and the file being drained has ended.
SentOK(p) ==
    task[p] \in {"none", "running"} /\ ~(cancelled[p] /\ current[p] = 0) =>
      \A b \in Batches(p) : fut[p][b[1]] # "skipped" =>
         (Before(sent[p], b) <=> Handed(p, b[1]) < b[2])

\* While its producer lives a partition counts the files that hold a permit.
CountOK(p) ==
    Backend # "Direct" \/ task[p] # "failing" => reads[p] = Cardinality(Reading(p))

DrainOK(p) == PipelineOK(p) /\ ReadOK(p) /\ SentOK(p) /\ CountOK(p)

SchedulingInv == ProducerInv /\ \A p \in Partitions : DrainOK(p)

\* Behind CompletedMeansRead: a completed file is past its drain.
CompletedInv ==
    /\ \A f \in filesCompleted :
         /\ f \in AllFiles /\ fut[f[1]][f[2]] \in {"ended", "dropped"}
         /\ yielded[f[1]][f[2]] = FileTasks[f[1]][f[2]]
    /\ \A p \in partitionsCompleted :
         /\ p \in Partitions /\ task[p] \notin {"none", "running", "failing"}
         /\ \A i \in Files(p) :
              <<p, i>> \notin SkippedFiles => yielded[p][i] = FileTasks[p][i]

=============================================================================
