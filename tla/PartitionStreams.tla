-------------------------- MODULE PartitionStreams --------------------------
(***************************************************************************)
(* The partition streams of one scan (core/src/reader/scheduling.rs): the  *)
(* concurrency limits, the cancellation flag, and the consumer side of     *)
(* each PartitionStream (start, poll, drop).  A partition stream is fed by *)
(* one spawned producer task over a bounded channel.  The producers        *)
(* themselves are FileProducers.tla; the two consumers that the crate has  *)
(* are OrderedPartitionStream.tla (the Rust and Python streams) and        *)
(* DataFusionPartitions.tla (one independent stream per partition).        *)
(*                                                                         *)
(* Partitions are numbered from 1, where the code numbers them from 0.     *)
(***************************************************************************)
EXTENDS Integers, Sequences, FiniteSets

CONSTANTS
    FileTasks,          \* FileTasks[p][i]: batches in data file i of partition p
    Backend,            \* "Direct" or "DeltaKernel"
    ScanLimit,          \* max_concurrent_file_reads_per_scan, 0 for None
    TargetPartitions,   \* the planner's target, used when ScanLimit is None
    PartitionCapacity,  \* max_concurrent_file_reads_per_partition
    PrefetchOption,     \* prefetch_files_per_partition
    OutputBuffer,       \* output_buffer_batches_per_partition
    MaxPermits          \* tokio's Semaphore::MAX_PERMITS

ASSUME PlanAssumption == FileTasks \in Seq(Seq(Nat))

\* The builder methods of DeltaScanExecutionOptions refuse a zero capacity and
\* one above Semaphore::MAX_PERMITS (validate_capacity).
ValidCapacity(c) == c \in 1..MaxPermits

ASSUME OptionsAssumption ==
    /\ Backend \in {"Direct", "DeltaKernel"}
    /\ MaxPermits \in Nat \ {0}
    /\ ScanLimit = 0 \/ ValidCapacity(ScanLimit)
    /\ TargetPartitions \in Nat
    /\ ValidCapacity(PartitionCapacity)
    /\ PrefetchOption \in Nat
    /\ ValidCapacity(OutputBuffer)

Partitions == 1..Len(FileTasks)
Smaller(a, b) == IF a <= b THEN a ELSE b

\* resolved_max_concurrent_file_reads_per_scan: the explicit limit, or
\* target * per-partition clamped to 1..MAX_PERMITS.
ScanCapacity ==
    IF ScanLimit # 0 THEN ScanLimit
    ELSE LET product == TargetPartitions * PartitionCapacity
         IN  IF product < 1 THEN 1 ELSE Smaller(product, MaxPermits)

\* PartitionStream::new: the DeltaKernel backend never prefetches.
Prefetch == IF Backend = "Direct" THEN PrefetchOption ELSE 0

\* PartitionStream::new: the most file reads a partition can use at once.
MaxFileReads(p) ==
    Smaller(Smaller(Len(FileTasks[p]), PartitionCapacity), Prefetch + 1)

\* A batch is the pair (file, position in the file); an Err item is tagged by
\* what caused it.
Batches(p) == UNION {{i} \X (1..FileTasks[p][i]) : i \in 1..Len(FileTasks[p])}
Before(a, b) == a[1] < b[1] \/ (a[1] = b[1] /\ a[2] < b[2])
Errors == {"file_failed", "producer_panicked", "projection_failed"}

\* The item type is Result<RecordBatch, DeltaReaderError>: an Err is not a batch.
ASSUME ItemAssumption == \A e \in Errors : e \notin Nat \X Nat

VARIABLES
    cancelled,  \* cancelled[p]: the ScanCancellation flag partition p was given
    state,      \* state[p]: PartitionStreamState, or "Dropped"
    task,       \* task[p]: the spawned producer task
    out,        \* out[p]: items queued in the partition's output channel
    permits,    \* permits[p]: permits issued to the partition's semaphore
    reads,      \* reads[p]: file reads of p that hold a partition permit
    sent        \* sent[p]: the batch most recently sent, <<0, 0>> at first

streamVars == <<cancelled, state, task, out, permits, reads, sent>>

\* "failing" holds the scan's first error and waits to send it; in "closing"
\* and "unwinding" run_partition has returned (or panicked) and dropped its
\* sender, but the task is not joinable yet.
StreamStates == {"NotStarted", "Running", "Finishing", "Done", "Dropped"}
TaskStates == {"none", "running", "failing", "closing", "unwinding", "exited", "panicked"}

StreamTypeOK ==
    /\ cancelled \in [Partitions -> BOOLEAN]
    /\ state \in [Partitions -> StreamStates]
    /\ task \in [Partitions -> TaskStates]
    /\ permits \in [Partitions -> Nat]
    /\ reads \in [Partitions -> Nat]

\* What travels through the partitions' channels.
ChannelTypeOK ==
    /\ out \in [Partitions -> Seq((Nat \X Nat) \cup Errors)]
    /\ sent \in [Partitions -> Nat \X Nat]

\* ScanReadLimiter::new, PartitionStream::new.
StreamInit ==
    /\ cancelled = [p \in Partitions |-> FALSE]
    /\ state = [p \in Partitions |-> "NotStarted"]
    /\ task = [p \in Partitions |-> "none"]
    /\ out = [p \in Partitions |-> <<>>]
    /\ permits = [p \in Partitions |-> PartitionCapacity]
    /\ reads = [p \in Partitions |-> 0]
    /\ sent = [p \in Partitions |-> <<0, 0>>]

-----------------------------------------------------------------------------
(* ScanCancellation.  scope is the set of partitions that share the flag.   *)

CancelEveryone(scope) == cancelled' = [p \in Partitions |-> TRUE]

Cancel(scope) == cancelled' = [p \in Partitions |-> cancelled[p] \/ p \in scope]

-----------------------------------------------------------------------------
(* PartitionStream: start, poll_next and Drop.                              *)

\* Mutations of the code, each next to the definition it breaks, are the
\* operators the mutants of PROJECT.json name (CancelEveryone, AtEndIgnoresPanic
\* and so on); no specification uses them.

\* The sender is dropped when run_partition returns or unwinds.
SenderLive(p) == task[p] \in {"running", "failing"}
ReceiverLive(p) == state[p] = "Running"

\* start(): a cancelled partition is never spawned.
Start(p) ==
    IF state[p] # "NotStarted" THEN UNCHANGED <<state, task>>
    ELSE IF cancelled[p]
         THEN state' = [state EXCEPT ![p] = "Done"] /\ UNCHANGED task
         ELSE /\ state' = [state EXCEPT ![p] = "Running"]
              /\ task' = [task EXCEPT ![p] = "running"]

\* Whether poll_next(p) would return Poll::Pending.
Pending(p) ==
    \/ state[p] = "Running" /\ out[p] = <<>> /\ SenderLive(p)
    \/ state[p] = "Finishing" /\ task[p] \notin {"exited", "panicked"}

\* The receiver yields a queued item.
Receive(p) ==
    /\ state[p] = "Running" /\ out[p] # <<>>
    /\ out' = [out EXCEPT ![p] = Tail(@)]
    /\ UNCHANGED <<cancelled, state, task, permits, reads, sent>>

\* The channel is closed and empty: the producer task is joined next.
ReceiveClosed(p) ==
    /\ state[p] = "Running" /\ out[p] = <<>> /\ ~SenderLive(p)
    /\ state' = [state EXCEPT ![p] = "Finishing"]
    /\ UNCHANGED <<cancelled, task, out, permits, reads, sent>>

\* The joined task panicked, and nobody had cancelled: the panic is the error.
JoinReportsPanic(p, scope) ==
    /\ state[p] = "Finishing" /\ task[p] = "panicked" /\ ~cancelled[p]
    /\ state' = [state EXCEPT ![p] = "Done"]
    /\ Cancel(scope)
    /\ UNCHANGED <<task, out, permits, reads, sent>>

AtEndIgnoresPanic(p) ==
    \/ state[p] = "Done"
    \/ state[p] = "Finishing" /\ task[p] \in {"exited", "panicked"}

\* poll_next is about to return Ready(None).
AtEnd(p) ==
    \/ state[p] = "Done"
    \/ state[p] = "Finishing"
       /\ (task[p] = "exited" \/ (task[p] = "panicked" /\ cancelled[p]))

\* Drop for PartitionStream: every stream of ps is dropped, and each one that
\* had not finished cancels its scope.
DropStreams(ps, scope) ==
    /\ IF \E p \in ps : state[p] # "Done"
       THEN Cancel(scope)
       ELSE UNCHANGED cancelled
    /\ state' = [p \in Partitions |->
                   IF p \in ps /\ state[p] # "Done" THEN "Dropped" ELSE state[p]]
    /\ out' = [p \in Partitions |-> IF p \in ps THEN <<>> ELSE out[p]]
    /\ UNCHANGED <<task, permits, reads, sent>>
=============================================================================
