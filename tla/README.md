# A verification project for delta-arrow-reader

delta-arrow-reader reads Delta Lake tables into Arrow record batches, from
Rust, from Python, through DataFusion and from a command line. The part of it
that is hard to get right and hard to test is how one scan is run: files are
read concurrently under two limits, results come back in planned order through
bounded channels, and any of the participants may fail, panic, be cancelled or
be dropped at any moment. Below it, reads of one store share a request budget
and measure themselves, and range tasks of one file share what they load about
it. Beside it are the decisions on which the answer rests: which file goes to
which partition, which bytes are read, which row groups and rows may be left
out. Above it, Python threads pull, close and release one stream while logging
runs their code, and the command line must be interruptible at any moment and
yet tell the truth about the files it leaves. These TLA+ modules model those parts; TLC checks them on
small instances, and TLAPS proves every safety property they check, the pure
decisions included, and that a scan implements the merger it is built on, for every
plan, every table and every legal option value.

Paths below are relative to `src/crates/delta-arrow-reader-core/src/` unless
they start with `cli/` or `python/` (the crates of those names).

## Inventory

| Part | State it keeps | Operations | What makes it correct |
|---|---|---|---|
| Scan limits and options (`reader/options.rs`, `ScanReadLimiter`, `PartitionReadLimiter`) | two FIFO semaphores per partition: the scan's and the partition's | acquire both permits in a fixed order, release by drop; the merger calls `add_permits` when it tops a partition up | never more reads than either documented limit; a read holds its permits until it really stops |
| Cancellation (`ScanCancellation`) | an atomic flag, a `Notify` | `cancel` (swap, wake), `cancelled` (look, register, look again, sleep) | one first canceller; no sleeper misses the wakeup |
| Partition stream (`PartitionStream`) | `NotStarted`, `Running`, `Finishing`, `Done`; receiver, join handle | `start`, `poll_next`, drop | a panic is an error and never the end of the data; drop stops the producer |
| Ordered merger (`OrderedPartitionStream`) | queue of partitions, reservation of each, free slots, number admitted, completion channel | `poll_next`: `admit_partitions`, `reclaim_completed`, poll the front, pop it | reservations are conserved; the front partition can always read; items in planned order; one error |
| Producer task (`run_partition`, `FileScheduler`) | task queue, futures in flight, ready files, current file | schedule, take, drain, send, report the first error | files in order, earlier file gets permits first, no error lost |
| Delta Kernel file (`reader/backend/kernel_reader.rs`) | a blocking thread, its channel and its permits | read, send, notice cancellation, return | stops after its stream is dropped and gives its slots back |
| Direct Parquet file (`reader/backend/direct_parquet.rs`) | an opened file stream | admit, open, next batch | cancellation is not end of file |
| Batch stream (`reader.rs`, `DeltaBatchStream`) | merger, rows remaining, outcome | `poll_next`, predicate and projection, row limit, finish, drop | exact limit; an outcome is recorded once; truncated scans never look complete |
| DataFusion adapter (`reader/datafusion/`) | one independent partition stream per plan partition, one shared limiter | `execute`, poll, drop, dynamic pruning at admission | complete partitions, local failures, shared progress |
| Opening a file (`.../direct_parquet.rs`, `metadata_cache.rs`, `reader/deletion_vector.rs`) | a `OnceCell` of metadata for each file; a weak reference to its deleted rows under a lock | get or load, load on a blocking thread, cancel, drop | one load at a time; a failed or dropped load can be repeated; tasks that overlap share one copy |
| Network warmup (`.../network_profile/warmup.rs`) | pending and running marks, a published profile, a `Notify` | recover, publish, wait | one warmup per table; peers never wait for a cancelled one; a scan that waits for it uses its result |
| Metered store and range planning (`.../metered_object_store.rs`, `range_planning.rs`, `cost_model/`) | the request budget shared by the reads of a scan | `get_ranges`, partial plans, `get_opts` | the requested bytes in the requested order; the budget is returned |
| Read activity (`.../network_profile.rs`) | number of active reads, an epoch | start, judge, end a read | a sample that counts as isolated was taken alone |
| Scan planning (`reader/planning.rs`, `reader/datafusion/planning.rs`, `execution.rs`) | none (pure) | target, grouping, splitting, filter pushdown | the tasks of a file tile it; no filter is lost |
| Pruning and deletion vectors (`.../row_group_pruning.rs`, `reader/deletion_vector.rs`) | a position in the file | select row groups, mask rows | every live row that passes, exactly once |
| Snapshots and catalogs (`delta/`, `reader/catalog.rs`) | a snapshot value | load, refresh | delegated to Delta Kernel |
| Command line (`cli/`) | temporary and persisted artifact files, a worker, cached credentials | query, read, publish | no half-published artifact; no expired credential |
| Python (`python/`) | a stream that is open, exported or closed; its owners; the interpreter lock | pull, export, close, release, interrupt, register, log | the reader is destroyed once and never under a callback; no call is stuck on another |

How they interact. The batch stream and DataFusion *call* the partition
streams (poll); a partition stream *spawns* one producer task and shares a
bounded channel with it; producers share the two semaphores and the cancellation
flag; each producer of an ordered scan *sends a completion* to the merger when
its task ends, by a destructor; a Delta Kernel file adds a blocking thread and
a second bounded channel. All reads of a scan share one request budget and, with
the other scans of a store, one read activity; range tasks of a file share its
metadata cell and its deleted rows. A pull from Python gives the interpreter lock
up while it waits, and a tracing event takes it again, on whatever thread, to run a
logging handler. Nothing is persisted by the reader itself.

The hard behaviours, with their lines, are the `hazards` of `PROJECT.json`:
double or leaked reservations, completions that arrive after their partition was
popped, permits held by backpressured later partitions, several simultaneous
failures, panics that look like ends, the race between `cancel` and
`cancelled`, blocking reads that outlive their producer, siblings that share
a limiter but not a cancellation, futures dropped between a permit and its use, a
read that starts and ends inside another's measurement, statistics that do not
bound what they summarise (NaN, NULL, casts that overflow), a release from the very
handler that a running callback caused.

## Modules

| Module | Models | Built from |
|---|---|---|
| `PartitionStreams` | limits, flag, consumer side of a partition stream | |
| `OrderedPartitionStream` | the merger with the most general producers (an abstract specification) | `PartitionStreams` |
| `FileProducers` | `run_partition` and everything under it, both backends | `PartitionStreams`, `WaitQueues` |
| `ScanContract` | what a batch stream promises its caller (an abstract specification) | |
| `OrderedScan` | a scan of the Rust and Python API: batch stream, merger, real producers | `OrderedPartitionStream`, `FileProducers`, `ScanContract` |
| `DataFusionPartitions` | the partitions DataFusion executes | `FileProducers` |
| `ScanCancellation` | `cancel` and `cancelled`, one atomic access per step | |
| `WarmupRecovery` | the deferred network warmup that the scans of a table share | |
| `ReadActivity` | active reads, the epoch, the question `can_sample` (an abstract specification) | |
| `Ordering` | sorting a finite set and adding a list up: operators | |
| `RangePlanning` | merging ranges, candidate plans, costs, slicing: operators | `Ordering` |
| `RangeReads` | `get_ranges` and `get_opts` of the metered store | `RangePlanning`, `ReadActivity`, `WaitQueues` |
| `FileOpening` | range tasks open one file: metadata cell and deletion vector | `WaitQueues` |
| `FileGrouping`, `RowGroupPruning`, `DeletionVectors` | partition target and grouping; ranges and statistics of row groups; masks: operators | `Ordering` |
| `FileRows` | from the files of a table to the rows of a query | the three above |
| `PythonStream` | a Python stream, its exported form, the interpreter lock, logging handlers | |
| `TableCommand` | a command of the CLI: supervisor, worker, publication, terminal record | |
| `CredentialCache` | the temporary credentials that the reads of a table share | |
| `WaitQueues` | the wait queue of a tokio semaphore, mutex or `OnceCell`: operators | |
| `SequenceLemmas` | lemmas: induction over an interval, least and greatest members, recursions and folds, sorting, sums, wait queues | `Ordering`, `WaitQueues` |
| `OrderedPartitionStreamProofs` | theorems about the merger | `OrderedPartitionStream` |
| `ScanProofs` | theorems about the cancellation flag, a scan and DataFusion's partitions | `OrderedScan`, `DataFusionPartitions`, `ScanCancellation`, the two above |
| `DirectParquetProofs` | theorems about range planning, range reads, read activity and the opening of files | `RangeReads`, `FileOpening`, `SequenceLemmas` |
| `FileRowsProofs` | theorems about planning, pruning and deletion vectors | `FileRows`, `SequenceLemmas` |
| `WarmupRecoveryProofs`, `PythonStreamProofs` | theorems about the module of that name | that module |
| `CommandLineProofs` | theorems about a command and its credentials | `TableCommand`, `CredentialCache` |
| `MC...` | plans, workloads and inputs for TLC | |

Correspondence with the code (the exact lines of every definition are under
`map` in `PROJECT.json`):

- A *plan* is `FileTasks`: for each partition the sequence of its files, each
  a number of batches. A batch is the pair (file, position). What is decoded is
  not modelled; whether, when and in which order it is handed over is.
- `state`, `task`, `out`, `permits`, `cancelled` are the enum of a
  `PartitionStream`, the life of its tokio task, its output channel, the
  permits added to its semaphore, and the flag its cancellation shares. `task`
  separates *closing* or *unwinding* (the future is done, its destructors have
  not all run) from *exited* or *panicked* (joinable), because the completion
  is sent by a destructor in between.
- `poll_next` of the merger is not atomic with respect to the producers, so it
  is cut at the points where they can be observed: the program counter `pc` is
  *admit* (`admit_partitions`), *reclaim* (`reclaim_completed`),
  *front* (the poll of the first partition), *pending*, *idle* (a value was
  returned), *ended*, and *cleared* (finished or dropped by the batch stream).
- A tokio semaphore is FIFO and hands a released permit to the longest
  waiter, also before that waiter runs again. It is therefore the sequence of
  its claimants, the first `capacity` of which hold a permit (`WaitQueues`).
  Those who drop a permit, or the future that waits for one, leave the sequence
  wherever they are in it, and the others close ranks.
- In `FileProducers`, `fut[p][i]` follows the future `schedule_next` returns
  for a file and then the stream it yields; `inFlight`, `ready` and `current`
  are the fields of the scheduler and the drain. `thread[p][i]` is the blocking
  thread of a Delta Kernel file. `biased` selects of the code fix the order of
  the guards, but only at the instant of the look: a flag that is set between
  the look and the next branch of the same poll is a separate step here.
- `scope` is the set of partitions that share one cancellation: all of them in
  an ordered scan, only itself in DataFusion.
- In `WarmupRecovery` each scan that is being planned has a program counter.
  `Recovering` is the guard of the code: `DeltaScanBuilder::build` and
  `prepare_scan` turn to the deferred warmup only for a scan with a row predicate,
  a limit other than zero and partitions to read (`Filtered`), and the warmup
  turns away options it does not support (`Supported`). The other scans plan at
  once, with the profile they find.
  Steps under the recovery lock are single actions; `try_lock` of the DataFusion
  adapter may also answer by contention. A planning future can be dropped where
  it awaits, and the destructor of the attempt then runs in two steps.
- In `RangeReads` each call of the store has a `phase`. A request of a plan is
  polled for the first time in order, asks with `try_acquire`, and only if that
  is refused waits with `acquire`: two steps, because others run in between. The
  request budget is again the sequence of its claims. All strategies are there,
  those that delegate to the wrapped store and the partial plan of the page
  reader included. A call can be dropped wherever it awaits; its permits and
  claims then go with it. The byte at an offset of the object is that offset, so
  a wrong slice is a wrong value.
- In `ReadActivity`, `activeReads`, `readEpoch` and `isolatedEpoch` are the
  fields of the code (under one mutex, so an operation is one step); `live` and
  `met` are history variables that say who really moved bytes at the same time.
- In `FileOpening`, a `OnceCell` and a tokio mutex are the sequences of the tasks
  at them; the first runs the initialiser or holds the lock. `cachedRows` is a
  weak reference: it is good for as long as some task holds the rows. The blocking
  load of a deletion vector goes on when its task is dropped.
- In `FileRows` an input is a record of everything a scan is given: files with
  row groups, values, statistics, deletion vector and partition value; options;
  filters as the pushdown classified them. Tasks are read one after another,
  since the interleaving of files is the subject of `FileProducers`; when the
  dynamic filter of a join is published, and which rows and groups Delta Kernel
  leaves out of its own accord, is open. In `RowGroupPruning` values are
  ordered numbers with NULL and a NaN of either sign; a temporal column also has values whose
  cast to the logical type overflows to NULL.
- In `PythonStream` each Python thread and each runtime worker has a program
  counter; a step needs the interpreter lock exactly where the code holds it.
  The reference count of the exported reader is the set of its owners. A pull
  waits in slices of 100 ms and looks for signals between two. A handler takes
  the lock, may lose it to another thread, may release the stream and may end in
  a control-flow exception.
- In `TableCommand`, `supervisor` and `worker` are the program counters of
  `run_table_command` and `worker::run`; `aborted` and `started` are the two
  atomics they share. A `biased` select is a set of actions whose guards exclude
  the arms polled earlier. The worker takes steps until the process exits, also
  after the supervisor has given up on it. `file` is what is at the two
  destinations: nothing, ours, or a file of another process.
- In `CredentialCache`, `now` is the true time and the monotonic clock, `skew`
  the error of the wall clock. A cached grant remembers when, and under which
  error, it was accepted; only the properties look at that. The `tokio` mutex is
  the sequence of the reads at it, its holder first. `cancelRequested` is the
  process-wide cancellation signal: once the command stops, a renewal is killed
  and its future never completes, so the read that asked keeps the lock until the
  worker drops it.
- Definitions placed before an operator they resemble (`EnterAdmitNoTopUp`
  before `EnterAdmit`, say) are plausible mistakes in it. They are used by no
  specification; each shows that some checked property notices the mistake.

## What TLC checks

| Run | Instance | Question |
|---|---|---|
| `scan_direct` | 3 partitions of 1, 2, 1 files, one of 2 batches; 2 slots, 2 per partition, prefetch 1; any file may fail, any producer panic, projection fail, the caller drop | does a whole Direct scan implement the merger and the contract, use its slots, and end |
| `scan_kernel` | files of 2 and of 1, 1 batches; 1 slot; row limit 2 with batches of up to 2 rows | with blocking threads: are the limits kept, and do the slots come back after any end |
| `datafusion` | the same files, 1 slot for 2 partitions, skips, a failure, a panic, a drop | complete partitions, local failures; neither a read left behind nor a partition that was never polled stalls a sibling |
| `cancellation` | 3 waiters, 2 cancellers | does every wait return |
| `warmup` | 5 scans: 3 that recover the warmup (one planned by DataFusion), one whose options do not support it, one without a predicate | no stale profile where the code waits for it, and does every planning end |
| `range_reads` | 2 plans and a plain GET, one plan for a warmup; 2 shared requests; every strategy | are the right bytes returned, are samples taken alone, does anything leak or wait for ever |
| `file_opening` | 3 range tasks of one file with a deletion vector; two may fail, all may be cancelled or dropped | do the tasks share loads and survive those of others |
| `file_rows` | about ten thousand small tables, queries and options | does the query get its rows, once each |
| `python_stream` | 2 Python threads, 1 worker, 1 batch, 3 calls, 1 handler | is the reader destroyed once, is a failure never an end, does every call return |
| `table_command` | with and without artifact, manifest and JSON records; signal, deadline, closed stdout, foreign files | is the report true of the files that are left, and does the process end |
| `credentials` | 3 reads, 5 instants, a wall clock off by -12, 0, 12, grants for 1 and 12, the command stopping at any moment | are credentials valid when handed out, is a failure final, does every read return while the command goes on |
| `kernel_metrics` | as `scan_kernel` with 2 slots, no panics, no limit | expected violation, see *Finding* |

The bounds are named constants. The demand of every instance exceeds its
capacity, because all scheduling decisions are about shortage: the last
admitted partition is only partly reserved and is topped up later, a slot is
reclaimed from a partition behind the front, and a producer is blocked on a full
channel (one batch) while another needs a permit. Two partitions are enough
for a failure to race another; the third makes the window slide. Files have one
or two batches, enough to be interrupted between two. The only counters that are
cut off are the calls and the handlers of `PythonStream` (`MaxCalls`,
`MaxHandlers`): three calls let one thread pull, another close or release, and a
third call find what they left, with a handler at any point of them. In
`range_reads` the two plans have up to four requests for two permits, so that
requests are refused, wait and overtake. The requested ranges are unsorted, nested,
overlapping, duplicate or distant. In `file_rows`, sizes are chosen around the
divisors of the target, statistics are absent, partial or full with values on
both sides of the literal, and deletion vectors end before, at and after row-group
and file boundaries. `MaxPermits` only matters where a
derived capacity is clamped to it. `TableCommand` has no bounds at all. In
`CredentialCache` the instants stand for "before", "at" and "after" the deadline
of either grant, and the clock's error is as large as the longer lifetime, so
that it can hide an expiry or make one up.

The properties, by concern:

- **Slots.** `ScanPermitsSuffice`: reads of live producers and free slots fit
  the capacity, which is why an admitted partition never waits for a later one.
  `SlotsInUse`: no slot idles while a queued partition could use it.
  `ReadLimits`: both documented limits, for abandoned blocking reads too.
  `NothingLeaks`: failed and dropped range plans return the request budget.
- **Order.** `EarlierFileReadsFirst`: prefetching never lets a later file read
  while an earlier one still waits for a permit. `RequestedBytesReturned`: range
  plans answer in the order of the request, in whichever order requests complete.
- **Failure.** `PartitionComplete`: an end without an error means every batch was
  delivered; `FailuresStayLocal`; `CompletedMeansRead`: completion counters;
  `CorruptionReported`: a deletion vector that names rows past the end of
  its file stops a kernel read, and nothing sound is refused.
  `FailureNeverLooksLikeEnd`: after a failed or interrupted pull no call of
  Python reports the end of the stream.
- **Rows.** `RowsReturnedOnce`: whatever is grouped, split, pruned, masked and
  filtered where, the query has each live row that passes its filters once.
  `PlanTilesFiles`: tasks tile their files, within the target, in balance.
  `LimitRespected`: no row too many, `RowLimit` exactly at the limit.
- **Sharing.** `OneCopyOfRows` and `RepeatedLoadsExplained`: what is loaded
  about a file is shared and loaded again only after a failed, cancelled or dropped
  task. `ReaderDestroyedOnce`: not under a callback, not while the slot
  offers it, and by the time the calls on a released stream are over.
- **Measurement.** `SamplesIsolated`: a timing that counts as isolated overlapped
  no other read, not even one that came and went; `RecordedUncontended`: a plan
  that queued for the budget leaves no sample. `ProfileCurrent`: a scan
  that recovers the warmup never keeps a profile that the warmup replaces. It
  is not claimed of the others, which do not wait.
- **Progress.** `ScanEnds`, `SlotsComeBack`, `SiblingsProgress`,
  `EveryWaitReturns`, `PlanningEnds`, `PlansEnd`, `OpensEnd`, `CallsReturn` (no
  deadlock of the interpreter lock with the catalog's lock, the native stream or
  a handler), `Interruptible`, `EveryReadReturns`.
- **Publication.** `ReportTellsPublication`: a plain cancellation, deadline or
  failure leaves no file behind, not even by a worker that is still running;
  `SuccessIsComplete`, `ManifestVouches`, `NeverReplaced`, `OneTerminalRecord`;
  `Interruptible`: a signal or the deadline ends the process whatever blocks
  the worker.
- **Credentials.** `HandedValid`: valid by the wall clock, and in truth if that
  clock was right when the grant came, however it is set later; `FailureFinal`,
  `Coalesced`. `EveryReadReturns` is about reads while the command goes on:
  after `cancel_pending_requests` a renewal never answers, by design (the supervisor
  reports the cancellation, and no read failure is made up), and the reads behind it
  end with the worker; that the process ends all the same is `Interruptible`.

Refinement. Three specifications are abstract, and the detailed ones are shown to
implement them:

- `ImplementsOrderedMerger`: the scan with the real producers implements the
  merger with the most general ones. The variables have the same names, so the
  mapping is the identity on them and hides the rest. Every theorem about the
  merger therefore holds of the scan.
- `ImplementsScanContract` (proved): the scan implements `ScanContract`, under the mapping
  of the delivered batches and of the outcome of the batch stream. The
  contract had to be weaker than "a prefix of the plan, then an error": when a later
  partition fails, the shared cancellation cuts earlier partitions short, and
  batches of later ones that are queued already are still returned before the
  error. What the contract promises is planned order, one reason for
  stopping, and that the *end* is never reported with a gap.
- `ReadsImplementActivity` (proved): the reads of `RangeReads` implement
  `ReadActivity`, so what is proved of the counter holds of them.

Deadlock is checked in the modules of the scan and of its reads: a terminated
system stutters by an action of its own (`Finished`, `ScanFinished`, `AllFinished` and
their like), any other state without a successor is an error. In a scan this check is
weak, because a producer that may panic has a step left wherever it is stuck. What
a stuck producer violates is `ScanEnds`, `SlotsComeBack` or `SiblingsProgress`,
whose fairness owes it no panic. The deadlock check is left out of
`table_command`, whose process exits, of `credentials`, where time ends, and of
`python_stream`, where the number of calls is bounded; `CallsReturn` is the property
there.

Fairness, and why the code has it. Weak fairness of: the caller's steps (a
caller that awaits the stream polls it whenever it is woken; `ScanEnds` is about
such a caller); each producer task (tokio polls a woken task again and file I/O
completes or fails), its panics excepted; each range plan and each open of a file that is polled (a
request completes or fails, a blocking load ends); each planning that was begun (its attempt is bounded by a
timeout); each blocking thread (the OS runs it); the exit of a task; the supervisor's
way out (its timers fire, and its report has a timeout), but no step of the
worker, of stdout or of stderr, each of which may block for ever; the holder of
the credential lock and the renewal (`DATABRICKS_COMMAND_TIMEOUT` bounds it) as
long as the command is not being stopped. Strong
fairness of the threads and handlers of Python: each asks again and again for an
interpreter lock that others take and give up, and the interpreter forces a switch in
favour of a thread that waits. A Python handler is taken to return; a batch
source may stall for ever, and a pull from it is then ended by a signal only.
Steps of a producer are not made fair one by one, only together, so a property
may not rely on a particular branch being taken. A panic, a drop and a
cancellation are steps of the specification but in no fair action (`ProducerProgress`
and `DFProducerProgress` are the steps of a producer without its panics), so a
producer that waits for a permit or for room in its channel must be let on by the
others. A failure of a file, of a projection or of a request is one way on
among others: wherever it is possible, so is success, and neither is forced. In
DataFusion an operator keeps polling a partition it has polled once, and need not
begin any (`PollStep` is fair, `FirstPoll` is not): with an explicit scan limit
smaller than the number of partitions, an operator that stops polling a partition it
began can hold that partition's permits for ever, and `SiblingsProgress` says nothing
of such a plan.

### Finding

`kernel_metrics` exhibits a disagreement between the documentation of a metric
and the code. The reader thread of a Delta Kernel file returns `Ok(())` when it
notices a cancellation, and its stream then ends like an exhausted one. If the
flag is set after `drain_current_file` looked at it and before the same poll
reaches the stream, the drain counts as completed and the truncated file is added
to a counter documented as "completed normally". No data is affected:
the end of a scan that was cut short is never reported as complete
(`ImplementsScanContract` in `scan_direct`, `PartitionComplete` in `datafusion`
with kernel reads). The Direct reader distinguishes the two cases, and
`CompletedMeansRead` holds in `scan_direct`.

## What is proved

The theorems about a scan are for every plan (`PlanAssumption`: any finite sequence of
finite sequences of files), every option value the builder accepts
(`OptionsAssumption`: capacities between one and `MAX_PERMITS`), both backends
and any set of files that may fail. `ItemAssumption` says that an error item
is no batch, `LimitAssumption` that a row limit is a natural number and "no limit" is not.

Some theorems have a hypothesis. `AllAdmitted`, in the theorems about an ordered
scan, is that no file is skipped: `into_stream` admits every file, and only DataFusion's
admission policy may refuse one. `Backend = "Direct"`, in the theorems about the
completion counters, is necessary: see *Finding*. The theorems about reads and rows
rest on what their inputs are. `WorkloadsAssumption`: a requested range does not end
before it starts, and a delay estimate, if any, is a natural number.
`InputsAssumption`: the first page of a row group lies in its file; a footer's
statistics are missing or true, where bounds may leave NaNs out; a deletion vector
is a finite set of positions, inside the file or not; resource costs that a limit is
divided by are positive, as the options are documented and validated.

### Induction over data

The library's induction theorems take an operator as a parameter, which the installed
provers cannot instantiate. `SequenceLemmas` states what is needed about *sets*
instead: `NatSetInduction` (a set that contains 0, and `n + 1` with every `n`, contains
every natural number), and from it `IntervalInduction`, that the recursion equations of
a function on an interval have a solution (`RecursionExists`), that a fold over a
sequence is the last element of its run (`FoldExists`, `FoldRuns`), that sorting
numbers the members of a finite set in order (`RanksNumber`, `SortedIs`,
`AscendingIs`), and that prefix sums grow and locate every position (`SumRun`,
`PrefixSums`, `PrefixLocates`). A proof about a fold names its run, takes the set of the
steps at which the claim holds, and shows that it is closed under one more step.

### The merger (`OrderedPartitionStreamProofs`)

- `TypeCorrect`, `ReservationsNeverLeak`, `ReadsFitCapacity` and
  `PolledPartitionAdmitted` prove `TypeOK`, `ReservationsConserved`,
  `ScanPermitsSuffice` and `FrontAdmitted`. All four follow from
  `ReservationInvariant`, that `ReservationInv` is invariant.
- None of the four is inductive alone. That popping a partition returns the
  right number of slots needs that reservations of partitions beyond the window
  are zero; that a completion may zero a reservation needs that its sender is
  gone; that a read fits needs that a live producer's permits equal its
  reservation. `ReservationInv` is therefore the conjunction of `WindowInv`
  (the admitted partitions are a prefix of the queue and the pass over them is
  at one of two places), `LifecycleInv` (which states a partition can be in
  before, inside and after the window, and that a completion comes only from a
  finished producer), `CoverageInv` (reservation, permits, reads and the maximum
  of one partition) and `CapacityInv` (the sum).
- Sums are cardinalities of sets of slots (`Slots`), so that moving one slot is
  adding or removing the elements of one partition; the lemmas at the head of
  the module are about those sets, and each action has its own lemma, with one
  step for each conjunct that it can disturb.
- `SlotsAreInUse` proves `SlotsInUse`. `UseInv` adds that only the last admitted
  partition may be short of slots, and has been offered what there is once the
  admission pass is behind it. A scan in which everything fits needs an argument of
  its own: its partitions are all settled by the first admission and no pass follows.
- `DeliveryInvariant`: `DeliveryInv` is about what reaches the caller. `OrderInv`: what
  was delivered, followed by what waits in the channels, is planned and in planned
  order, and nothing of it is later than the last batch sent. `CompleteInv`: a
  batch that was sent is delivered or in its channel, and a partition that ended
  without having been cancelled has sent everything. `ErrorInv`: if the scan is
  cancelled while its streams are polled, an error was delivered, or is in the
  channel of a partition that is still queued, or about to be put there.

### A scan with its producers (`ScanProofs`)

- `ScanIsOrderedMerger` proves `ImplementsOrderedMerger`: the initial states are
  those of the merger, and every step of batch stream, producers and blocking
  threads is a step of the merger with the most general producers, or leaves its
  variables alone. A step of a producer is allowed there only if it
  reads within its permits, sends the next batch in planned order, or ends for
  one of the reasons the merger relies on; so the proof needs to know that the
  pipeline under it keeps the order and loses no file.
- That is `SchedulingInv`. `FutureInv`, `GrantInv` and `QueueOrderInv` are about
  permits: a file that reads is among the first `capacity` of both queues, and the
  files of a partition are in the scan's queue in their own order. They hold
  although claimants leave a queue from anywhere in it, which is what the
  lemmas of `SequenceLemmas` are for. `PipelineOK` says that the futures in
  flight, the files parked behind the current one and the current file are
  consecutive pieces of the plan; `ReadOK` that a file's batches are read once it is
  current, and all of them unless it was cancelled; `SentOK` that what is left to
  send comes after what was sent; `CountOK` that a live partition counts the
  files that hold a permit.
- `ScanInvariant`: `ScanInv` is `SchedulingInv`, the types of the channels, the
  merger's `ReservationInv`, and `IssuedInv`, that a partition was issued no more
  permits than it can use. Neither side is inductive alone: the merger's part
  uses that the step is one of its own, the producers' part that the merger
  starts a partition once and only ever adds permits (`MergerIsStreamStep`).
- From it: `ScanReadLimits` (`ReadLimits`), `ScanReadOrder`
  (`EarlierFileReadsFirst`), and by the refinement `ScanKeepsMergerPromises`: the
  four promises of the merger with the real producers.
- `ScanKeepsContract` proves `ImplementsScanContract`: every step of a scan is a
  step of `ScanContract`, or leaves what the caller holds as it is. `DeliveryInv`
  comes from the merger by the refinement; `HandledInv` adds that `poll_next` has dealt
  with every item but the one the merger returned last, that an open stream has
  dealt with no error, and that the merger ends after its last partition. Together
  they give the case that matters, `ReturnEnd`: no error was delivered and no
  partition is queued, so by `ErrorInv` nothing was cancelled, and by `CompleteInv`
  everything planned was delivered. It follows that an ordered scan whose merger
  ended never reports `Cancelled`, although `poll_next` has that case.
- `LimitIsRespected` (`LimitRespected`) from `LimitInv`, that an open stream has
  rows left to return.
- `ScanCompletedMeansRead` (`CompletedMeansRead`) from `CompletedInv`, that a
  counted file is past its drain.
- `OneFirstCanceller` and `WakeupsNotLost` from `CancellationInvariant`, for any
  number of waiters and cancellers. The inductive part is that a waiter that
  is registered and unsignalled while the flag is set is covered by a canceller
  that has yet to wake the waiters.

### DataFusion's partitions (`ScanProofs`)

- `DataFusionScheduling`: the producers' invariant holds here too, with the
  partition's whole limit as permits. The lemmas about one step of a producer are
  stated for any consumer (`StreamStep` describes what a consumer may do), so that they
  are shared with the ordered scan. From it `DataFusionReadLimits` and
  `DataFusionReadOrder`; `DataFusionCompletedMeansRead` as above.
- `DataFusionStreams`: `PolledInv` (why a partition that is still polled may be
  cancelled: by its own error, which is on its way). `FailuresAreLocal`
  (`FailuresStayLocal`) follows.
- `PartitionsAreComplete` (`PartitionComplete`). `ArrivalInv` is about what an
  operator got together with what is in its channel: it is in planned order,
  nothing up to the last batch sent is missing, an error is the last item, and a
  producer that returned without one has sent everything. `SentOK` connects this to the
  files.

### The other parts

`WarmupRecoveryProofs`: `OneWarmupAttempt`, `PeersWoken` and
`ScansUseCurrentProfile` from `RecoveryInvariant`, for any set of scans
(`ScansAssumption` only says that those which support a warmup, are filtered or belong
to DataFusion are among them). `ProfileCurrent` is not inductive alone: a scan may keep its profile
only because no attempt is pending or running once a recovering scan goes on,
which `RecoveryInv` adds.

`DirectParquetProofs`, for any reads, workloads and budget:

- `SamplesAreIsolated` of the abstract `ActivitySpec`, `ReadsImplementActivity`,
  and from the two `PlanSamplesIsolated`. `SamplesIsolated` is not inductive: that
  the epoch is unchanged says something only because every start changes it and
  because the counter counts the holders, so `ActivityInv` adds that a read which
  carries the current epoch was the last to start, started alone and has met nobody.
- `SamplesUncontended` proves `RecordedUncontended`. `SampleInv` adds that a request
  which waits for the budget was refused before, and that a plan with a refused
  request records nothing.
- `BudgetComesBack` proves `NothingLeaks`. `LeakInv` adds that only calls under way
  claim permits, or are about to: a request between its refused `try_acquire`
  and its `acquire` must not appear in the queue after its call was dropped.
- `PlannersCover` proves of every well-formed call what `merge_ranges` documents
  ("sorted, non-overlapping physical reads"): under each strategy the physical ranges
  are valid, sorted and apart, and each requested range is inside one of them. After
  `k` rounds of `merge_ranges` the plan so far is valid, apart and covers the first
  `k` ranges by start, and its last range ends with the furthest of them
  (`MergeCovers`); closing a gap keeps that (`JoinCovers`), hence it holds of every
  candidate that `merge_smallest_gaps` makes (`CandidatesCover`), and a choice
  by cost, or under a bound on the requests, is a choice among such plans
  (`ChosenCovers`, `BoundedCovers`).
- `BytesAreReturned` proves `RequestedBytesReturned` from it. `RequestInv`
  adds that a started request is in exactly one place (refused, claiming a
  permit, or completed), so that a plan with as many buffers as ranges has one of
  each. Sorting them by index then puts them in the order of the plan
  (`AllSorted`, by counting), the search for the last physical range that
  starts no later finds the one that holds the request (`SliceOfOne`), and the
  cut gives its bytes (`CutBytes`).
- For any tasks and files, `RowsAreShared` proves `OneCopyOfRows` and
  `LoadsAreShared` proves `RepeatedLoadsExplained`. `RowsInv`: rows that are held are
  those the weak reference names, and a task loads only with the lock and while
  nobody holds rows. `LoadInv`: every load but one belongs to a task that gave up,
  and that one is running or has filled the cell.

`PythonStreamProofs`, for any Python threads, workers, batches and bounds on
calls and handlers: `PythonStreamTypes`; `ReaderIsDestroyedOnce`
(`ReaderDestroyedOnce`) from `OwnerInv`, which says who owns the reader (first the
slot, then the exported structure and the callbacks under way, then nobody);
`FailuresAreKept` (`FailureNeverLooksLikeEnd`) from `PullInv`: one pull at a time,
and until an error is kept every batch is still in the source, in flight or delivered.

`CommandLineProofs`, of a command: `ReportIsTrue`, `SuccessMeansComplete`,
`ManifestFollowsResult`, `TerminalRecordIsTrue` and `DestinationsKept` from
`CommandInvariant`. The argument for the first: `publication_started` is stored
before the abort flag is looked at, and the flag is set before
`publication_started` is loaded. If the load finds false, the worker has yet to
look and will find the flag. `WorkerInv` says what is published at each place
of the worker, and `SupervisorInv` what the supervisor may still be wrong about.

`CommandLineProofs`, of the credentials: `CredentialsValid`, `FailureIsFinal`,
`RenewalsCoalesce` and `CredentialKindKept` from `CacheInvariant`, for any set of
reads, any instants, any clock errors and any lifetimes (`CacheAssumption`).
`CachedInv` relates the two clocks: the monotonic deadline is no later than an
expiry that was measured right. `RenewalInv` ties a renewal to the holder of the
lock, which is why a failure cannot be overtaken by one.

### From files to rows (`FileRowsProofs`)

For every table, query and option of `InputsAssumption` and both backends:

- `PlanTilesFilesHolds` (`PlanTilesFiles`) from `PlanInv`: the partitions are what
  grouping, or grouping and then repartitioning, computes from the input. The
  rest is about those functions. Grouping puts each file in one partition, never
  leaves one empty, and hands a file to a least loaded partition, so the loads differ
  by at most one file. Repartitioning cuts the bytes laid end to end
  at multiples of one width: a prefix sum says where a file lies in them, the cuts
  inside it are consecutive, so its ranges tile it.
- `RowsReturnedOnceHolds` (`RowsReturnedOnce`) and `CorruptionReportedHolds`
  (`CorruptionReported`) from `FileRowsInvHolds`. Neither property is inductive: it
  speaks of the end of a scan only. `FileRowsInv` says for each row at each moment
  (`RowOK`) that it was returned at most once, and only if wanted and read by an
  admitted task, and that a wanted row which no admitted task has in hand any more was
  returned. `OpenOK`: the open file is that of the task admitted last, its rows are
  ascending, are that task's and pass the exact filters. `MaskerOK`: a masker that
  counts has the very rows in hand that follow its count, which is what the position
  in a batch has to mean for a deletion vector to delete the right rows.
  `BeyondOK`: a counted read never got past a file whose vector names rows beyond it.
- What the steps need: of the tasks that tile a file exactly one owns the first page of
  a row group; a row group that is pruned has no row that satisfies the predicate
  (for each operation, from truthful statistics, with NULLs, with NaNs outside the
  bounds, and with casts that overflow to NULL, where nothing may be concluded);
  and the mask of a batch, by position or by count, keeps exactly its live rows.

The inductive invariants hold in every state of the runs as well; they were
checked there before they were proved, and are left out of the configurations now
that they are theorems, as are the type invariants they contain and the
consequences `ReservationsConserved`, `FrontAdmitted`, `OneFirst`, `NoLostWakeup`,
`OneAttempt` and `NoStrandedScan`.

### Only model-checked

Every liveness property: `ScanEnds`, `SlotsComeBack`, `SiblingsProgress`,
`EveryWaitReturns`, `PlanningEnds`, `PlansEnd`, `OpensEnd`, `CallsReturn`,
`Interruptible`, `EveryReadReturns`. Fairness and `ENABLED` are outside the
prover's reach. Every invariant, action property and refinement that a passing run
checks is also a theorem.

TLC still evaluates the promise of the range planners for every list of up to three
ranges with ends from 0 to 4, under each strategy (`SmallPlansCover`): the
statement was checked that way before it was proved.

## What is not modelled, and why

- *Conversions without state*: decoding, schema alignment, predicate and expression
  translation, JSON rendering, argument parsing, and the option, filter, error
  and diagnostic conversions of the Python package. Most of the lines of
  the repository are these, and its tests; a model of them would restate
  them.
- *Page selection* (`intra_page.rs`): which pages of a column chunk are
  fetched. Its requests go through the partial plans that are modelled; its
  own choice is a long pure function over Parquet page indexes.
- *Numerical estimates*: the network profile computed from samples, the calibration
  of the cost model, statistics for the optimizer. Which samples get in is
  modelled; the cost of a plan is, given an estimate.
- *Snapshots and catalogs*: calls into Delta Kernel that build a value.
- *Row writers and output limits of the command line*: only that they may fail or
  block is modelled.
- *Delta Kernel, object stores, DataFusion, tokio, the Python interpreter* are
  external and appear only through what the code relies on.
- *Metrics* other than the completion counters are independent saturating counters.
- *Release tooling, benchmarks, examples* are no part of the reader at run time.

Memory orderings are not modelled: the lock-free accesses are, in a scan, one
flag swapped with `AcqRel` and loaded with `Acquire`, and in the command line the
pair `publication_started` and the abort flag, taken as sequentially consistent: the
code orders them with release and acquire only, but the supervisor waits for the
worker in between. A worker thread of the command line that panics is not
modelled.

## Plan

Done: partition streams, merger, producers, batch stream and its contract,
DataFusion streams, cancellation, warmup, range reads and read activity, the opening
of files, planning, pruning and deletion vectors, the Python stream, table
command, credential cache; proofs of every safety property of these and of three
refinements.

Next, in this order:

1. Page selection against a reference definition.
2. The row writers of the command line and its output limits.
