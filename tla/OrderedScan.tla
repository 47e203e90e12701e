----------------------------- MODULE OrderedScan -----------------------------
(***************************************************************************)
(* A scan as the Rust and Python APIs run it: DeltaBatchStream (reader.rs) *)
(* over the ordered merger over the partition producers.  All partitions   *)
(* share one ScanCancellation.                                             *)
(***************************************************************************)
EXTENDS OrderedPartitionStream, FileProducers

CONSTANTS
    RowLimit,       \* DeltaScanBuilder::with_limit; NoLimit for None
    NoLimit,
    BatchRows,      \* rows of a physical batch
    MayFailFinalize,\* whether predicate evaluation or projection may fail
    MayDrop         \* whether the caller may drop the stream

\* into_stream with a limit of zero builds no partition stream at all.
ASSUME LimitAssumption ==
    /\ NoLimit \notin Nat
    /\ RowLimit = NoLimit \/ RowLimit \in Nat \ {0}
    /\ BatchRows \in Nat
    /\ MayFailFinalize \in BOOLEAN /\ MayDrop \in BOOLEAN

VARIABLES
    remaining,      \* rows the limit still allows
    outcome,        \* "open" until the stream is done, then why it ended
    rows,           \* rows returned to the caller (a history variable)
    handled         \* items of delivered that poll_next has dealt with

batchStreamVars == <<remaining, outcome, rows, handled>>
scanVars == <<vars, producerVars, batchStreamVars>>

ScanInit ==
    /\ Init
    /\ ProducerInit
    /\ remaining = RowLimit
    /\ outcome = "open"
    /\ rows = 0
    /\ handled = 0

-----------------------------------------------------------------------------
(* The merger's steps, while the batch stream is inside its poll.           *)

Idle == pc = "idle" /\ handled = Len(delivered) /\ outcome = "open"

\* DeltaBatchStream::poll_next polls the merger.
PollMerger ==
    /\ pc = "pending" \/ Idle
    /\ PollNext
    /\ UNCHANGED <<producerVars, batchStreamVars>>

MergerStep ==
    /\ \/ AdmitOne \/ AdmitDone \/ ReclaimOne \/ ReclaimDone \/ YieldItem
       \/ FrontClosed \/ YieldPanic \/ YieldPending \/ PopFront \/ YieldEnd
    /\ UNCHANGED <<producerVars, batchStreamVars>>

-----------------------------------------------------------------------------
(* DeltaBatchStream: what poll_next does with the merger's answer.          *)

HasItem == outcome = "open" /\ pc = "idle" /\ handled < Len(delivered)
Item == delivered[handled + 1]

\* finish(): done, and every partition stream is dropped.
Finish(why) ==
    /\ Clear
    /\ outcome' = why

ReturnBatchLate ==
    /\ HasItem /\ ~IsError(Item)
    /\ handled' = handled + 1
    /\ \E kept \in 0..BatchRows :
         IF remaining # NoLimit /\ kept > remaining
         THEN /\ rows' = rows + remaining
              /\ remaining' = 0
              /\ Finish("RowLimit")
         ELSE /\ rows' = rows + kept
              /\ remaining' = IF remaining = NoLimit THEN NoLimit ELSE remaining - kept
              /\ UNCHANGED <<vars, outcome>>
    /\ UNCHANGED producerVars

\* finalize_batch keeps any number of the rows; the limit slices them.
ReturnBatch ==
    /\ HasItem /\ ~IsError(Item)
    /\ handled' = handled + 1
    /\ \E kept \in 0..BatchRows :
         IF remaining # NoLimit /\ kept >= remaining
         THEN /\ rows' = rows + remaining
              /\ remaining' = 0
              /\ Finish("RowLimit")
         ELSE /\ rows' = rows + kept
              /\ remaining' = IF remaining = NoLimit THEN NoLimit ELSE remaining - kept
              /\ UNCHANGED <<vars, outcome>>
    /\ UNCHANGED producerVars

FinalizeFails ==
    /\ HasItem /\ ~IsError(Item) /\ MayFailFinalize
    /\ handled' = handled + 1
    /\ Finish("Failed")
    /\ UNCHANGED <<producerVars, remaining, rows>>

ReturnError ==
    /\ HasItem /\ IsError(Item)
    /\ handled' = handled + 1
    /\ Finish("Failed")
    /\ UNCHANGED <<producerVars, remaining, rows>>

\* The merger returned None; clear() finds no partition left.
ReturnEnd ==
    /\ outcome = "open" /\ pc = "ended"
    /\ outcome' = IF \E p \in Partitions : cancelled[p] THEN "Cancelled" ELSE "Eof"
    /\ UNCHANGED <<vars, producerVars, remaining, rows, handled>>

\* Drop for DeltaBatchStream, between two polls.
DropStream ==
    /\ MayDrop /\ (pc = "pending" \/ Idle)
    /\ outcome = "open"
    /\ Finish("Dropped")
    /\ UNCHANGED <<producerVars, remaining, rows, handled>>

-----------------------------------------------------------------------------
(* The producers' steps.                                                    *)

ProducerStep(p) ==
    /\ FileStep(p) \/ RunPartition(p, Partitions)
    /\ UNCHANGED <<mergerVars, batchStreamVars>>

\* What the scheduler owes a producer: its steps without the panics.
ProducerProgress(p) ==
    /\ FileStep(p) \/ PartitionProgress(p, Partitions)
    /\ UNCHANGED <<mergerVars, batchStreamVars>>

BlockingStep(p) ==
    /\ \E i \in Files(p) : ThreadStep(p, i)
    /\ UNCHANGED <<mergerVars, batchStreamVars>>

ExitStep(p) ==
    /\ Exit(p)
    /\ UNCHANGED <<producerVars, batchStreamVars>>

\* Nothing is left to do; any other state without a successor is a deadlock.
ScanFinished ==
    /\ outcome # "open"
    /\ \A p \in Partitions : task[p] \in {"none", "exited", "panicked"} /\ reads[p] = 0
    /\ UNCHANGED scanVars

CallerStep ==
    \/ PollMerger \/ MergerStep \/ ReturnBatch \/ FinalizeFails \/ ReturnError
    \/ ReturnEnd

ScanNext ==
    \/ CallerStep \/ DropStream
    \/ \E p \in Partitions : ProducerStep(p) \/ BlockingStep(p) \/ ExitStep(p)
    \/ ScanFinished

\* tokio keeps polling a woken task, a blocking thread keeps running, file I/O
\* completes, and the caller keeps polling until the stream ends (or drops it).
\* No panic and no drop is owed: a producer that waits for a permit or for room
\* in its channel must be let on by the others.
Fairness ==
    /\ WF_scanVars(CallerStep)
    /\ \A p \in Partitions :
         /\ WF_scanVars(ProducerProgress(p))
         /\ WF_scanVars(BlockingStep(p))
         /\ WF_scanVars(ExitStep(p))

ScanSpec == ScanInit /\ [][ScanNext]_scanVars
FairScanSpec == ScanSpec /\ Fairness

-----------------------------------------------------------------------------
(* Properties                                                               *)

\* The real producers implement the ones the merger relies on, so everything
\* shown of OrderedPartitionStream holds of the scan.
ImplementsOrderedMerger == Spec

\* The batches of the plan, and the order in which the caller must see them.
PlannedBatches == UNION {{p} \X Batches(p) : p \in Partitions}
PlannedOrder ==
    {pair \in PlannedBatches \X PlannedBatches : Precedes(pair[1], pair[2])}

\* What the caller holds: the batches poll_next has dealt with, except one
\* that finalize_batch failed on.
Returned ==
    LET seen == SubSeq(delivered, 1, handled)
    IN  IF outcome = "Failed" THEN SubSeq(seen, 1, handled - 1) ELSE seen

Contract == INSTANCE ScanContract WITH
    Planned <- PlannedBatches, Order <- PlannedOrder, Limited <- RowLimit # NoLimit,
    returned <- Returned, status <- outcome

\* The scan keeps its promise to the caller: batches in planned order although
\* partitions and files are read concurrently, one error at most although
\* several partitions may fail or panic, and an end only when every planned
\* batch was returned, so a cancelled or panicked partition never passes for a
\* finished one.
ImplementsScanContract == Contract!ContractSpec

\* Row limits: never a row too many, and the stream stops by the limit exactly
\* when the limit's last row has been returned.
LimitRespected ==
    RowLimit # NoLimit =>
      /\ rows + remaining = RowLimit
      /\ (outcome = "RowLimit") <=> (remaining = 0)

\* A caller that keeps polling reaches the end, an error or its limit: ordered
\* consumption and backpressure never leave the front partition starved.
ScanEnds == <>(outcome # "open")

\* Once the stream is over, for whatever reason, every producer and every
\* blocking thread stops and returns its read slots.
SlotsComeBack ==
    [](outcome # "open" =>
         <>[](\A p \in Partitions :
               reads[p] = 0 /\ task[p] \in {"none", "exited", "panicked"}))

\* into_stream admits every file; only DataFusion's policy may skip one.
AllAdmitted == SkippedFiles = {}

\* Behind ReadLimits: a partition has no more permits than it can use, also when
\* its reservation was reclaimed and its blocking reads go on.
IssuedInv ==
    \A p \in Partitions :
      /\ permits[p] <= MaxFileReads(p)
      /\ maxReads[p] > 0 => permits[p] = reserved[p]

\* Behind ImplementsScanContract: the caller has dealt with all items but the one
\* poll_next returned last, and an error among them has ended the stream.  The
\* merger ends only after the last partition.
HandledInv ==
    /\ handled \in Nat /\ handled <= Len(delivered) /\ Len(delivered) <= handled + 1
    /\ pc \notin {"idle", "cleared"} => handled = Len(delivered)
    /\ outcome = "open" => pc # "cleared" /\ \A k \in 1..handled : ~IsError(delivered[k])
    /\ RowLimit = NoLimit => remaining = NoLimit
    /\ pc = "ended" => consumed = N
=============================================================================
