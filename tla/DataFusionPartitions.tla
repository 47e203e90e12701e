------------------------ MODULE DataFusionPartitions ------------------------
(***************************************************************************)
(* A scan as DataFusion runs it (DeltaScanExec::execute in                 *)
(* datafusion/execution.rs): one independent stream per partition, each    *)
(* with a ScanCancellation of its own, all drawing read permits from the   *)
(* plan's one ScanReadLimiter.  The admission policy may skip files by a   *)
(* dynamic partition filter.                                               *)
(***************************************************************************)
EXTENDS FileProducers

CONSTANTS
    DroppingPartitions, \* partitions whose stream the operator may drop
    FailingProjections  \* partitions where project_output_batch may fail

VARIABLES
    answer,     \* answer[p]: "open", then how partition p's stream ended
    received    \* received[p]: items the operator got from p (a history variable)

adapterVars == <<answer, received>>
dfVars == <<streamVars, producerVars, adapterVars>>

DFInit ==
    /\ StreamInit
    /\ ProducerInit
    /\ answer = [p \in Partitions |-> "open"]
    /\ received = [p \in Partitions |-> <<>>]

-----------------------------------------------------------------------------
(* The stream execute(p) returns, polled by an operator of the query.       *)

Open(p) == answer[p] = "open"
Ended(p, how) == answer' = [answer EXCEPT ![p] = how]
Got(p, item) == received' = [received EXCEPT ![p] = Append(@, item)]

\* The first poll starts the producer.
FirstPoll(p) ==
    /\ Open(p) /\ state[p] = "NotStarted"
    /\ Start(p)
    /\ UNCHANGED <<cancelled, out, permits, reads, sent, producerVars, adapterVars>>

PollBatch(p) ==
    /\ Open(p) /\ Receive(p) /\ Head(out[p]) \notin Errors
    /\ Got(p, Head(out[p]))
    /\ UNCHANGED <<producerVars, answer>>

\* An error item, or a batch that project_output_batch refuses: the partition
\* stream is dropped, which cancels the partition.
PollError(p) ==
    /\ Open(p) /\ state[p] = "Running" /\ out[p] # <<>>
    /\ \/ Head(out[p]) \in Errors /\ Got(p, Head(out[p]))
       \/ Head(out[p]) \notin Errors /\ p \in FailingProjections
          /\ Got(p, "projection_failed")
    /\ DropStreams({p}, {p})
    /\ Ended(p, "Failed")
    /\ UNCHANGED producerVars

PollClosed(p) ==
    /\ Open(p) /\ ReceiveClosed(p)
    /\ UNCHANGED <<producerVars, adapterVars>>

PollPanic(p) ==
    /\ Open(p) /\ JoinReportsPanic(p, {p})
    /\ Got(p, "producer_panicked")
    /\ Ended(p, "Failed")
    /\ UNCHANGED producerVars

PollEnd(p) ==
    /\ Open(p) /\ AtEnd(p)
    /\ state' = [state EXCEPT ![p] = "Done"]
    /\ Ended(p, IF cancelled[p] THEN "Cancelled" ELSE "Eof")
    /\ UNCHANGED <<cancelled, task, out, permits, reads, sent, producerVars, received>>

\* The operator drops its stream between two polls.
DropPartition(p) ==
    /\ Open(p) /\ p \in DroppingPartitions
    /\ DropStreams({p}, {p})
    /\ Ended(p, "Dropped")
    /\ UNCHANGED <<producerVars, received>>

\* A poll of a stream that was polled before.
PollStep(p) ==
    PollBatch(p) \/ PollError(p) \/ PollClosed(p) \/ PollPanic(p) \/ PollEnd(p)

OperatorStep(p) == FirstPoll(p) \/ PollStep(p)

-----------------------------------------------------------------------------
DFProducerStep(p) ==
    /\ FileStep(p) \/ RunPartition(p, {p})
    /\ UNCHANGED adapterVars

DFProducerProgress(p) ==
    /\ FileStep(p) \/ PartitionProgress(p, {p})
    /\ UNCHANGED adapterVars

DFBlockingStep(p) ==
    /\ \E i \in Files(p) : ThreadStep(p, i)
    /\ UNCHANGED adapterVars

\* Independent partitions have no PartitionCompletion to send.
DFExitStep(p) ==
    /\ task[p] \in {"closing", "unwinding"}
    /\ task' = [task EXCEPT ![p] = IF @ = "closing" THEN "exited" ELSE "panicked"]
    /\ UNCHANGED <<cancelled, state, out, permits, reads, sent, producerVars, adapterVars>>

AllFinished ==
    /\ \A p \in Partitions :
         /\ ~Open(p) /\ task[p] \in {"none", "exited", "panicked"} /\ reads[p] = 0
    /\ UNCHANGED dfVars

DFNext ==
    \/ \E p \in Partitions :
         \/ OperatorStep(p) \/ DropPartition(p)
         \/ DFProducerStep(p) \/ DFBlockingStep(p) \/ DFExitStep(p)
    \/ AllFinished

\* An operator keeps polling the partitions it has begun, and need not begin any
\* (a plan that stops polling a partition it began may stall the others through
\* the limiter they share).  Panics, drops and first polls are not owed.
DFFairness ==
    \A p \in Partitions :
      /\ WF_dfVars(PollStep(p)) /\ WF_dfVars(DFProducerProgress(p))
      /\ WF_dfVars(DFBlockingStep(p)) /\ WF_dfVars(DFExitStep(p))

DFSpec == DFInit /\ [][DFNext]_dfVars
FairDFSpec == DFSpec /\ DFFairness

-----------------------------------------------------------------------------
(* Properties                                                               *)

\* Batches of a partition arrive in planned order, and one that reports its
\* end has delivered every batch of every file it did not skip.
PartitionComplete ==
    \A p \in Partitions :
      /\ \A i, j \in 1..Len(received[p]) :
           i < j => /\ received[p][i] \notin Errors
                    /\ received[p][j] \notin Errors => Before(received[p][i], received[p][j])
      /\ answer[p] \in {"Eof", "Cancelled"} =>
           /\ answer[p] = "Eof"
           /\ \A b \in Batches(p) :
                \/ <<p, b[1]>> \in SkippedFiles
                \/ \E i \in 1..Len(received[p]) : received[p][i] = b

\* A partition that fails, panics or is dropped cancels only itself.
FailuresStayLocal ==
    \A p \in Partitions :
      cancelled[p] => \/ answer[p] \in {"Failed", "Dropped"}
                      \/ task[p] \in {"failing", "closing", "exited"}

\* A partition the operator has begun to poll ends, however small the scan limit
\* it shares with the others: neither partitions that were not begun, nor ones
\* that failed, panicked or were dropped, keep permits it waits for.
SiblingsProgress ==
    \A p \in Partitions : state[p] # "NotStarted" ~> ~Open(p)

-----------------------------------------------------------------------------
(* The inductive invariants behind FailuresStayLocal and PartitionComplete. *)

\* A partition that is still polled was cancelled only by its own first error,
\* which is on its way to the operator; nothing else ends the stream early.
PolledOK(p) ==
    Open(p) =>
      /\ state[p] \in {"NotStarted", "Running", "Finishing"}
      /\ state[p] = "NotStarted" <=> task[p] = "none"
      /\ state[p] = "Finishing" => ~SenderLive(p) /\ out[p] = <<>>
      /\ cancelled[p] =>
           \/ task[p] = "failing"
           \/ /\ task[p] \in {"closing", "exited"} /\ out[p] # <<>>
              /\ out[p][Len(out[p])] = "file_failed"

\* A stream that reported its end was not cancelled, and its task is over.
EndedOK(p) ==
    answer[p] \in {"Eof", "Cancelled"} =>
      answer[p] = "Eof" /\ ~cancelled[p] /\ task[p] = "exited"

AdapterTypeOK ==
    /\ answer \in [Partitions -> {"open", "Failed", "Dropped", "Eof", "Cancelled"}]
    /\ received \in [Partitions -> Seq((Nat \X Nat) \cup Errors)]

\* What the operator got from p and what waits for it in p's channel.
Streamed(p) == received[p] \o out[p]

\* They come in planned order and none is missing; an error is the last item,
\* and a producer that returned without one has sent everything.
ArrivalOK(p) ==
    Open(p) =>
      /\ \A k \in 1..Len(Streamed(p)) :
           /\ Streamed(p)[k] \in Errors =>
                /\ k > Len(received[p]) /\ k = Len(Streamed(p))
                /\ task[p] \in {"closing", "exited"}
           /\ Streamed(p)[k] \notin Errors =>
                /\ ~Before(sent[p], Streamed(p)[k])
                /\ \A j \in 1..(k - 1) : Before(Streamed(p)[j], Streamed(p)[k])
      /\ \A b \in Batches(p) :
           ~Before(sent[p], b) /\ <<p, b[1]>> \notin SkippedFiles =>
             \E k \in 1..Len(Streamed(p)) : Streamed(p)[k] = b
      /\ task[p] = "failing" => cancelled[p]
      /\ task[p] \in {"closing", "exited"} /\ ~cancelled[p] =>
           \A b \in Batches(p) : <<p, b[1]>> \in SkippedFiles \/ ~Before(sent[p], b)

PolledInv == AdapterTypeOK /\ \A p \in Partitions : PolledOK(p) /\ EndedOK(p)
ArrivalInv == \A p \in Partitions : ArrivalOK(p)

=============================================================================
