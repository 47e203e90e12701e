----------------------- MODULE OrderedPartitionStream -----------------------
(***************************************************************************)
(* The ordered merger (OrderedPartitionStream in scheduling.rs): consumes  *)
(* the partitions of a scan in order while later partitions already read.  *)
(* Before a partition starts, the merger reserves file-read slots for it   *)
(* out of the scan's capacity, and issues exactly that many permits.       *)
(*                                                                         *)
(* One step here is one iteration of a loop of poll_next, reclaim_completed*)
(* or admit_partitions: the producers run on other threads meanwhile.      *)
(*                                                                         *)
(* The producers of this module are what the merger may rely on: they read *)
(* within their permits, send their partition's batches in order, and end. *)
(* OrderedScan.tla replaces them by the real ones and is shown to          *)
(* implement this specification.                                           *)
(***************************************************************************)
EXTENDS PartitionStreams

VARIABLES
    pc,         \* where poll_next is; "idle" between polls
    after,      \* where admit_partitions returns to
    cursor,     \* admit_partitions' index, counted from the queue's front
    admitted,   \* admitted partitions that are still queued
    available,  \* available_file_reads
    consumed,   \* partitions popped from the queue
    reserved,   \* reserved[p]: reserved_file_reads
    maxReads,   \* maxReads[p]: max_file_reads
    completions,\* indices in the completion channel
    delivered   \* every item returned to the caller (a history variable)

mergerVars ==
    <<pc, after, cursor, admitted, available, consumed, reserved, maxReads,
      completions, delivered>>
vars == <<streamVars, mergerVars>>

N == Len(FileTasks)
FrontPartition == consumed + 1
Remaining == N - consumed

\* Demand(n): the sum of max_file_reads over the first n partitions.
Demand[n \in 0..N] == IF n = 0 THEN 0 ELSE Demand[n - 1] + MaxFileReads(n)

\* The completion channel exists only when the partitions do not all fit.
NotifiesCompletion == Demand[N] > ScanCapacity

\* OrderedPartitionStream::new takes every permit back from the partitions.
MergerInit ==
    /\ pc = "idle"
    /\ after = "reclaim"
    /\ cursor = 0
    /\ admitted = 0
    /\ available = ScanCapacity
    /\ consumed = 0
    /\ reserved = [p \in Partitions |-> 0]
    /\ maxReads = [p \in Partitions |-> MaxFileReads(p)]
    /\ completions = <<>>
    /\ delivered = <<>>

OrderedStreamInit ==
    /\ cancelled = [p \in Partitions |-> FALSE]
    /\ state = [p \in Partitions |-> "NotStarted"]
    /\ task = [p \in Partitions |-> "none"]
    /\ out = [p \in Partitions |-> <<>>]
    /\ permits = [p \in Partitions |-> 0]
    /\ reads = [p \in Partitions |-> 0]
    /\ sent = [p \in Partitions |-> <<0, 0>>]

Init == OrderedStreamInit /\ MergerInit

\* Dropping a partition's PartitionCompletion sends its index.
SendCompletion(p) ==
    completions' = IF NotifiesCompletion THEN Append(completions, p) ELSE completions

-----------------------------------------------------------------------------
(* poll_next.  The arm of PartitionStream::poll_next that starts a stream   *)
(* on its first poll is not reached from here: see FrontAdmitted.           *)

EnterAdmitNoTopUp(count, return) ==
    /\ pc' = "admit"
    /\ after' = return
    /\ cursor' = count

\* admit_partitions starts at the last admitted partition.
EnterAdmit(count, return) ==
    /\ pc' = "admit"
    /\ after' = return
    /\ cursor' = IF count = 0 THEN 0 ELSE count - 1

\* After Poll::Pending the caller polls again only when woken: by a completion
\* or by the front partition.
Woken == completions # <<>> \/ ~Pending(FrontPartition)

PollNext ==
    /\ pc = "idle" \/ (pc = "pending" /\ Woken)
    /\ IF admitted = 0
       THEN EnterAdmit(admitted, "reclaim")
       ELSE pc' = "reclaim" /\ UNCHANGED <<after, cursor>>
    /\ UNCHANGED <<streamVars, admitted, available, consumed, reserved, maxReads,
                   completions, delivered>>

\* Reserves `additional` slots for p, issues `issued` permits and starts p.
Admit(p, additional, issued) ==
    /\ permits' = [permits EXCEPT ![p] = @ + issued]
    /\ reserved' = [reserved EXCEPT ![p] = @ + additional]
    /\ available' = available - additional
    /\ Start(p)
    \* A cancelled start drops the pending partition and its completion.
    /\ IF state[p] = "NotStarted" /\ cancelled[p]
       THEN SendCompletion(p)
       ELSE UNCHANGED completions
    /\ cursor' = cursor + 1
    /\ admitted' = cursor + 1
    /\ UNCHANGED <<cancelled, out, reads, sent, pc, after, consumed, maxReads, delivered>>

AdmitOneOverbooked ==
    /\ pc = "admit" /\ available > 0 /\ cursor < Remaining
    /\ LET p == FrontPartition + cursor
           additional == Smaller(maxReads[p] - reserved[p], available)
       IN  Admit(p, additional, maxReads[p] - permits[p])

\* One iteration of admit_partitions: top up or start the partition at cursor.
AdmitOne ==
    /\ pc = "admit" /\ available > 0 /\ cursor < Remaining
    /\ LET p == FrontPartition + cursor
           additional == Smaller(maxReads[p] - reserved[p], available)
       IN  Admit(p, additional, additional)

AdmitDone ==
    /\ pc = "admit" /\ (available = 0 \/ cursor >= Remaining)
    /\ pc' = after
    /\ UNCHANGED <<streamVars, after, cursor, admitted, available, consumed, reserved,
                   maxReads, completions, delivered>>

ReclaimOneKeepsReservation ==
    /\ pc = "reclaim" /\ completions # <<>>
    /\ completions' = Tail(completions)
    /\ LET p == Head(completions)
       IN  IF p > consumed
           THEN /\ available' = available + reserved[p]
                /\ maxReads' = [maxReads EXCEPT ![p] = 0]
                /\ UNCHANGED reserved
           ELSE UNCHANGED <<available, reserved, maxReads>>
    /\ UNCHANGED <<streamVars, pc, after, cursor, admitted, consumed, delivered>>

\* One iteration of reclaim_completed.  A partition that ended and was popped
\* before its notification arrived has returned its reservation already.
ReclaimOne ==
    /\ pc = "reclaim" /\ completions # <<>>
    /\ completions' = Tail(completions)
    /\ LET p == Head(completions)
       IN  IF p > consumed
           THEN /\ available' = available + reserved[p]
                /\ reserved' = [reserved EXCEPT ![p] = 0]
                /\ maxReads' = [maxReads EXCEPT ![p] = 0]
           ELSE UNCHANGED <<available, reserved, maxReads>>
    /\ UNCHANGED <<streamVars, pc, after, cursor, admitted, consumed, delivered>>

ReclaimDone ==
    /\ pc = "reclaim" /\ completions = <<>>
    /\ IF NotifiesCompletion
       THEN EnterAdmit(admitted, "front")
       ELSE pc' = "front" /\ UNCHANGED <<after, cursor>>
    /\ UNCHANGED <<streamVars, admitted, available, consumed, reserved, maxReads,
                   completions, delivered>>

YieldItem ==
    /\ pc = "front" /\ consumed < N
    /\ Receive(FrontPartition)
    /\ delivered' = Append(delivered, <<FrontPartition, Head(out[FrontPartition])>>)
    /\ pc' = "idle"
    /\ UNCHANGED <<after, cursor, admitted, available, consumed, reserved, maxReads,
                   completions>>

FrontClosed ==
    /\ pc = "front" /\ consumed < N
    /\ ReceiveClosed(FrontPartition)
    /\ UNCHANGED mergerVars

YieldPanic ==
    /\ pc = "front" /\ consumed < N
    /\ JoinReportsPanic(FrontPartition, Partitions)
    /\ delivered' = Append(delivered, <<FrontPartition, "producer_panicked">>)
    /\ pc' = "idle"
    /\ UNCHANGED <<after, cursor, admitted, available, consumed, reserved, maxReads,
                   completions>>

YieldPending ==
    /\ pc = "front" /\ consumed < N /\ Pending(FrontPartition)
    /\ pc' = "pending"
    /\ UNCHANGED <<streamVars, after, cursor, admitted, available, consumed, reserved,
                   maxReads, completions, delivered>>

\* The front partition ended: pop it and return its reservation.
PopFront ==
    /\ pc = "front" /\ consumed < N /\ AtEnd(FrontPartition)
    /\ state' = [state EXCEPT ![FrontPartition] = "Done"]
    /\ consumed' = consumed + 1
    /\ admitted' = admitted - 1
    /\ available' = available + reserved[FrontPartition]
    /\ EnterAdmit(admitted - 1, "reclaim")
    /\ UNCHANGED <<cancelled, task, out, permits, reads, sent, reserved, maxReads,
                   completions, delivered>>

YieldEnd ==
    /\ pc = "front" /\ consumed = N
    /\ pc' = "ended"
    /\ UNCHANGED <<streamVars, after, cursor, admitted, available, consumed, reserved,
                   maxReads, completions, delivered>>

\* clear(): drops every queued partition stream.
Clear ==
    /\ pc \in {"idle", "pending"}
    /\ DropStreams({p \in Partitions : p > consumed}, Partitions)
    /\ pc' = "cleared"
    /\ admitted' = 0
    /\ available' = 0
    /\ completions' = <<>>
    /\ UNCHANGED <<after, cursor, consumed, reserved, maxReads, delivered>>

MergerNext ==
    \/ PollNext \/ AdmitOne \/ AdmitDone \/ ReclaimOne \/ ReclaimDone
    \/ YieldItem \/ FrontClosed \/ YieldPanic \/ YieldPending \/ PopFront
    \/ YieldEnd \/ Clear

-----------------------------------------------------------------------------
(* What a producer may do.                                                  *)

\* A file of p obtains its partition permit.
AcquireRead(p) ==
    /\ task[p] = "running" /\ reads[p] < permits[p]
    /\ reads' = [reads EXCEPT ![p] = @ + 1]
    /\ UNCHANGED <<cancelled, state, task, out, permits, sent, mergerVars>>

\* A file read ends; a blocking read may outlive its producer.
ReleaseRead(p) ==
    /\ reads[p] > 0
    /\ reads' = [reads EXCEPT ![p] = @ - 1]
    /\ UNCHANGED <<cancelled, state, task, out, permits, sent, mergerVars>>

\* The next batch of p in planned order.
IsNextBatch(p, b) ==
    /\ b \in Batches(p) /\ Before(sent[p], b)
    /\ \A other \in Batches(p) : Before(sent[p], other) => other = b \/ Before(b, other)

SendBatch(p) ==
    /\ task[p] = "running" /\ ReceiverLive(p) /\ Len(out[p]) < OutputBuffer
    /\ \E b \in Batches(p) :
         /\ IsNextBatch(p, b)
         /\ sent' = [sent EXCEPT ![p] = b]
         /\ out' = [out EXCEPT ![p] = Append(@, b)]
    /\ UNCHANGED <<cancelled, state, task, permits, reads, mergerVars>>

\* send_first_error: only the caller that cancels the scan may report.
FailFirst(p) ==
    /\ task[p] = "running" /\ ~cancelled[p]
    /\ Cancel(Partitions)
    /\ task' = [task EXCEPT ![p] = "failing"]
    /\ \E kept \in 0..reads[p] : reads' = [reads EXCEPT ![p] = kept]
    /\ UNCHANGED <<state, out, permits, sent, mergerVars>>

SendError(p) ==
    /\ task[p] = "failing"
    /\ \/ ~ReceiverLive(p) /\ UNCHANGED out
       \/ ReceiverLive(p) /\ Len(out[p]) < OutputBuffer
          /\ out' = [out EXCEPT ![p] = Append(@, "file_failed")]
    /\ \E kept \in 0..reads[p] : reads' = [reads EXCEPT ![p] = kept]
    /\ task' = [task EXCEPT ![p] = "closing"]
    /\ UNCHANGED <<cancelled, state, permits, sent, mergerVars>>

\* run_partition returns: everything was sent, or the scan was cancelled.  A
\* producer that did not finish may leave blocking reads behind.
Return(p) ==
    /\ task[p] = "running"
    /\ \/ cancelled[p] /\ \E kept \in 0..reads[p] : reads' = [reads EXCEPT ![p] = kept]
       \/ ~(\E b \in Batches(p) : Before(sent[p], b)) /\ reads' = [reads EXCEPT ![p] = 0]
    /\ task' = [task EXCEPT ![p] = "closing"]
    /\ UNCHANGED <<cancelled, state, out, permits, sent, mergerVars>>

\* The receiver went away: the producer cancels the scan and returns.
ReturnUnread(p) ==
    /\ task[p] = "running" /\ ~ReceiverLive(p)
    /\ Cancel(Partitions)
    /\ \E kept \in 0..reads[p] : reads' = [reads EXCEPT ![p] = kept]
    /\ task' = [task EXCEPT ![p] = "closing"]
    /\ UNCHANGED <<state, out, permits, sent, mergerVars>>

Panic(p) ==
    /\ task[p] = "running"
    /\ \E kept \in 0..reads[p] : reads' = [reads EXCEPT ![p] = kept]
    /\ task' = [task EXCEPT ![p] = "unwinding"]
    /\ UNCHANGED <<cancelled, state, out, permits, sent, mergerVars>>

\* The task drops its PartitionCompletion last, then becomes joinable.
Exit(p) ==
    /\ task[p] \in {"closing", "unwinding"}
    /\ task' = [task EXCEPT ![p] = IF @ = "closing" THEN "exited" ELSE "panicked"]
    /\ IF pc = "cleared" THEN UNCHANGED completions ELSE SendCompletion(p)
    /\ UNCHANGED <<cancelled, state, out, permits, reads, sent, pc, after, cursor,
                   admitted, available, consumed, reserved, maxReads, delivered>>

ProducerNext(p) ==
    \/ AcquireRead(p) \/ ReleaseRead(p) \/ SendBatch(p) \/ FailFirst(p)
    \/ SendError(p) \/ Return(p) \/ ReturnUnread(p) \/ Panic(p) \/ Exit(p)

\* The scan is over: nothing is left to do.  Any other state without a
\* successor is a deadlock.
Finished ==
    /\ pc \in {"ended", "cleared"}
    /\ \A p \in Partitions : task[p] \in {"none", "exited", "panicked"} /\ reads[p] = 0
    /\ UNCHANGED vars

Next == MergerNext \/ (\E p \in Partitions : ProducerNext(p)) \/ Finished
Spec == Init /\ [][Next]_vars

-----------------------------------------------------------------------------
(* Properties                                                               *)

\* Types of the merger's state; in particular no usize of poll_next
\* (admitted, available_file_reads, the insertion cursor) goes below zero.
TypeOK ==
    /\ StreamTypeOK
    /\ pc \in {"idle", "pending", "admit", "reclaim", "front", "ended", "cleared"}
    /\ after \in {"reclaim", "front"}
    /\ cursor \in Nat /\ admitted \in Nat /\ available \in Nat
    /\ consumed \in 0..N
    /\ reserved \in [Partitions -> Nat]
    /\ maxReads \in [Partitions -> Nat]
    /\ completions \in Seq(Partitions)

\* Counted things, one pair <<p, k>> for each of the count[p] things of p.
Slots(count) == {s \in Partitions \X (1..PartitionCapacity) : s[2] <= count[s[1]]}
ReservedSlots == {s \in Slots(reserved) : s[1] > consumed}
LiveReads == {s \in Slots(reads) : SenderLive(s[1])}

\* available_file_reads and the reservations of the queued partitions always
\* add up to the scan's capacity: admitting, topping up, reclaiming a
\* completion and popping a partition neither leak nor duplicate a slot.
ReservationsConserved ==
    pc # "cleared" => Cardinality(ReservedSlots) + available = ScanCapacity

\* The merger's promise to the partitions it admits ("progress without permits
\* held by a later, backpressured one"): the reads of live producers and the
\* unreserved slots together never exceed the scan's capacity, so a file that
\* holds its partition permit finds a scan permit free.
ScanPermitsSuffice == Cardinality(LiveReads) + available <= ScanCapacity

\* The partition that is polled was admitted, so `admitted -= 1` cannot wrap,
\* and while it runs it has a permit to read with unless it has no file.
FrontAdmitted ==
    pc \in {"front", "pending"} /\ consumed < N =>
      /\ admitted >= 1 /\ state[FrontPartition] # "NotStarted"
      /\ task[FrontPartition] = "running" /\ FileTasks[FrontPartition] # <<>> => permits[FrontPartition] >= 1

\* Every slot that a queued partition could use is reserved.
Settled ==
    /\ available > 0 => admitted = Remaining
    /\ \A p \in FrontPartition..(consumed + admitted) :
          reserved[p] < maxReads[p] => p = consumed + admitted /\ available = 0

\* No slot idles while a queued partition could use it, and only the last
\* admitted partition is short of its maximum.
SlotsInUse == pc \in {"front", "pending"} => Settled

IsError(item) == item[2] \in Errors

-----------------------------------------------------------------------------
(* The inductive invariant behind ReservationsConserved, ScanPermitsSuffice *)
(* and FrontAdmitted.                                                       *)

\* The admitted partitions are the first ones in the queue.
InWindow(p) == pc # "cleared" /\ consumed < p /\ p <= consumed + admitted
Beyond(p) == pc # "cleared" /\ p > consumed + admitted

WindowInv ==
    /\ consumed + admitted <= N
    /\ pc = "admit" => cursor = admitted \/ cursor = admitted - 1
    /\ pc \in {"reclaim", "front", "pending"} /\ consumed < N => admitted >= 1

LifecycleInv ==
    /\ \A p \in Partitions :
         /\ p <= consumed => state[p] = "Done"
         /\ InWindow(p) => state[p] # "NotStarted"
         /\ Beyond(p) => state[p] = "NotStarted" /\ reserved[p] = 0 /\ permits[p] = 0
         /\ state[p] = "NotStarted" =>
              task[p] = "none" /\ reads[p] = 0 /\ maxReads[p] = MaxFileReads(p)
         /\ state[p] \in {"Finishing", "Done"} => ~SenderLive(p)
    /\ \A k \in 1..Len(completions) :
         /\ ~SenderLive(completions[k])
         /\ state[completions[k]] # "NotStarted"

CoverageInv ==
    \A p \in Partitions :
      /\ reserved[p] <= maxReads[p] /\ maxReads[p] <= MaxFileReads(p)
      /\ SenderLive(p) => /\ permits[p] = reserved[p] /\ reads[p] <= permits[p]
                          /\ maxReads[p] = MaxFileReads(p)
      /\ InWindow(p) => reserved[p] >= 1 \/ maxReads[p] = 0

CapacityInv ==
    /\ Cardinality(ReservedSlots) + available <= ScanCapacity
    /\ ReservationsConserved

\* Reservations are conserved, every live producer's permits are its own
\* reservation, and the admitted partitions are a prefix of the queue.
ReservationInv == TypeOK /\ WindowInv /\ LifecycleInv /\ CoverageInv /\ CapacityInv

\* Behind SlotsInUse: only the last admitted partition may be short of slots, and
\* it was offered what there is once admit_partitions has passed it.  A scan in
\* which every partition fits is settled for good by its first admission.
UseInv ==
    /\ \A p \in Partitions : consumed < p /\ p < consumed + admitted => reserved[p] = maxReads[p]
    /\ pc = "admit" /\ cursor = admitted /\ admitted >= 1 /\ available > 0 =>
          reserved[consumed + admitted] = maxReads[consumed + admitted]
    /\ SlotsInUse
    /\ ~NotifiesCompletion =>
          /\ completions = <<>>
          /\ pc = "reclaim" \/ (pc = "idle" /\ admitted > 0) => Settled

-----------------------------------------------------------------------------
(* The inductive invariant behind the promise of ScanContract: what reaches *)
(* the caller, and what a partition was stopped by.                         *)

\* Items a and b of the merger's output are in planned order.
Precedes(a, b) == a[1] < b[1] \/ (a[1] = b[1] /\ Before(a[2], b[2]))

\* What was delivered, and what waits in the channels behind it, is planned and
\* in planned order.
OrderInv ==
    /\ ChannelTypeOK /\ delivered \in Seq(Partitions \X ((Nat \X Nat) \cup Errors))
    /\ \A k \in 1..Len(delivered) :
         /\ delivered[k][1] <= FrontPartition
         /\ ~IsError(delivered[k]) =>
              /\ delivered[k][2] \in Batches(delivered[k][1])
              /\ ~Before(sent[delivered[k][1]], delivered[k][2])
              /\ \A j \in 1..(k - 1) : ~IsError(delivered[j]) => Precedes(delivered[j], delivered[k])
    /\ \A p \in Partitions : \A k \in 1..Len(out[p]) : out[p][k] \notin Errors =>
         /\ out[p][k] \in Batches(p) /\ ~Before(sent[p], out[p][k])
         /\ \A j \in 1..(k - 1) : out[p][j] \notin Errors => Before(out[p][j], out[p][k])
         /\ \A j \in 1..Len(delivered) :
              delivered[j][1] = p /\ ~IsError(delivered[j]) => Before(delivered[j][2], out[p][k])

\* No batch that was sent is lost, and a partition that ended without having
\* been cancelled has sent all of its batches.
CompleteOK(p) ==
    /\ state[p] # "Running" => out[p] = <<>>
    /\ pc # "cleared" => \A b \in Batches(p) : ~Before(sent[p], b) =>
         \/ \E k \in 1..Len(delivered) : delivered[k] = <<p, b>>
         \/ \E k \in 1..Len(out[p]) : out[p][k] = b
    /\ task[p] \in {"closing", "exited"} /\ ~cancelled[p] =>
         \A b \in Batches(p) : ~Before(sent[p], b)
    /\ state[p] = "Done" /\ ~cancelled[p] => task[p] = "exited"

CompleteInv == \A p \in Partitions : CompleteOK(p)

\* A scan is cancelled with an error that was delivered or is on its way to the
\* caller, or because the caller has dropped it.
ErrorInv ==
    /\ \A p, q \in Partitions : cancelled[p] => cancelled[q]
    /\ \A p \in Partitions : /\ task[p] = "failing" => cancelled[p]
                             /\ state[p] = "Dropped" => pc = "cleared"
    /\ pc # "cleared" /\ (\E p \in Partitions : cancelled[p]) =>
         \/ \E k \in 1..Len(delivered) : IsError(delivered[k])
         \/ \E p \in Partitions :
              /\ state[p] = "Running"
              /\ task[p] = "failing" \/ \E k \in 1..Len(out[p]) : out[p][k] = "file_failed"

DeliveryInv == OrderInv /\ CompleteInv /\ ErrorInv
=============================================================================
