----------------------------- MODULE ScanProofs -----------------------------
(***************************************************************************)
(* Proofs about a scan, for every plan, every option value and any number  *)
(* of callers.  The cancellation flag has one first canceller and loses no *)
(* wakeup.  The producers keep both read limits and give permits to the    *)
(* files of a partition in order, under the ordered merger and under       *)
(* DataFusion.  A scan with the real producers implements the ordered      *)
(* merger, keeps its promises, the contract of the batch stream and the    *)
(* row limit.  The partitions of DataFusion are complete and fail alone,   *)
(* and with the Direct reader what is counted as completed was read.       *)
(***************************************************************************)
EXTENDS OrderedScan, DataFusionPartitions, ScanCancellation,
        OrderedPartitionStreamProofs, SequenceLemmas

(* ---- the cancellation flag ---------------------------------------------- *)

LEMMA InitCancellationInv == CancellationInit => CancellationInv
<1> SUFFICES ASSUME CancellationInit PROVE CancellationInv
  OBVIOUS
<1>1. CancellationTypeOK /\ \A w \in Waiters : seen[w] <= calls
  <2>1. flag \in BOOLEAN
    BY Zenon DEF CancellationInit
  <2>2. /\ calls \in Nat /\ seen \in [Waiters -> Nat]
        /\ \A w \in Waiters : seen[w] <= calls
    BY DEF CancellationInit
  <2>3. /\ waiter \in [Waiters -> {"idle", "checked", "created", "waiting", "returned"}]
        /\ canceller \in [Cancellers -> {"idle", "first", "notified", "late"}]
    BY DEF CancellationInit
  <2> QED
    BY <2>1, <2>2, <2>3 DEF CancellationTypeOK
<1>2. \A c \in Cancellers : ~First(c)
  BY DEF CancellationInit, First
<1>3. OneFirst /\ NoLostWakeup
  BY <1>2 DEF CancellationInit, OneFirst, NoLostWakeup
<1> QED
  BY <1>1, <1>3 DEF CancellationInv

\* The steps of cancel().
LEMMA CancelStepInv ==
    ASSUME CancellationInv, NEW c \in Cancellers, Swap(c) \/ NotifyWaiters(c)
    PROVE  CancellationInv'
<1> USE DEF CancellationInv
<1>1. CASE Swap(c)
  <2>1. CancellationTypeOK' /\ \A w \in Waiters : seen'[w] <= calls'
    BY <1>1 DEF Swap, CancellationTypeOK
  <2>2. /\ canceller'[c] = IF flag THEN "late" ELSE "first"
        /\ \A d \in Cancellers : d # c => canceller'[d] = canceller[d]
        /\ flag' = TRUE /\ canceller[c] = "idle"
    BY <1>1 DEF Swap, CancellationTypeOK
  <2>3. OneFirst'
    BY <2>2 DEF OneFirst, First
  <2>4. NoLostWakeup'
    <3>1. CASE flag
      BY <1>1, <2>2, <3>1 DEF NoLostWakeup, Swap
    <3>2. CASE ~flag
      BY <1>1, <2>2, <3>2 DEF NoLostWakeup, Swap
    <3> QED
      BY <3>1, <3>2
  <2> QED
    BY <2>1, <2>3, <2>4
<1>2. CASE NotifyWaiters(c)
  <2>1. CancellationTypeOK' /\ \A w \in Waiters : seen'[w] <= calls'
    BY <1>2 DEF NotifyWaiters, CancellationTypeOK
  <2>2. OneFirst'
    BY <1>2 DEF NotifyWaiters, OneFirst, First, CancellationTypeOK
  <2>3. NoLostWakeup'
    BY <1>2 DEF NotifyWaiters, NoLostWakeup, CancellationTypeOK
  <2> QED
    BY <2>1, <2>2, <2>3
<1> QED
  BY <1>1, <1>2

\* The steps of cancelled().
LEMMA WaiterStepInv ==
    ASSUME CancellationInv, NEW w \in Waiters,
           FirstLook(w) \/ WaiterStep(w) \/ Abandon(w)
    PROVE  CancellationInv'
<1> USE DEF CancellationInv
<1>1. UNCHANGED <<flag, calls, canceller>>
  BY DEF FirstLook, WaiterStep, CreateNotified, SecondLook, NotifiedReady, Abandon
<1>2. OneFirst'
  BY <1>1 DEF OneFirst, First
<1>3. CASE CreateNotified(w)
  BY <1>1, <1>2, <1>3 DEF CreateNotified, Goto, CancellationTypeOK, NoLostWakeup
<1>4. CASE FirstLook(w) \/ SecondLook(w) \/ NotifiedReady(w) \/ Abandon(w)
  <2>1. PICK to \in {"idle", "checked", "waiting", "returned"} :
          /\ waiter' = [waiter EXCEPT ![w] = to] /\ UNCHANGED seen
          /\ to = "waiting" => ~flag
    BY <1>4 DEF FirstLook, SecondLook, NotifiedReady, Abandon, Goto
  <2>2. CancellationTypeOK' /\ \A v \in Waiters : seen'[v] <= calls'
    BY <1>1, <2>1 DEF CancellationTypeOK
  <2>3. NoLostWakeup'
    BY <1>1, <2>1 DEF NoLostWakeup, CancellationTypeOK
  <2> QED
    BY <1>2, <2>2, <2>3
<1> QED
  BY <1>3, <1>4 DEF WaiterStep

\* cancel() has one first caller and cancelled() loses no wakeup, for any
\* number of concurrent calls.
THEOREM CancellationInvariant == CancellationSpec => []CancellationInv
<1>1. CancellationInit => CancellationInv
  BY InitCancellationInv
<1>2. CancellationInv /\ [CancellationNext]_cancellationVars => CancellationInv'
  <2> SUFFICES ASSUME CancellationInv, [CancellationNext]_cancellationVars PROVE CancellationInv'
    OBVIOUS
  <2>1. CASE \E c \in Cancellers : Swap(c) \/ NotifyWaiters(c)
    BY <2>1, CancelStepInv
  <2>2. CASE \E w \in Waiters : FirstLook(w) \/ WaiterStep(w) \/ Abandon(w)
    BY <2>2, WaiterStepInv
  <2>3. CASE AllReturned \/ UNCHANGED cancellationVars
    BY <2>3 DEF AllReturned, cancellationVars, CancellationInv, CancellationTypeOK, OneFirst, NoLostWakeup, First
  <2> QED
    BY <2>1, <2>2, <2>3 DEF CancellationNext
<1> QED
  BY <1>1, <1>2, PTL DEF CancellationSpec

\* Of all concurrent calls of cancel() exactly one returns true: the scan
\* reports one error.
THEOREM OneFirstCanceller == CancellationSpec => []OneFirst
<1>1. CancellationInv => OneFirst
  BY DEF CancellationInv
<1> QED
  BY <1>1, CancellationInvariant, PTL

\* No interleaving of cancel() with cancelled()'s check, notified(), check,
\* await sequence leaves a waiter asleep after the flag is set.
THEOREM WakeupsNotLost == CancellationSpec => []NoLostWakeup
<1>1. CancellationInv => NoLostWakeup
  BY DEF CancellationInv
<1> QED
  BY <1>1, CancellationInvariant, PTL

(* ---- read permits ------------------------------------------------------- *)

LEMMA PlanFacts ==
    /\ \A p \in Partitions : p \in Nat /\ FileTasks[p] \in Seq(Nat) /\ Len(FileTasks[p]) \in Nat
    /\ \A p \in Partitions : IsFiniteSet(Files(p)) /\ Files(p) \subseteq Nat
    /\ \A p \in Partitions : \A i \in Files(p) : FileTasks[p][i] \in Nat
    /\ ScanCapacity \in Nat
<1>1. \A p \in Partitions : p \in Nat /\ FileTasks[p] \in Seq(Nat) /\ Len(FileTasks[p]) \in Nat
  BY PlanAssumption DEF Partitions
<1>2. ASSUME NEW p \in Partitions PROVE IsFiniteSet(Files(p)) /\ Files(p) \subseteq Nat
  <2>1. IsFiniteSet(1..Len(FileTasks[p]))
    BY <1>1, FS_Interval
  <2> QED
    BY <2>1 DEF Files
<1>3. ASSUME NEW p \in Partitions, NEW i \in Files(p) PROVE FileTasks[p][i] \in Nat
  BY <1>1 DEF Files
<1> QED
  BY <1>1, <1>2, <1>3, ConstantFacts

\* A permit is not lost when others leave or join the queue, or permits are added.
LEMMA GrantKept ==
    ASSUME NEW q, Len(q) \in Nat, NEW gone, NEW n \in Nat, NEW more \in Nat, n <= more,
           NEW c, c \notin gone, Granted(q, n, c)
    PROVE  Granted(Without(q, gone), more, c)
<1>1. PICK k \in 1..Smaller(Len(q), n) : q[k] = c
  BY DEF Granted
<1>2. k \in 1..Len(q) /\ k <= n
  BY <1>1 DEF Smaller
<1>3. /\ Len(Without(q, gone)) \in Nat
      /\ q[k] \notin gone =>
           \E j \in 1..Len(Without(q, gone)) : j <= k /\ Without(q, gone)[j] = q[k]
  BY <1>2, RanksClose
<1>4. PICK j \in 1..Len(Without(q, gone)) : j <= k /\ Without(q, gone)[j] = c
  BY <1>1, <1>3
<1>5. j \in 1..Smaller(Len(Without(q, gone)), more)
  BY <1>2, <1>3, <1>4 DEF Smaller
<1> QED
  BY <1>4, <1>5 DEF Granted

LEMMA GrantAppended ==
    ASSUME NEW S, NEW q \in Seq(S), NEW e \in S, NEW n \in Nat, NEW c, Granted(q, n, c)
    PROVE  Granted(Append(q, e), n, c)
<1>1. PICK k \in 1..Smaller(Len(q), n) : q[k] = c
  BY DEF Granted
<1>2. Len(q) \in Nat /\ Len(Append(q, e)) = Len(q) + 1
  OBVIOUS
<1>3. k \in 1..Smaller(Len(Append(q, e)), n) /\ Append(q, e)[k] = c
  BY <1>1, <1>2 DEF Smaller
<1> QED
  BY <1>3 DEF Granted

LEMMA GrantMore ==
    ASSUME NEW q, Len(q) \in Nat, NEW n \in Nat, NEW more \in Nat, n <= more, NEW c,
           Granted(q, n, c)
    PROVE  Granted(q, more, c)
BY DEF Granted, Smaller

\* Leaving the scan's queue does not change the order of those who stay.
LEMMA QueueOrderKept ==
    ASSUME QueueOrderInv, Len(scanQueue) \in Nat, NEW gone,
           scanQueue' \in {scanQueue, Without(scanQueue, gone)},
           \A q \in Partitions : \A i \in Files(q) :
             /\ fut'[q][i] \in {"planned", "unpolled", "waitPartition"} =>
                  fut[q][i] \in {"planned", "unpolled", "waitPartition"}
             /\ fut'[q][i] = "waitScan" => fut[q][i] = "waitScan" /\ <<q, i>> \notin gone
    PROVE  QueueOrderInv'
<1>1. /\ \A c : c \notin gone /\ Ahead(scanQueue, Len(scanQueue) + 1, c) =>
           Ahead(scanQueue', Len(scanQueue') + 1, c)
      /\ \A j \in 1..Len(scanQueue') : \E k \in 1..Len(scanQueue) :
           /\ scanQueue'[j] = scanQueue[k]
           /\ \A c : c \notin gone /\ Ahead(scanQueue, k, c) => Ahead(scanQueue', j, c)
  <2>1. CASE scanQueue' = Without(scanQueue, gone)
    BY <2>1, RanksClose
  <2>2. CASE scanQueue' = scanQueue
    BY <2>2
  <2> QED
    BY <2>1, <2>2
<1>2. ASSUME NEW q \in Partitions, NEW i \in Files(q)
      PROVE  /\ fut'[q][i] = "waitScan" => Ahead(scanQueue', Len(scanQueue') + 1, <<q, i>>)
             /\ \A j \in 1..Len(scanQueue') : scanQueue'[j][1] = q =>
                  /\ i <= scanQueue'[j][2] =>
                       fut'[q][i] \notin {"planned", "unpolled", "waitPartition"}
                  /\ i < scanQueue'[j][2] /\ fut'[q][i] = "waitScan" =>
                       Ahead(scanQueue', j, <<q, i>>)
  <2>1. fut'[q][i] = "waitScan" => Ahead(scanQueue', Len(scanQueue') + 1, <<q, i>>)
    BY <1>1 DEF QueueOrderInv
  <2>2. ASSUME NEW j \in 1..Len(scanQueue'), scanQueue'[j][1] = q
        PROVE  /\ i <= scanQueue'[j][2] =>
                    fut'[q][i] \notin {"planned", "unpolled", "waitPartition"}
               /\ i < scanQueue'[j][2] /\ fut'[q][i] = "waitScan" =>
                    Ahead(scanQueue', j, <<q, i>>)
    <3>1. PICK k \in 1..Len(scanQueue) :
            /\ scanQueue'[j] = scanQueue[k]
            /\ \A c : c \notin gone /\ Ahead(scanQueue, k, c) => Ahead(scanQueue', j, c)
      BY <1>1
    <3>2. /\ i <= scanQueue[k][2] => fut[q][i] \notin {"planned", "unpolled", "waitPartition"}
          /\ i < scanQueue[k][2] /\ fut[q][i] = "waitScan" => Ahead(scanQueue, k, <<q, i>>)
      BY <2>2, <3>1 DEF QueueOrderInv
    <3> QED
      BY <3>1, <3>2
  <2> QED
    BY <2>1, <2>2
<1> QED
  BY <1>2 DEF QueueOrderInv

\* A step of p's producer that obtains no partition permit: nobody is put into
\* the scan's queue, and those who leave the queues read no longer.
LEMMA PermitsKept ==
    ASSUME ProducerTypeOK, GrantInv, QueueOrderInv, permits \in [Partitions -> Nat],
           NEW p \in Partitions, NEW gone, UNCHANGED permits,
           \A q \in Partitions : q # p =>
             /\ fut'[q] = fut[q] /\ thread'[q] = thread[q] /\ task'[q] = task[q]
             /\ partitionQueue'[q] = partitionQueue[q],
           \A i \in Files(p) :
             /\ fut'[p][i] \in {"planned", "unpolled", "waitPartition"} =>
                  fut[p][i] \in {"planned", "unpolled", "waitPartition"}
             /\ fut'[p][i] = "waitScan" => fut[p][i] = "waitScan"
             /\ i \in ActiveReads(p)' =>
                  \/ i \in ActiveReads(p)
                  \/ fut[p][i] = "waitScan" /\ Granted(scanQueue, ScanCapacity, <<p, i>>)
             /\ i \in gone => i \notin ActiveReads(p)' /\ fut'[p][i] # "waitScan",
           \/ /\ scanQueue' = Without(scanQueue, {p} \X gone)
              /\ partitionQueue'[p] = Without(partitionQueue[p], gone)
           \/ /\ UNCHANGED scanQueue
              /\ \/ partitionQueue'[p] = partitionQueue[p]
                 \/ \E j \in Nat : partitionQueue'[p] = Append(partitionQueue[p], j)
    PROVE  GrantInv' /\ QueueOrderInv'
<1>1. /\ Len(scanQueue) \in Nat /\ partitionQueue[p] \in Seq(Nat) /\ Len(partitionQueue[p]) \in Nat
      /\ permits[p] \in Nat /\ ScanCapacity \in Nat
  BY PlanFacts DEF ProducerTypeOK
<1>2. \A q \in Partitions : q # p => ActiveReads(q)' = ActiveReads(q)
  BY DEF ActiveReads
<1>3. ASSUME NEW i \in Files(p), i \in ActiveReads(p)' \/ fut'[p][i] = "waitScan"
      PROVE  Granted(partitionQueue'[p], permits'[p], i)
  <2>1. i \notin gone /\ Granted(partitionQueue[p], permits[p], i)
    BY <1>3 DEF GrantInv
  <2>2. CASE partitionQueue'[p] = Without(partitionQueue[p], gone)
    BY <1>1, <2>1, <2>2, GrantKept
  <2>3. CASE \E j \in Nat : partitionQueue'[p] = Append(partitionQueue[p], j)
    BY <1>1, <2>1, <2>3, GrantAppended
  <2> QED
    BY <2>1, <2>2, <2>3
<1>4. ASSUME NEW q \in Partitions, NEW i \in Files(q), q # p \/ i \notin gone,
             Granted(scanQueue, ScanCapacity, <<q, i>>)
      PROVE  Granted(scanQueue', ScanCapacity, <<q, i>>)
  <2>1. <<q, i>> \notin {p} \X gone
    BY <1>4
  <2> QED
    BY <1>1, <1>4, <2>1, GrantKept
<1>5. GrantInv'
  <2>1. ASSUME NEW q \in Partitions, NEW i \in Files(q)
        PROVE  /\ i \in ActiveReads(q)' \/ fut'[q][i] = "waitScan" =>
                    Granted(partitionQueue'[q], permits'[q], i)
               /\ i \in ActiveReads(q)' => Granted(scanQueue', ScanCapacity, <<q, i>>)
    <3>1. CASE q = p
      <4>1. i \in ActiveReads(p)' => Granted(scanQueue, ScanCapacity, <<p, i>>) /\ i \notin gone
        BY <3>1 DEF GrantInv
      <4> QED
        BY <1>3, <1>4, <3>1, <4>1
    <3>2. CASE q # p
      BY <1>2, <1>4, <3>2 DEF GrantInv
    <3> QED
      BY <3>1, <3>2
  <2> QED
    BY <2>1 DEF GrantInv
<1> DEFINE leaving == {p} \X gone
<1>6. ASSUME NEW q \in Partitions, NEW i \in Files(q)
      PROVE  /\ fut'[q][i] \in {"planned", "unpolled", "waitPartition"} =>
                  fut[q][i] \in {"planned", "unpolled", "waitPartition"}
             /\ fut'[q][i] = "waitScan" => fut[q][i] = "waitScan" /\ <<q, i>> \notin leaving
  BY <1>6
<1>7. scanQueue' \in {scanQueue, Without(scanQueue, leaving)}
  OBVIOUS
<1> HIDE DEF leaving
<1>8. QueueOrderInv'
  BY <1>1, <1>6, <1>7, QueueOrderKept
<1> QED
  BY <1>5, <1>8

\* The same when nobody leaves a queue.
LEMMA PermitsStay ==
    ASSUME ProducerTypeOK, GrantInv, QueueOrderInv, permits \in [Partitions -> Nat],
           NEW p \in Partitions, UNCHANGED <<permits, scanQueue>>,
           \A q \in Partitions : q # p =>
             /\ fut'[q] = fut[q] /\ thread'[q] = thread[q] /\ task'[q] = task[q]
             /\ partitionQueue'[q] = partitionQueue[q],
           \A i \in Files(p) :
             /\ fut'[p][i] \in {"planned", "unpolled", "waitPartition"} =>
                  fut[p][i] \in {"planned", "unpolled", "waitPartition"}
             /\ fut'[p][i] = "waitScan" => fut[p][i] = "waitScan"
             /\ i \in ActiveReads(p)' =>
                  \/ i \in ActiveReads(p)
                  \/ fut[p][i] = "waitScan" /\ Granted(scanQueue, ScanCapacity, <<p, i>>),
           \/ partitionQueue'[p] = partitionQueue[p]
           \/ \E j \in Nat : partitionQueue'[p] = Append(partitionQueue[p], j)
    PROVE  GrantInv' /\ QueueOrderInv'
<1>1. PICK gone : gone = {}
  OBVIOUS
<1>2. \A i \in Files(p) : i \in gone => i \notin ActiveReads(p)' /\ fut'[p][i] # "waitScan"
  BY <1>1
<1> QED
  BY <1>2, PermitsKept

\* A file that obtains its partition permit joins the scan's queue behind every
\* earlier file of its partition.
LEMMA PermitObtained ==
    ASSUME ProducerTypeOK, FutureInv, GrantInv, QueueOrderInv, permits \in [Partitions -> Nat],
           NEW p \in Partitions, NEW i \in Files(p), GetPartitionPermit(p, i)
    PROVE  GrantInv' /\ QueueOrderInv'
<1>1. /\ fut[p][i] = "waitPartition" /\ Granted(partitionQueue[p], permits[p], i)
      /\ \A j \in Files(p) : j < i => fut[p][j] # "waitPartition"
      /\ scanQueue' = Append(scanQueue, <<p, i>>)
      /\ UNCHANGED <<permits, partitionQueue, thread, task>>
  BY DEF GetPartitionPermit, EarlierPast
<1>2. /\ Len(scanQueue) \in Nat /\ scanQueue \in Seq(Partitions \X Nat) /\ <<p, i>> \in Partitions \X Nat
      /\ \A q \in Partitions : \A j \in Files(q) : j \in Nat
      /\ ScanCapacity \in Nat
  BY PlanFacts DEF ProducerTypeOK
<1>3. /\ fut'[p][i] = "waitScan"
      /\ \A q \in Partitions : \A j \in Files(q) : <<q, j>> # <<p, i>> => fut'[q][j] = fut[q][j]
  BY DEF GetPartitionPermit, SetFuture, ProducerTypeOK, OfFiles
<1>4. \A q \in Partitions : ActiveReads(q)' \subseteq ActiveReads(q)
  BY <1>1, <1>3 DEF ActiveReads
<1>5. ASSUME NEW q \in Partitions, NEW j \in Files(q), Granted(scanQueue, ScanCapacity, <<q, j>>)
      PROVE  Granted(scanQueue', ScanCapacity, <<q, j>>)
  BY <1>1, <1>2, <1>5, GrantAppended
<1>6. GrantInv'
  <2>1. ASSUME NEW q \in Partitions, NEW j \in Files(q)
        PROVE  /\ j \in ActiveReads(q)' \/ fut'[q][j] = "waitScan" =>
                    Granted(partitionQueue'[q], permits'[q], j)
               /\ j \in ActiveReads(q)' => Granted(scanQueue', ScanCapacity, <<q, j>>)
    BY <1>1, <1>3, <1>4, <1>5 DEF GrantInv
  <2> QED
    BY <2>1 DEF GrantInv
<1>7. /\ Len(scanQueue') = Len(scanQueue) + 1 /\ scanQueue'[Len(scanQueue) + 1] = <<p, i>>
      /\ \A k \in 1..Len(scanQueue) : scanQueue'[k] = scanQueue[k]
  BY <1>1, <1>2
<1>8. \A k \in 1..Len(scanQueue) : scanQueue[k][1] = p => ~(i <= scanQueue[k][2])
  BY <1>1 DEF QueueOrderInv
<1>9. \A j \in Files(p) : j < i => fut[p][j] \notin {"planned", "unpolled", "waitPartition"}
  BY <1>1 DEF FutureInv, FutureOK
<1>10. \A c : /\ Ahead(scanQueue, Len(scanQueue) + 1, c) => Ahead(scanQueue', Len(scanQueue') + 1, c)
              /\ Ahead(scanQueue, Len(scanQueue) + 1, c) => Ahead(scanQueue', Len(scanQueue'), c)
              /\ \A k \in 1..Len(scanQueue) : Ahead(scanQueue, k, c) => Ahead(scanQueue', k, c)
  <2>1. ASSUME NEW c, NEW k \in 1..(Len(scanQueue) + 1), NEW n \in Nat, k <= n,
               Ahead(scanQueue, k, c)
        PROVE  Ahead(scanQueue', n, c)
    <3>1. PICK m \in 1..(k - 1) : scanQueue[m] = c
      BY <2>1 DEF Ahead
    <3>2. Len(scanQueue) \in Nat
      BY <1>2
    <3>3. m \in 1..(n - 1) /\ m \in 1..Len(scanQueue)
      BY <2>1, <3>2
    <3>4. scanQueue'[m] = c
      BY <1>7, <3>1, <3>3
    <3> QED
      BY <3>3, <3>4 DEF Ahead
  <2> QED
    BY <1>2, <1>7, <2>1
<1>11. Ahead(scanQueue', Len(scanQueue') + 1, <<p, i>>)
  BY <1>2, <1>7 DEF Ahead
<1>12. ASSUME NEW q \in Partitions, NEW j \in Files(q), fut'[q][j] = "waitScan"
       PROVE  Ahead(scanQueue', Len(scanQueue') + 1, <<q, j>>)
  BY <1>3, <1>10, <1>11, <1>12 DEF QueueOrderInv
<1>13. ASSUME NEW q \in Partitions, NEW j \in Files(q), NEW k \in 1..Len(scanQueue'),
              scanQueue'[k][1] = q
       PROVE  /\ j <= scanQueue'[k][2] => fut'[q][j] \notin {"planned", "unpolled", "waitPartition"}
              /\ j < scanQueue'[k][2] /\ fut'[q][j] = "waitScan" => Ahead(scanQueue', k, <<q, j>>)
  <2>1. CASE k = Len(scanQueue) + 1
    <3>1. q = p /\ scanQueue'[k][2] = i /\ k = Len(scanQueue')
      BY <1>2, <1>7, <1>13, <2>1
    <3>2. j <= i => fut'[q][j] \notin {"planned", "unpolled", "waitPartition"}
      BY <1>2, <1>3, <1>9, <3>1
    <3>3. j < i /\ fut'[q][j] = "waitScan" => fut[q][j] = "waitScan"
      <4>1. j \in Nat /\ i \in Nat
        BY <1>2
      <4>2. j < i => <<q, j>> # <<p, i>>
        BY <4>1
      <4> QED
        BY <1>3, <4>2
    <3>4. j < i /\ fut'[q][j] = "waitScan" => Ahead(scanQueue', k, <<q, j>>)
      BY <1>10, <3>1, <3>3 DEF QueueOrderInv
    <3> QED
      BY <3>1, <3>2, <3>4
  <2>2. CASE k \in 1..Len(scanQueue)
    <3>1. /\ scanQueue[k] \in Partitions \X Nat /\ scanQueue'[k] = scanQueue[k]
          /\ scanQueue[k][1] = q
      BY <1>2, <1>7, <1>13, <2>2, SMTT(20)
    <3>2. q = p => scanQueue[k][2] < i
      BY <1>2, <1>8, <2>2, <3>1
    <3>3. j <= scanQueue[k][2] => fut'[q][j] = fut[q][j]
      BY <1>2, <1>3, <3>1, <3>2
    <3>4. /\ j <= scanQueue[k][2] => fut[q][j] \notin {"planned", "unpolled", "waitPartition"}
          /\ j < scanQueue[k][2] /\ fut[q][j] = "waitScan" => Ahead(scanQueue, k, <<q, j>>)
      BY <2>2, <3>1 DEF QueueOrderInv
    <3>5. j < scanQueue[k][2] => j <= scanQueue[k][2]
      BY <1>2, <3>1
    <3> QED
      BY <1>10, <2>2, <3>1, <3>3, <3>4, <3>5
  <2> QED
    BY <1>2, <1>7, <2>1, <2>2
<1>14. QueueOrderInv'
  BY <1>12, <1>13 DEF QueueOrderInv
<1> QED
  BY <1>6, <1>14

(* ---- what a step of a producer changes ---------------------------------- *)

\* A step leaves everything of partition q alone, but may set its flag.
Untouched(q) ==
    /\ next'[q] = next[q] /\ inFlight'[q] = inFlight[q] /\ ready'[q] = ready[q]
    /\ current'[q] = current[q] /\ hand'[q] = hand[q] /\ fut'[q] = fut[q]
    /\ yielded'[q] = yielded[q] /\ thread'[q] = thread[q] /\ queued'[q] = queued[q]
    /\ partitionQueue'[q] = partitionQueue[q]
    /\ state'[q] = state[q] /\ task'[q] = task[q] /\ out'[q] = out[q]
    /\ permits'[q] = permits[q] /\ reads'[q] = reads[q] /\ sent'[q] = sent[q]
    /\ cancelled[q] => cancelled'[q]

Typed == StreamTypeOK /\ ProducerTypeOK

LEMMA FutureSet ==
    ASSUME OfFiles(fut), NEW p \in Partitions, NEW i \in Files(p), NEW to, SetFuture(p, i, to)
    PROVE  /\ OfFiles(fut)'
           /\ \A q \in Partitions : q # p => fut'[q] = fut[q]
           /\ fut'[p][i] = to
           /\ \A j \in Files(p) : j # i => fut'[p][j] = fut[p][j]
BY DEF OfFiles, SetFuture

\* The types of what a step leaves alone.
LEMMA FilesTyped ==
    ASSUME Typed, OfFiles(fut)',
           next' \in [Partitions -> Nat],
           inFlight' \in [Partitions -> Seq(Nat)], ready' \in [Partitions -> Seq(Nat)],
           current' \in [Partitions -> Nat], hand' \in [Partitions -> BOOLEAN],
           \A q \in Partitions : \A j \in Files(q) : fut'[q][j] \in FutureStates,
           UNCHANGED <<yielded, thread, queued>>,
           partitionQueue' \in [Partitions -> Seq(Nat)],
           scanQueue' \in Seq(Partitions \X Nat)
    PROVE  ProducerTypeOK'
<1>1. OfFiles(yielded)' /\ OfFiles(thread)' /\ OfFiles(queued)'
  BY DEF Typed, ProducerTypeOK, OfFiles
<1>2. \A q \in Partitions : \A j \in Files(q) :
         /\ fut'[q][j] \in FutureStates /\ thread'[q][j] \in ThreadStates
         /\ yielded'[q][j] \in Nat /\ queued'[q][j] \in Nat
  BY DEF Typed, ProducerTypeOK
<1> QED
  BY <1>1, <1>2 DEF ProducerTypeOK

LEMMA ReleaseFacts ==
    ASSUME Typed, NEW p \in Partitions, NEW gone, Release(p, gone)
    PROVE  /\ partitionQueue' \in [Partitions -> Seq(Nat)]
           /\ scanQueue' \in Seq(Partitions \X Nat)
           /\ reads' \in [Partitions -> Nat]
           /\ \A q \in Partitions : q # p =>
                partitionQueue'[q] = partitionQueue[q] /\ reads'[q] = reads[q]
           /\ partitionQueue'[p] = Without(partitionQueue[p], gone)
           /\ scanQueue' = Without(scanQueue, {p} \X gone)
           /\ reads'[p] = Cardinality(Reading(p) \ gone)
<1>1. /\ partitionQueue \in [Partitions -> Seq(Nat)] /\ scanQueue \in Seq(Partitions \X Nat)
      /\ reads \in [Partitions -> Nat]
  BY DEF Typed, ProducerTypeOK, StreamTypeOK
<1>2. Without(partitionQueue[p], gone) \in Seq(Nat)
  BY <1>1, WithoutType
<1>3. Without(scanQueue, {p} \X gone) \in Seq(Partitions \X Nat)
  BY <1>1, WithoutType
<1>4. Cardinality(Reading(p) \ gone) \in Nat
  <2>1. Reading(p) \ gone \subseteq Files(p)
    BY DEF Reading
  <2>2. IsFiniteSet(Reading(p) \ gone)
    BY <2>1, PlanFacts, FS_Subset
  <2> QED
    BY <2>2, FS_CardinalityType
<1> QED
  BY <1>1, <1>2, <1>3, <1>4 DEF Release

LEMMA UntouchedOK ==
    ASSUME NEW q \in Partitions, Untouched(q), FutureOK(q), DrainOK(q)
    PROVE  FutureOK(q)' /\ DrainOK(q)'
<1>1. FutureOK(q)'
  BY DEF FutureOK, Untouched
<1>2. PipelineOK(q)'
  BY DEF DrainOK, PipelineOK, Taken, Untouched
<1>3. ReadOK(q)'
  BY DEF DrainOK, ReadOK, Untouched
<1>4. SentOK(q)'
  BY DEF DrainOK, SentOK, Handed, Untouched
<1>5. CountOK(q)'
  BY DEF DrainOK, CountOK, Reading, Untouched
<1> QED
  BY <1>1, <1>2, <1>3, <1>4, <1>5 DEF DrainOK

LEMMA LineTypes ==
    ASSUME Typed, NEW p \in Partitions
    PROVE  /\ next[p] \in Nat /\ current[p] \in Nat /\ Len(FileTasks[p]) \in Nat
           /\ inFlight[p] \in Seq(Nat) /\ Len(inFlight[p]) \in Nat /\ Taken(p) \in Int
           /\ ready[p] \in Seq(Nat) /\ Len(ready[p]) \in Nat
           /\ \A k \in 1..Len(ready[p]) : ready[p][k] \in Nat
<1>1. /\ next[p] \in Nat /\ current[p] \in Nat
      /\ inFlight[p] \in Seq(Nat) /\ ready[p] \in Seq(Nat)
  BY DEF Typed, ProducerTypeOK
<1> QED
  BY <1>1, PlanFacts, SMTT(20) DEF Taken

\* The line of files stays as it is, and so do the files that are done with.
LEMMA PipelineKept ==
    ASSUME Typed, NEW p \in Partitions, PipelineOK(p),
           task[p] \in {"none", "running", "failing"} \/ task'[p] \notin {"none", "running", "failing"},
           next'[p] = next[p], inFlight'[p] = inFlight[p], ready'[p] = ready[p],
           current'[p] = current[p],
           \A i \in Files(p) :
             /\ fut[p][i] \in {"ended", "skipped"} => fut'[p][i] \in {"ended", "skipped"}
             /\ fut'[p][i] = "ended" => fut[p][i] = "ended"
    PROVE  PipelineOK(p)'
<1> SUFFICES ASSUME task[p] \in {"none", "running", "failing"}, task'[p] \in {"none", "running", "failing"}
             PROVE  PipelineOK(p)'
  BY DEF PipelineOK
<1>1. Taken(p)' = Taken(p) /\ Taken(p) \in Int /\ Len(FileTasks[p]) \in Nat
  BY LineTypes DEF Taken
<1>2. 1..Taken(p) \subseteq Files(p)
  BY <1>1, LineTypes DEF PipelineOK, Files, Taken
<1>3. \A i \in 1..Taken(p)' :
         \/ i = current'[p] \/ fut'[p][i] \in {"ended", "skipped"}
         \/ \E k \in 1..Len(ready'[p]) : ready'[p][k] = i
  BY <1>1, <1>2 DEF PipelineOK
<1> QED
  BY <1>1, <1>3 DEF PipelineOK

\* The future of file i moves on.
LEMMA FutureMoves ==
    ASSUME Typed, NEW p \in Partitions, FutureOK(p), task[p] = "running",
           NEW i \in Files(p), NEW to, SetFuture(p, i, to),
           to \notin {"planned", "unpolled", "dropped"}, fut[p][i] # "planned",
           to = "waitPartition" => \A j \in Files(p) : j < i => fut[p][j] # "unpolled",
           to = "opening" => Backend = "Direct",
           UNCHANGED <<state, task, next>>,
           \A j \in Files(p) : thread'[p][j] \in {"running", "sending"} =>
             \/ thread[p][j] \in {"running", "sending"} /\ (j = i => to = "open")
             \/ j = i /\ to = "open" /\ Backend # "Direct",
           \A j \in Files(p) : current'[p] = j => current[p] = j /\ (j = i => to = "open")
    PROVE  FutureOK(p)'
<1>1. /\ \A j \in Files(p) : j # i => fut'[p][j] = fut[p][j]
      /\ fut'[p][i] = to
  BY FutureSet DEF Typed, ProducerTypeOK
<1>2. next[p] \in Nat /\ i \in Nat /\ Files(p) \subseteq Nat
  BY PlanFacts DEF Typed, ProducerTypeOK
<1>3. fut[p][i] # "dropped" /\ ~(i > next[p])
  BY DEF FutureOK
<1>4. \A j \in Files(p) : j < i /\ to = "waitPartition" =>
         fut[p][j] \notin {"planned", "unpolled"}
  BY <1>2, <1>3 DEF FutureOK
<1>5. ASSUME NEW j \in Files(p), fut'[p][j] = "waitPartition", NEW k \in Files(p), k < j
      PROVE  fut'[p][k] \notin {"planned", "unpolled"}
  BY <1>1, <1>2, <1>4, <1>5 DEF FutureOK
<1>6. ASSUME NEW j \in Files(p)
      PROVE  /\ fut'[p][j] = "dropped" <=> task[p] \notin {"none", "running", "failing"}
             /\ fut'[p][j] # "dropped" => (fut'[p][j] = "planned" <=> j > next[p])
             /\ thread'[p][j] \in {"running", "sending"} =>
                  Backend # "Direct" /\ fut'[p][j] \in {"open", "dropped"}
             /\ fut'[p][j] = "opening" => Backend = "Direct"
             /\ current'[p] = j => fut'[p][j] = "open"
  BY <1>1, <1>3 DEF FutureOK
<1> QED
  BY <1>5, <1>6 DEF FutureOK

LEMMA StepAssembled ==
    ASSUME SchedulingInv, NEW p \in Partitions, Typed',
           \A q \in Partitions : q # p => Untouched(q),
           FutureOK(p)', GrantInv', QueueOrderInv',
           PipelineOK(p)', ReadOK(p)', SentOK(p)', CountOK(p)'
    PROVE  SchedulingInv'
<1>1. ASSUME NEW q \in Partitions PROVE FutureOK(q)' /\ DrainOK(q)'
  <2>1. CASE q = p
    BY <2>1 DEF DrainOK
  <2>2. CASE q # p
    BY <2>2, UntouchedOK DEF SchedulingInv, ProducerInv, FutureInv
  <2> QED
    BY <2>1, <2>2
<1> QED
  BY <1>1 DEF SchedulingInv, ProducerInv, FutureInv, Typed

(* ---- the steps of a scheduled future ------------------------------------ *)

\* A future that is polled first joins the partition's queue, or ends at once.
LEMMA PollNewInv ==
    ASSUME SchedulingInv, NEW p \in Partitions, NEW i \in Files(p), PollNew(p, i)
    PROVE  SchedulingInv'
<1> USE DEF SchedulingInv, ProducerInv
<1>1. PICK to \in {"cancelled", "waitPartition", "skipped"} :
        /\ SetFuture(p, i, to)
        /\ to = "skipped" => <<p, i>> \in SkippedFiles
        /\ \/ UNCHANGED partitionQueue
           \/ partitionQueue' = [partitionQueue EXCEPT ![p] = Append(@, i)]
  BY DEF PollNew
<1>2. /\ UNCHANGED <<streamVars, next, inFlight, ready, current, hand, yielded, thread,
                     queued, scanQueue>>
      /\ task[p] = "running" /\ fut[p][i] = "unpolled"
      /\ \A j \in Files(p) : j < i => fut[p][j] # "unpolled"
  BY DEF PollNew, Polling, EarlierPast
<1>3. /\ OfFiles(fut)'
      /\ \A q \in Partitions : q # p => fut'[q] = fut[q]
      /\ fut'[p][i] = to /\ \A j \in Files(p) : j # i => fut'[p][j] = fut[p][j]
  BY <1>1, FutureSet DEF ProducerTypeOK
<1>4. /\ i \in Nat /\ Files(p) \subseteq Nat
      /\ partitionQueue' \in [Partitions -> Seq(Nat)]
      /\ \A q \in Partitions : q # p => partitionQueue'[q] = partitionQueue[q]
      /\ \/ partitionQueue'[p] = partitionQueue[p]
         \/ \E j \in Nat : partitionQueue'[p] = Append(partitionQueue[p], j)
  <2>1. i \in Nat /\ Files(p) \subseteq Nat
    BY PlanFacts
  <2>2. partitionQueue \in [Partitions -> Seq(Nat)]
    BY DEF ProducerTypeOK
  <2>3. Append(partitionQueue[p], i) \in Seq(Nat)
    BY <2>1, <2>2
  <2> QED
    BY <1>1, <2>1, <2>2, <2>3
<1>5. Typed'
  <2>1. StreamTypeOK'
    BY <1>2 DEF StreamTypeOK, streamVars
  <2>2. \A q \in Partitions : \A j \in Files(q) : fut'[q][j] \in FutureStates
    BY <1>3, ZenonT(30) DEF ProducerTypeOK, FutureStates
  <2> QED
    BY <1>2, <1>3, <1>4, <2>1, <2>2, FilesTyped DEF Typed, ProducerTypeOK
<1>6. \A q \in Partitions : q # p => Untouched(q)
  BY <1>2, <1>3, <1>4 DEF Untouched, streamVars
<1>7. FutureOK(p)'
  <2>1. FutureOK(p)
    BY DEF FutureInv
  <2>2. UNCHANGED <<state, task, next, current, thread>>
    BY <1>2 DEF streamVars
  <2>3. current[p] # i /\ thread[p][i] \notin {"running", "sending"}
    BY <1>2, <2>1 DEF FutureOK
  <2> QED
    BY <1>1, <1>2, <2>1, <2>2, <2>3, FutureMoves DEF Typed
<1>8. GrantInv' /\ QueueOrderInv'
  <2>1. thread[p][i] \notin {"running", "sending"}
    BY <1>2 DEF FutureInv, FutureOK
  <2>2. \A j \in Files(p) : j \in ActiveReads(p)' => j \in ActiveReads(p)
    BY <1>2, <1>3 DEF ActiveReads, streamVars
  <2>3. permits \in [Partitions -> Nat] /\ permits' = permits /\ scanQueue' = scanQueue
    BY <1>2 DEF StreamTypeOK, streamVars
  <2>4. \A j \in Files(p) :
          /\ fut'[p][j] \in {"planned", "unpolled", "waitPartition"} =>
               fut[p][j] \in {"planned", "unpolled", "waitPartition"}
          /\ fut'[p][j] = "waitScan" => fut[p][j] = "waitScan"
    BY <1>2, <1>3
  <2>5. \A q \in Partitions : q # p =>
             /\ fut'[q] = fut[q] /\ thread'[q] = thread[q] /\ task'[q] = task[q]
             /\ partitionQueue'[q] = partitionQueue[q]
    BY <1>2, <1>3, <1>4 DEF streamVars
  <2> QED
    BY <1>4, <2>2, <2>3, <2>4, <2>5, PermitsStay
<1>9. PipelineOK(p)' /\ ReadOK(p)' /\ SentOK(p)'
  <2>1. PipelineOK(p)'
    BY <1>2, <1>3, PipelineKept DEF DrainOK, Typed, streamVars
  <2>2. ReadOK(p)'
    BY <1>1, <1>2, <1>3 DEF DrainOK, ReadOK, streamVars
  <2>3. SentOK(p)'
    BY <1>1, <1>2, <1>3 DEF DrainOK, SentOK, Handed, streamVars, Batches, Files
  <2> QED
    BY <2>1, <2>2, <2>3
<1>10. CountOK(p)'
  <2>1. Reading(p)' = Reading(p)
    BY <1>2, <1>3 DEF Reading
  <2> QED
    BY <1>2, <2>1 DEF DrainOK, CountOK, streamVars
<1> QED
  BY <1>5, <1>6, <1>7, <1>8, <1>9, <1>10, StepAssembled

\* A file that has its partition permit joins the scan's queue.
LEMMA GetPartitionPermitInv ==
    ASSUME SchedulingInv, NEW p \in Partitions, NEW i \in Files(p), GetPartitionPermit(p, i)
    PROVE  SchedulingInv'
<1> USE DEF SchedulingInv, ProducerInv
<1>1. /\ SetFuture(p, i, "waitScan") /\ fut[p][i] = "waitPartition" /\ task[p] = "running"
      /\ scanQueue' = Append(scanQueue, <<p, i>>)
      /\ reads' = [reads EXCEPT ![p] = @ + 1]
      /\ UNCHANGED <<cancelled, state, task, out, permits, sent, next, inFlight, ready,
                     current, hand, yielded, thread, queued, partitionQueue>>
  BY DEF GetPartitionPermit, Polling
<1>2. /\ OfFiles(fut)'
      /\ \A q \in Partitions : q # p => fut'[q] = fut[q]
      /\ fut'[p][i] = "waitScan" /\ \A j \in Files(p) : j # i => fut'[p][j] = fut[p][j]
  BY <1>1, FutureSet DEF ProducerTypeOK
<1>3. FutureOK(p) /\ DrainOK(p)
  BY DEF FutureInv
<1>4. current[p] # i /\ thread[p][i] \notin {"running", "sending"}
  BY <1>1, <1>3 DEF FutureOK
<1>5. Typed'
  <2>1. StreamTypeOK'
    BY <1>1 DEF StreamTypeOK
  <2>2. \A q \in Partitions : \A j \in Files(q) : fut'[q][j] \in FutureStates
    BY <1>2, ZenonT(30) DEF ProducerTypeOK, FutureStates
  <2>3. scanQueue' \in Seq(Partitions \X Nat)
    BY <1>1, PlanFacts DEF ProducerTypeOK
  <2> QED
    BY <1>1, <1>2, <2>1, <2>2, <2>3, FilesTyped DEF Typed, ProducerTypeOK
<1>6. \A q \in Partitions : q # p => Untouched(q)
  BY <1>1, <1>2 DEF Untouched
<1>7. FutureOK(p)'
  BY <1>1, <1>3, <1>4, FutureMoves DEF Typed
<1>8. GrantInv' /\ QueueOrderInv'
  BY PermitObtained DEF StreamTypeOK
<1>9. PipelineOK(p)'
  BY <1>1, <1>2, <1>3, PipelineKept DEF DrainOK, Typed
<1>10. ReadOK(p)'
  BY <1>1, <1>2, <1>3 DEF DrainOK, ReadOK
<1>11. SentOK(p)'
  BY <1>1, <1>2, <1>3 DEF DrainOK, SentOK, Handed, Batches, Files
<1>12. CountOK(p)'
  <2>1. i \notin Reading(p) /\ Reading(p)' = Reading(p) \cup {i}
    BY <1>1, <1>2, <1>4 DEF Reading
  <2>2. Reading(p) \subseteq Files(p)
    BY DEF Reading
  <2>3. IsFiniteSet(Reading(p))
    BY <2>2, PlanFacts, FS_Subset
  <2>4. Cardinality(Reading(p)') = Cardinality(Reading(p)) + 1
    BY <2>1, <2>3, FS_AddElement
  <2> QED
    BY <1>1, <1>3, <2>4 DEF DrainOK, CountOK, StreamTypeOK
<1> QED
  BY <1>5, <1>6, <1>7, <1>8, <1>9, <1>10, <1>11, <1>12, StepAssembled

\* thread' of one file.
SetThread(p, i, to) == thread' = [thread EXCEPT ![p][i] = to]

LEMMA ThreadSet ==
    ASSUME OfFiles(thread), NEW p \in Partitions, NEW i \in Files(p), NEW to, SetThread(p, i, to)
    PROVE  /\ OfFiles(thread)'
           /\ \A q \in Partitions : q # p => thread'[q] = thread[q]
           /\ thread'[p][i] = to
           /\ \A j \in Files(p) : j # i => thread'[p][j] = thread[p][j]
BY DEF OfFiles, SetThread

\* The types after a step that sets a future, a thread, or both.
LEMMA PermitStepTyped ==
    ASSUME Typed, NEW p \in Partitions, NEW i \in Files(p),
           (\E to \in FutureStates : SetFuture(p, i, to)) \/ UNCHANGED fut,
           (\E to \in ThreadStates : SetThread(p, i, to)) \/ UNCHANGED thread,
           partitionQueue' \in [Partitions -> Seq(Nat)],
           scanQueue' \in Seq(Partitions \X Nat),
           reads' \in [Partitions -> Nat],
           current' \in [Partitions -> Nat],
           UNCHANGED <<cancelled, state, task, permits, next, inFlight, ready, hand,
                       yielded, queued>>
    PROVE  Typed'
<1>1. StreamTypeOK'
  BY DEF StreamTypeOK, Typed
<1>2. OfFiles(fut) /\ OfFiles(thread) /\ OfFiles(yielded)' /\ OfFiles(queued)'
  BY DEF Typed, ProducerTypeOK, OfFiles
<1>3. OfFiles(fut)' /\ \A q \in Partitions : \A j \in Files(q) : fut'[q][j] \in FutureStates
  <2>1. CASE UNCHANGED fut
    BY <1>2, <2>1 DEF Typed, ProducerTypeOK, OfFiles
  <2>2. CASE \E to \in FutureStates : SetFuture(p, i, to)
    <3>1. PICK to \in FutureStates : SetFuture(p, i, to)
      BY <2>2
    <3>2. /\ OfFiles(fut)' /\ \A q \in Partitions : q # p => fut'[q] = fut[q]
          /\ fut'[p][i] = to /\ \A j \in Files(p) : j # i => fut'[p][j] = fut[p][j]
      BY <1>2, <3>1, FutureSet
    <3> QED
      BY <3>2 DEF Typed, ProducerTypeOK
  <2> QED
    BY <2>1, <2>2
<1>4. OfFiles(thread)' /\ \A q \in Partitions : \A j \in Files(q) : thread'[q][j] \in ThreadStates
  <2>1. CASE UNCHANGED thread
    BY <1>2, <2>1 DEF Typed, ProducerTypeOK, OfFiles
  <2>2. CASE \E to \in ThreadStates : SetThread(p, i, to)
    <3>1. PICK to \in ThreadStates : SetThread(p, i, to)
      BY <2>2
    <3>2. /\ OfFiles(thread)' /\ \A q \in Partitions : q # p => thread'[q] = thread[q]
          /\ thread'[p][i] = to /\ \A j \in Files(p) : j # i => thread'[p][j] = thread[p][j]
      BY <1>2, <3>1, ThreadSet
    <3> QED
      BY <3>2 DEF Typed, ProducerTypeOK
  <2> QED
    BY <2>1, <2>2
<1>5. \A q \in Partitions : \A j \in Files(q) : yielded'[q][j] \in Nat /\ queued'[q][j] \in Nat
  BY DEF Typed, ProducerTypeOK
<1>6. /\ next' \in [Partitions -> Nat] /\ hand' \in [Partitions -> BOOLEAN]
      /\ inFlight' \in [Partitions -> Seq(Nat)] /\ ready' \in [Partitions -> Seq(Nat)]
  BY DEF Typed, ProducerTypeOK
<1>7. \A q \in Partitions : \A j \in Files(q) :
         /\ fut'[q][j] \in FutureStates /\ thread'[q][j] \in ThreadStates
         /\ yielded'[q][j] \in Nat /\ queued'[q][j] \in Nat
  BY <1>3, <1>4, <1>5
<1> QED
  BY <1>1, <1>2, <1>3, <1>4, <1>6, <1>7 DEF Typed, ProducerTypeOK

\* A file that has both permits is opened, or handed to a blocking thread; then
\* a Direct file is open.
LEMMA OpenInv ==
    ASSUME SchedulingInv, NEW p \in Partitions, NEW i \in Files(p),
           GetScanPermit(p, i) \/ OpenFile(p, i)
    PROVE  SchedulingInv'
<1> USE DEF SchedulingInv, ProducerInv
<1>1. /\ UNCHANGED <<streamVars, next, inFlight, ready, current, hand, yielded, queued,
                     partitionQueue, scanQueue>>
      /\ task[p] = "running"
  BY DEF GetScanPermit, OpenFile, Polling
<1>2. FutureOK(p) /\ DrainOK(p) /\ StreamTypeOK /\ ProducerTypeOK
  BY DEF FutureInv
<1>3. PICK to \in {"opening", "open"} :
        /\ SetFuture(p, i, to)
        /\ fut[p][i] \in {"waitScan", "opening"}
        /\ UNCHANGED thread \/ (SetThread(p, i, "running") /\ to = "open" /\ Backend # "Direct")
        /\ fut[p][i] = "waitScan" => Granted(scanQueue, ScanCapacity, <<p, i>>)
        /\ fut[p][i] = "opening" \/ Backend = "Direct" => UNCHANGED thread
        /\ Backend # "Direct" /\ fut[p][i] = "waitScan" => SetThread(p, i, "running")
        /\ to = "opening" => Backend = "Direct"
  <2>1. CASE GetScanPermit(p, i)
    BY <2>1 DEF GetScanPermit, SetThread
  <2>2. CASE OpenFile(p, i)
    BY <2>2 DEF OpenFile
  <2> QED
    BY <2>1, <2>2
<1>4. /\ \A q \in Partitions : q # p => fut'[q] = fut[q] /\ thread'[q] = thread[q]
      /\ fut'[p][i] = to /\ \A j \in Files(p) : j # i => fut'[p][j] = fut[p][j]
      /\ \A j \in Files(p) : j # i => thread'[p][j] = thread[p][j]
      /\ UNCHANGED thread \/ thread'[p][i] = "running"
      /\ Backend # "Direct" /\ fut[p][i] = "waitScan" => thread'[p][i] = "running"
  <2>1. /\ \A q \in Partitions : q # p => fut'[q] = fut[q]
        /\ fut'[p][i] = to /\ \A j \in Files(p) : j # i => fut'[p][j] = fut[p][j]
    BY <1>2, <1>3, FutureSet DEF ProducerTypeOK
  <2>2. CASE UNCHANGED thread
    <3>1. ~(Backend # "Direct" /\ fut[p][i] = "waitScan")
      <4>1. thread[p][i] # "running"
        BY <1>2, <1>3 DEF FutureOK
      <4>2. SetThread(p, i, "running") => thread'[p][i] = "running"
        BY <1>2, ThreadSet DEF ProducerTypeOK
      <4> QED
        BY <1>3, <2>2, <4>1, <4>2
    <3> QED
      BY <2>1, <2>2, <3>1
  <2>3. CASE SetThread(p, i, "running")
    <3>1. /\ \A q \in Partitions : q # p => thread'[q] = thread[q]
          /\ thread'[p][i] = "running"
          /\ \A j \in Files(p) : j # i => thread'[p][j] = thread[p][j]
      BY <1>2, <2>3, ThreadSet DEF ProducerTypeOK
    <3> QED
      BY <2>1, <3>1
  <2> QED
    BY <1>3, <2>2, <2>3
<1>5. current[p] # i /\ thread[p][i] \notin {"running", "sending"}
  BY <1>2, <1>3 DEF FutureOK
<1>6. Typed'
  <2>1. /\ partitionQueue' \in [Partitions -> Seq(Nat)] /\ scanQueue' \in Seq(Partitions \X Nat)
        /\ reads' \in [Partitions -> Nat] /\ current' \in [Partitions -> Nat]
    BY <1>1, <1>2 DEF ProducerTypeOK, StreamTypeOK, streamVars
  <2>2. to \in FutureStates /\ "running" \in ThreadStates
    BY <1>3 DEF FutureStates, ThreadStates
  <2> QED
    BY <1>1, <1>2, <1>3, <2>1, <2>2, PermitStepTyped DEF Typed, streamVars
<1>7. \A q \in Partitions : q # p => Untouched(q)
  BY <1>1, <1>4 DEF Untouched, streamVars
<1>8. FutureOK(p)'
  BY <1>1, <1>2, <1>3, <1>4, <1>5, FutureMoves DEF Typed, streamVars
<1>9. GrantInv' /\ QueueOrderInv'
  <2>1. \A j \in Files(p) :
          /\ fut'[p][j] \in {"planned", "unpolled", "waitPartition"} =>
               fut[p][j] \in {"planned", "unpolled", "waitPartition"}
          /\ fut'[p][j] = "waitScan" => fut[p][j] = "waitScan"
    BY <1>3, <1>4
  <2>2. \A j \in Files(p) : j \in ActiveReads(p)' =>
          \/ j \in ActiveReads(p)
          \/ fut[p][j] = "waitScan" /\ Granted(scanQueue, ScanCapacity, <<p, j>>)
    BY <1>1, <1>3, <1>4 DEF ActiveReads, streamVars
  <2>3. /\ permits \in [Partitions -> Nat]
        /\ UNCHANGED <<permits, scanQueue, task, partitionQueue>>
    BY <1>1, <1>2 DEF StreamTypeOK, streamVars
  <2>4. \A q \in Partitions : q # p =>
             /\ fut'[q] = fut[q] /\ thread'[q] = thread[q] /\ task'[q] = task[q]
             /\ partitionQueue'[q] = partitionQueue[q]
    BY <1>4, <2>3
  <2> QED
    BY <2>1, <2>2, <2>3, <2>4, PermitsStay
<1>10. PipelineOK(p)'
  BY <1>1, <1>2, <1>3, <1>4, PipelineKept DEF DrainOK, Typed, streamVars
<1>11. ReadOK(p)'
  BY <1>1, <1>2, <1>3, <1>4, <1>5 DEF DrainOK, ReadOK, streamVars
<1>12. SentOK(p)'
  BY <1>1, <1>2, <1>3, <1>4 DEF DrainOK, SentOK, Handed, Batches, Files, streamVars
<1>13. CountOK(p)'
  <2>1. Reading(p)' = Reading(p)
    <3>1. fut[p][i] = "opening" => Backend = "Direct"
      BY <1>2 DEF FutureOK
    <3> QED
      BY <1>3, <1>4, <1>5, <3>1 DEF Reading
  <2> QED
    BY <1>1, <1>2, <2>1 DEF DrainOK, CountOK, streamVars
<1> QED
  BY <1>6, <1>7, <1>8, <1>9, <1>10, <1>11, <1>12, <1>13, StepAssembled

\* A future that fails gives up what it holds or waits for.
LEMMA FutureFailsInv ==
    ASSUME SchedulingInv, NEW p \in Partitions, NEW i \in Files(p), FutureFails(p, i)
    PROVE  SchedulingInv'
<1> USE DEF SchedulingInv, ProducerInv
<1>1. PICK to \in {"failed", "cancelled"} :
        SetFuture(p, i, to) /\ fut[p][i] \in {"waitPartition", "waitScan", "opening"}
  BY DEF FutureFails
<1>2. /\ UNCHANGED <<cancelled, state, task, out, permits, sent, next, inFlight, ready,
                     current, hand, yielded, thread, queued>>
      /\ Release(p, {i}) /\ task[p] = "running"
  BY DEF FutureFails, Polling
<1>3. FutureOK(p) /\ DrainOK(p) /\ StreamTypeOK /\ ProducerTypeOK /\ Typed
  BY DEF FutureInv, Typed
<1>4. /\ \A q \in Partitions : q # p => fut'[q] = fut[q]
      /\ fut'[p][i] = to /\ \A j \in Files(p) : j # i => fut'[p][j] = fut[p][j]
  BY <1>1, <1>3, FutureSet DEF ProducerTypeOK
<1>5. current[p] # i /\ thread[p][i] \notin {"running", "sending"}
  BY <1>1, <1>3 DEF FutureOK
<1>6. /\ partitionQueue' \in [Partitions -> Seq(Nat)] /\ scanQueue' \in Seq(Partitions \X Nat)
      /\ reads' \in [Partitions -> Nat]
      /\ \A q \in Partitions : q # p =>
           partitionQueue'[q] = partitionQueue[q] /\ reads'[q] = reads[q]
      /\ partitionQueue'[p] = Without(partitionQueue[p], {i})
      /\ scanQueue' = Without(scanQueue, {p} \X {i})
      /\ reads'[p] = Cardinality(Reading(p) \ {i})
  BY <1>2, <1>3, ReleaseFacts
<1>7. Typed'
  <2>1. to \in FutureStates /\ current' \in [Partitions -> Nat]
    BY <1>1, <1>2, <1>3 DEF FutureStates, ProducerTypeOK
  <2> QED
    BY <1>1, <1>2, <1>3, <1>6, <2>1, PermitStepTyped
<1>8. \A q \in Partitions : q # p => Untouched(q)
  BY <1>2, <1>4, <1>6 DEF Untouched
<1>9. FutureOK(p)'
  BY <1>1, <1>2, <1>3, <1>5, FutureMoves
<1>10. GrantInv' /\ QueueOrderInv'
  <2>1. \A j \in Files(p) :
          /\ fut'[p][j] \in {"planned", "unpolled", "waitPartition"} =>
               fut[p][j] \in {"planned", "unpolled", "waitPartition"}
          /\ fut'[p][j] = "waitScan" => fut[p][j] = "waitScan"
          /\ j \in ActiveReads(p)' => j \in ActiveReads(p)
          /\ j \in {i} => j \notin ActiveReads(p)' /\ fut'[p][j] # "waitScan"
    BY <1>1, <1>2, <1>4, <1>5 DEF ActiveReads
  <2>2. permits \in [Partitions -> Nat] /\ UNCHANGED permits
    BY <1>2, <1>3 DEF StreamTypeOK
  <2>3. \A q \in Partitions : q # p =>
          /\ fut'[q] = fut[q] /\ thread'[q] = thread[q] /\ task'[q] = task[q]
          /\ partitionQueue'[q] = partitionQueue[q]
    BY <1>2, <1>4, <1>6
  <2>4. ProducerTypeOK /\ GrantInv /\ QueueOrderInv
    OBVIOUS
  <2> HIDE DEF SchedulingInv, ProducerInv
  <2> QED
    BY <1>6, <2>1, <2>2, <2>3, <2>4, PermitsKept
<1>11. PipelineOK(p)'
  BY <1>1, <1>2, <1>3, <1>4, PipelineKept DEF DrainOK
<1>12. ReadOK(p)'
  BY <1>1, <1>2, <1>3, <1>4 DEF DrainOK, ReadOK
<1>13. SentOK(p)'
  BY <1>1, <1>2, <1>3, <1>4 DEF DrainOK, SentOK, Handed, Batches, Files
<1>14. CountOK(p)'
  <2>1. Reading(p)' = Reading(p) \ {i}
    BY <1>1, <1>2, <1>4, <1>5 DEF Reading
  <2> QED
    BY <1>6, <2>1 DEF CountOK
<1> QED
  BY <1>7, <1>8, <1>9, <1>10, <1>11, <1>12, <1>13, <1>14, StepAssembled

(* ---- the blocking thread of a file -------------------------------------- *)

\* A thread that returns gives back the permits of its file.
LEMMA ThreadEndsInv ==
    ASSUME SchedulingInv, NEW p \in Partitions, NEW i \in Files(p),
           NEW to \in {"finished", "stopped", "failed"}, ThreadEnds(p, i, to),
           thread[p][i] \in {"running", "sending"},
           to = "finished" => yielded[p][i] + queued[p][i] = FileTasks[p][i],
           to = "stopped" => cancelled[p] \/ fut[p][i] = "dropped",
           UNCHANGED <<cancelled, state, task, out, permits, sent, next, inFlight, ready,
                       current, hand, fut, yielded>>
    PROVE  SchedulingInv'
<1> USE DEF SchedulingInv, ProducerInv
<1>1. SetThread(p, i, to) /\ Release(p, {i}) /\ UNCHANGED queued
  BY DEF ThreadEnds, SetThread
<1>2. FutureOK(p) /\ DrainOK(p) /\ StreamTypeOK /\ ProducerTypeOK /\ Typed
  BY DEF FutureInv, Typed
<1>3. /\ \A q \in Partitions : q # p => thread'[q] = thread[q]
      /\ thread'[p][i] = to /\ \A j \in Files(p) : j # i => thread'[p][j] = thread[p][j]
  BY <1>1, <1>2, ThreadSet DEF ProducerTypeOK
<1>4. Backend # "Direct" /\ fut[p][i] \in {"open", "dropped"}
  BY <1>2 DEF FutureOK
<1>5. /\ partitionQueue' \in [Partitions -> Seq(Nat)] /\ scanQueue' \in Seq(Partitions \X Nat)
      /\ reads' \in [Partitions -> Nat]
      /\ \A q \in Partitions : q # p =>
           partitionQueue'[q] = partitionQueue[q] /\ reads'[q] = reads[q]
      /\ partitionQueue'[p] = Without(partitionQueue[p], {i})
      /\ scanQueue' = Without(scanQueue, {p} \X {i})
      /\ reads'[p] = Cardinality(Reading(p) \ {i})
  BY <1>1, <1>2, ReleaseFacts
<1>6. Typed'
  <2>1. to \in ThreadStates /\ current' \in [Partitions -> Nat]
    BY <1>2 DEF ThreadStates, ProducerTypeOK
  <2> QED
    BY <1>1, <1>2, <1>5, <2>1, PermitStepTyped
<1>7. \A q \in Partitions : q # p => Untouched(q)
  BY <1>1, <1>3, <1>5 DEF Untouched
<1>8. FutureOK(p)'
  BY <1>2, <1>3 DEF FutureOK
<1>9. GrantInv' /\ QueueOrderInv'
  <2>1. \A j \in Files(p) :
          /\ fut'[p][j] = fut[p][j]
          /\ j \in ActiveReads(p)' => j \in ActiveReads(p)
          /\ j \in {i} => j \notin ActiveReads(p)' /\ fut'[p][j] # "waitScan"
    BY <1>3, <1>4 DEF ActiveReads
  <2>2. permits \in [Partitions -> Nat]
    BY <1>2 DEF StreamTypeOK
  <2> QED
    BY <1>2, <1>3, <1>5, <2>1, <2>2, PermitsKept, ZenonT(30)
<1>10. PipelineOK(p)'
  BY <1>2, PipelineKept DEF DrainOK
<1>11. ReadOK(p)'
  BY <1>1, <1>2, <1>3 DEF DrainOK, ReadOK
<1>12. SentOK(p)'
  BY <1>2 DEF DrainOK, SentOK, Handed
<1>13. CountOK(p)'
  <2>1. Reading(p)' = Reading(p) \ {i}
    BY <1>3, <1>4 DEF Reading
  <2> QED
    BY <1>5, <2>1 DEF CountOK
<1> QED
  BY <1>6, <1>7, <1>8, <1>9, <1>10, <1>11, <1>12, <1>13, StepAssembled

\* A thread that goes on: it has read a batch, or has handed one over.
LEMMA ThreadRunsInv ==
    ASSUME SchedulingInv, NEW p \in Partitions, NEW i \in Files(p),
           NEW to \in {"running", "sending"}, SetThread(p, i, to),
           thread[p][i] \in {"running", "sending"},
           \/ to = "sending" /\ UNCHANGED queued /\ yielded[p][i] + queued[p][i] < FileTasks[p][i]
           \/ /\ to = "running" /\ thread[p][i] = "sending"
              /\ queued' = [queued EXCEPT ![p][i] = @ + 1],
           UNCHANGED <<cancelled, state, task, out, permits, sent, next, inFlight, ready,
                       current, hand, fut, yielded, reads, partitionQueue, scanQueue>>
    PROVE  SchedulingInv'
<1> USE DEF SchedulingInv, ProducerInv
<1>1. FutureOK(p) /\ DrainOK(p) /\ StreamTypeOK /\ ProducerTypeOK /\ Typed
  BY DEF FutureInv, Typed
<1>2. /\ OfFiles(thread)'
      /\ \A q \in Partitions : q # p => thread'[q] = thread[q]
      /\ thread'[p][i] = to /\ \A j \in Files(p) : j # i => thread'[p][j] = thread[p][j]
  BY <1>1, ThreadSet DEF ProducerTypeOK
<1>3. /\ OfFiles(queued)'
      /\ \A q \in Partitions : q # p => queued'[q] = queued[q]
      /\ queued'[p][i] \in {queued[p][i], queued[p][i] + 1}
      /\ to = "sending" => queued'[p][i] = queued[p][i]
      /\ \A j \in Files(p) : j # i => queued'[p][j] = queued[p][j]
  <2>1. OfFiles(queued)
    BY <1>1 DEF ProducerTypeOK
  <2>2. CASE UNCHANGED queued
    BY <2>1, <2>2 DEF OfFiles
  <2>3. CASE to = "running" /\ queued' = [queued EXCEPT ![p][i] = @ + 1]
    BY <2>1, <2>3, ZenonT(30) DEF OfFiles
  <2> QED
    BY <2>2, <2>3
<1>4. Typed'
  <2>1. StreamTypeOK'
    BY <1>1 DEF StreamTypeOK
  <2>2. \A q \in Partitions : \A j \in Files(q) :
          /\ fut'[q][j] \in FutureStates /\ thread'[q][j] \in ThreadStates
          /\ yielded'[q][j] \in Nat /\ queued'[q][j] \in Nat
    <3>1. ASSUME NEW q \in Partitions, NEW j \in Files(q)
          PROVE  thread'[q][j] \in ThreadStates /\ queued'[q][j] \in Nat
      <4>1. thread[q][j] \in ThreadStates /\ queued[q][j] \in Nat
        BY <1>1 DEF ProducerTypeOK
      <4> QED
        BY <1>2, <1>3, <4>1 DEF ThreadStates
    <3> QED
      BY <1>1, <3>1 DEF ProducerTypeOK
  <2>3. OfFiles(fut)' /\ OfFiles(yielded)'
    BY <1>1 DEF ProducerTypeOK, OfFiles
  <2> QED
    BY <1>1, <1>2, <1>3, <2>1, <2>2, <2>3 DEF Typed, ProducerTypeOK
<1>5. \A q \in Partitions : q # p => Untouched(q)
  BY <1>2, <1>3 DEF Untouched
<1>6. FutureOK(p)'
  BY <1>1, <1>2 DEF FutureOK
<1>7. GrantInv' /\ QueueOrderInv'
  <2>1. \A j \in Files(p) : j \in ActiveReads(p)' => j \in ActiveReads(p)
    BY <1>2 DEF ActiveReads
  <2>2. permits \in [Partitions -> Nat]
    BY <1>1 DEF StreamTypeOK
  <2> QED
    BY <1>1, <1>2, <2>1, <2>2, PermitsStay
<1>8. PipelineOK(p)'
  BY <1>1, PipelineKept DEF DrainOK
<1>9. ReadOK(p)'
  <2>1. \A j \in Files(p) : yielded[p][j] \in Nat /\ queued[p][j] \in Nat /\ FileTasks[p][j] \in Nat
    BY <1>1, PlanFacts DEF ProducerTypeOK
  <2>2. /\ yielded[p][i] + queued'[p][i] <= FileTasks[p][i]
        /\ to = "sending" => yielded[p][i] + queued'[p][i] < FileTasks[p][i]
    <3>1. CASE to = "sending"
      BY <1>1, <1>3, <2>1, <3>1 DEF DrainOK, ReadOK
    <3>2. CASE to = "running"
      <4>1. yielded[p][i] + queued[p][i] < FileTasks[p][i]
        BY <1>1, <3>2 DEF DrainOK, ReadOK
      <4> QED
        BY <1>3, <2>1, <3>2, <4>1
    <3> QED
      BY <3>1, <3>2
  <2>3. ASSUME NEW j \in Files(p), j # i
        PROVE  thread'[p][j] = thread[p][j] /\ queued'[p][j] = queued[p][j]
    BY <1>2, <1>3, <2>3
  <2>4. thread'[p][i] \in {"running", "sending"} /\ thread'[p][i] = to
    BY <1>2
  <2>5. ReadOK(p)
    BY <1>1 DEF DrainOK
  <2>6. ASSUME NEW j \in Files(p)
        PROVE  /\ yielded[p][j] + queued'[p][j] <= FileTasks[p][j]
               /\ thread'[p][j] = "sending" => yielded[p][j] + queued'[p][j] < FileTasks[p][j]
               /\ thread'[p][j] = "finished" => yielded[p][j] + queued'[p][j] = FileTasks[p][j]
               /\ thread'[p][j] = "stopped" => cancelled[p] \/ fut[p][j] = "dropped"
               /\ Backend = "Direct" \/ thread'[p][j] = "none" => queued'[p][j] = 0
    <3>1. CASE j = i
      <4>1. Backend # "Direct"
        BY <1>1 DEF FutureOK
      <4> QED
        BY <2>2, <2>4, <3>1, <4>1
    <3>2. CASE j # i
      BY <2>3, <2>5, <3>2 DEF ReadOK
    <3> QED
      BY <3>1, <3>2
  <2> QED
    BY <2>5, <2>6 DEF ReadOK
<1>10. SentOK(p)'
  BY <1>1 DEF DrainOK, SentOK, Handed
<1>11. CountOK(p)'
  <2>1. Reading(p)' = Reading(p)
    BY <1>2 DEF Reading
  <2> QED
    BY <1>1, <2>1 DEF DrainOK, CountOK
<1> QED
  BY <1>4, <1>5, <1>6, <1>7, <1>8, <1>9, <1>10, <1>11, StepAssembled

LEMMA ThreadStepInv ==
    ASSUME SchedulingInv, NEW p \in Partitions, NEW i \in Files(p), ThreadStep(p, i)
    PROVE  SchedulingInv'
<1>1. UNCHANGED <<cancelled, state, task, out, permits, sent, next, inFlight, ready,
                  current, hand, fut, yielded>>
  BY DEF ThreadStep
<1>2. CASE \E to \in {"finished", "stopped", "failed"} :
             /\ ThreadEnds(p, i, to) /\ thread[p][i] \in {"running", "sending"}
             /\ to = "finished" => yielded[p][i] + queued[p][i] = FileTasks[p][i]
             /\ to = "stopped" => cancelled[p] \/ fut[p][i] = "dropped"
  BY <1>1, <1>2, ThreadEndsInv
<1>3. CASE /\ SetThread(p, i, "sending") /\ thread[p][i] = "running"
           /\ yielded[p][i] + queued[p][i] < FileTasks[p][i]
           /\ UNCHANGED <<reads, queued, partitionQueue, scanQueue>>
  BY <1>1, <1>3, ThreadRunsInv
<1>4. CASE /\ SetThread(p, i, "running") /\ thread[p][i] = "sending"
           /\ queued' = [queued EXCEPT ![p][i] = @ + 1]
           /\ UNCHANGED <<reads, partitionQueue, scanQueue>>
  BY <1>1, <1>4, ThreadRunsInv
<1> QED
  BY <1>2, <1>3, <1>4 DEF ThreadStep, SetThread

LEMMA FileStepInv ==
    ASSUME SchedulingInv, NEW p \in Partitions, FileStep(p)
    PROVE  SchedulingInv'
BY PollNewInv, GetPartitionPermitInv, OpenInv, FutureFailsInv DEF FileStep

(* ---- run_partition ------------------------------------------------------- *)

\* run_partition returns or unwinds: only blocking reads keep their permits.
LEMMA ReturnInv ==
    ASSUME SchedulingInv, NEW p \in Partitions, NEW to \in {"closing", "unwinding"},
           ReturnAs(p, to), task[p] \in {"running", "failing"},
           cancelled' \in [Partitions -> BOOLEAN],
           \A q \in Partitions : cancelled[q] => cancelled'[q],
           \A q \in Partitions : q # p => out'[q] = out[q]
    PROVE  SchedulingInv'
<1> USE DEF SchedulingInv, ProducerInv
<1> DEFINE gone == {i \in Files(p) : thread[p][i] \notin {"running", "sending"}}
<1>1. /\ inFlight' = [inFlight EXCEPT ![p] = <<>>] /\ ready' = [ready EXCEPT ![p] = <<>>]
      /\ current' = [current EXCEPT ![p] = 0] /\ hand' = [hand EXCEPT ![p] = FALSE]
      /\ fut' = [fut EXCEPT ![p] = [i \in Files(p) |-> "dropped"]]
      /\ Release(p, gone)
      /\ UNCHANGED <<next, yielded, thread, queued>>
      /\ task' = [task EXCEPT ![p] = to] /\ UNCHANGED <<state, permits, sent>>
  BY DEF ReturnAs, DropProducer
<1>2. FutureOK(p) /\ DrainOK(p) /\ StreamTypeOK /\ ProducerTypeOK /\ Typed
  BY DEF FutureInv, Typed
<1>3. \A j \in gone : thread[p][j] \notin {"running", "sending"}
  OBVIOUS
<1>4. \A j \in Files(p) : thread[p][j] \notin {"running", "sending"} => j \in gone
  OBVIOUS
<1> HIDE DEF gone
<1>5. /\ OfFiles(fut)' /\ \A j \in Files(p) : fut'[p][j] = "dropped"
      /\ \A q \in Partitions : q # p => fut'[q] = fut[q]
  <2>1. OfFiles(fut)
    BY <1>2 DEF ProducerTypeOK
  <2> QED
    BY <1>1, <2>1 DEF OfFiles
<1>6. /\ partitionQueue' \in [Partitions -> Seq(Nat)] /\ scanQueue' \in Seq(Partitions \X Nat)
      /\ reads' \in [Partitions -> Nat]
      /\ \A q \in Partitions : q # p =>
           partitionQueue'[q] = partitionQueue[q] /\ reads'[q] = reads[q]
      /\ partitionQueue'[p] = Without(partitionQueue[p], gone)
      /\ scanQueue' = Without(scanQueue, {p} \X gone)
      /\ reads'[p] = Cardinality(Reading(p) \ gone)
  BY <1>1, <1>2, ReleaseFacts
<1>7. /\ task'[p] = to /\ current'[p] = 0 /\ hand'[p] = FALSE
      /\ \A q \in Partitions : q # p =>
           /\ task'[q] = task[q] /\ current'[q] = current[q] /\ hand'[q] = hand[q]
           /\ inFlight'[q] = inFlight[q] /\ ready'[q] = ready[q]
      /\ state[p] # "NotStarted"
  <2>1. /\ task \in [Partitions -> TaskStates] /\ current \in [Partitions -> Nat]
        /\ hand \in [Partitions -> BOOLEAN] /\ inFlight \in [Partitions -> Seq(Nat)]
        /\ ready \in [Partitions -> Seq(Nat)]
    BY <1>2 DEF StreamTypeOK, ProducerTypeOK
  <2> QED
    BY <1>1, <1>2, <2>1 DEF FutureOK
<1>8. Typed'
  <2>1. StreamTypeOK'
    BY <1>1, <1>2, <1>6 DEF StreamTypeOK, TaskStates
  <2>2. /\ next' \in [Partitions -> Nat] /\ inFlight' \in [Partitions -> Seq(Nat)]
        /\ ready' \in [Partitions -> Seq(Nat)] /\ current' \in [Partitions -> Nat]
        /\ hand' \in [Partitions -> BOOLEAN]
    BY <1>1, <1>2 DEF ProducerTypeOK
  <2>3. \A q \in Partitions : \A j \in Files(q) : fut'[q][j] \in FutureStates
    BY <1>2, <1>5 DEF ProducerTypeOK, FutureStates
  <2> QED
    BY <1>1, <1>2, <1>5, <1>6, <2>1, <2>2, <2>3, FilesTyped DEF Typed
<1>9. \A q \in Partitions : q # p => Untouched(q)
  BY <1>1, <1>5, <1>6, <1>7 DEF Untouched
<1>10. FutureOK(p)'
  <2>1. \A i \in Files(p) : i # 0
    BY PlanFacts DEF Files
  <2> QED
    BY <1>1, <1>2, <1>5, <1>7, <2>1 DEF FutureOK
<1>11. GrantInv' /\ QueueOrderInv'
  <2>1. \A j \in Files(p) :
          /\ fut'[p][j] = "dropped"
          /\ j \in ActiveReads(p)' => j \in ActiveReads(p)
          /\ j \in gone => j \notin ActiveReads(p)' /\ fut'[p][j] # "waitScan"
    BY <1>1, <1>3, <1>5, <1>7 DEF ActiveReads
  <2>2. permits \in [Partitions -> Nat] /\ UNCHANGED permits
    BY <1>1, <1>2 DEF StreamTypeOK
  <2>3. \A q \in Partitions : q # p =>
          /\ fut'[q] = fut[q] /\ thread'[q] = thread[q] /\ task'[q] = task[q]
          /\ partitionQueue'[q] = partitionQueue[q]
    BY <1>1, <1>5, <1>6, <1>7
  <2>4. ProducerTypeOK /\ GrantInv /\ QueueOrderInv
    OBVIOUS
  <2> HIDE DEF SchedulingInv, ProducerInv
  <2> QED
    BY <1>6, <2>1, <2>2, <2>3, <2>4, PermitsKept
<1>12. PipelineOK(p)' /\ SentOK(p)'
  BY <1>7 DEF PipelineOK, SentOK
<1>13. ReadOK(p)'
  BY <1>1, <1>2, <1>5, <1>7 DEF DrainOK, ReadOK
<1>14. CountOK(p)'
  <2>1. Reading(p)' = Reading(p) \ gone
    BY <1>1, <1>3, <1>4, <1>5 DEF Reading
  <2> QED
    BY <1>6, <2>1 DEF CountOK
<1> QED
  BY <1>8, <1>9, <1>10, <1>11, <1>12, <1>13, <1>14, StepAssembled

\* The producer holds the scan's first error; the failed file's permits are back.
LEMMA FirstErrorInv ==
    ASSUME SchedulingInv, NEW p \in Partitions, NEW failed, NEW scope,
           SendFirstError(p, failed, scope), ~cancelled[p], task[p] = "running",
           \A i \in Files(p) : i = failed =>
             thread[p][i] \notin {"running", "sending"} /\ fut[p][i] \notin {"waitScan", "opening"}
    PROVE  SchedulingInv'
<1> USE DEF SchedulingInv, ProducerInv
<1>1. /\ Cancel(scope) /\ task' = [task EXCEPT ![p] = "failing"] /\ Release(p, {failed})
      /\ UNCHANGED <<state, out, permits, sent, inFlight, ready, current, hand, fut,
                     next, yielded, thread, queued>>
  BY DEF SendFirstError
<1>2. FutureOK(p) /\ DrainOK(p) /\ StreamTypeOK /\ ProducerTypeOK /\ Typed
  BY DEF FutureInv, Typed
<1>3. /\ partitionQueue' \in [Partitions -> Seq(Nat)] /\ scanQueue' \in Seq(Partitions \X Nat)
      /\ reads' \in [Partitions -> Nat]
      /\ \A q \in Partitions : q # p =>
           partitionQueue'[q] = partitionQueue[q] /\ reads'[q] = reads[q]
      /\ partitionQueue'[p] = Without(partitionQueue[p], {failed})
      /\ scanQueue' = Without(scanQueue, {p} \X {failed})
      /\ reads'[p] = Cardinality(Reading(p) \ {failed})
  BY <1>1, <1>2, ReleaseFacts
<1>4. /\ cancelled' \in [Partitions -> BOOLEAN]
      /\ \A q \in Partitions : cancelled[q] => cancelled'[q]
  BY <1>1, <1>2, Zenon DEF Cancel, StreamTypeOK
<1>5. task'[p] = "failing" /\ \A q \in Partitions : q # p => task'[q] = task[q]
  BY <1>1, <1>2 DEF StreamTypeOK
<1>6. Typed'
  <2>1. StreamTypeOK'
    BY <1>1, <1>2, <1>3, <1>4 DEF StreamTypeOK, TaskStates
  <2>2. OfFiles(fut)' /\ \A q \in Partitions : \A j \in Files(q) : fut'[q][j] \in FutureStates
    BY <1>1, <1>2 DEF ProducerTypeOK, OfFiles
  <2>3. /\ next' \in [Partitions -> Nat] /\ inFlight' \in [Partitions -> Seq(Nat)]
        /\ ready' \in [Partitions -> Seq(Nat)] /\ current' \in [Partitions -> Nat]
        /\ hand' \in [Partitions -> BOOLEAN]
    BY <1>1, <1>2 DEF ProducerTypeOK
  <2> QED
    BY <1>1, <1>2, <1>3, <2>1, <2>2, <2>3, FilesTyped DEF Typed
<1>7. \A q \in Partitions : q # p => Untouched(q)
  BY <1>1, <1>3, <1>4, <1>5 DEF Untouched
<1>8. FutureOK(p)'
  BY <1>1, <1>2, <1>5 DEF FutureOK
<1>9. GrantInv' /\ QueueOrderInv'
  <2> DEFINE gone == {failed}
  <2>1. \A j \in Files(p) :
          /\ fut'[p][j] \in {"planned", "unpolled", "waitPartition"} =>
               fut[p][j] \in {"planned", "unpolled", "waitPartition"}
          /\ fut'[p][j] = "waitScan" => fut[p][j] = "waitScan"
          /\ j \in ActiveReads(p)' => j \in ActiveReads(p)
          /\ j \in gone => j \notin ActiveReads(p)' /\ fut'[p][j] # "waitScan"
    BY <1>1, <1>5 DEF ActiveReads
  <2>2. permits \in [Partitions -> Nat] /\ UNCHANGED permits
    BY <1>1, <1>2 DEF StreamTypeOK
  <2>3. \A q \in Partitions : q # p =>
          /\ fut'[q] = fut[q] /\ thread'[q] = thread[q] /\ task'[q] = task[q]
          /\ partitionQueue'[q] = partitionQueue[q]
    BY <1>1, <1>3, <1>5
  <2>4. ProducerTypeOK /\ GrantInv /\ QueueOrderInv
    OBVIOUS
  <2>5. /\ scanQueue' = Without(scanQueue, {p} \X gone)
        /\ partitionQueue'[p] = Without(partitionQueue[p], gone)
    BY <1>3
  <2> HIDE DEF SchedulingInv, ProducerInv, gone
  <2> QED
    BY <2>1, <2>2, <2>3, <2>4, <2>5, PermitsKept
<1>10. PipelineOK(p)'
  BY <1>1, <1>2, <1>5, PipelineKept DEF DrainOK
<1>11. ReadOK(p)'
  BY <1>1, <1>2, <1>4 DEF DrainOK, ReadOK
<1>12. SentOK(p)'
  BY <1>5 DEF SentOK
<1>13. CountOK(p)'
  <2>1. Backend # "Direct" => Reading(p)' = Reading(p) \ {failed}
    BY <1>1 DEF Reading
  <2> QED
    BY <1>3, <1>5, <2>1 DEF CountOK
<1> QED
  BY <1>6, <1>7, <1>8, <1>9, <1>10, <1>11, <1>12, <1>13, StepAssembled

\* The file that is drained is one of the partition's.
LEMMA CurrentFile ==
    ASSUME SchedulingInv, NEW p \in Partitions, task[p] = "running", current[p] # 0
    PROVE  current[p] \in Files(p) /\ fut[p][current[p]] = "open"
<1>1. FutureOK(p) /\ PipelineOK(p) /\ Typed
  BY DEF SchedulingInv, ProducerInv, FutureInv, DrainOK, Typed
<1>2. current[p] \in Files(p)
  BY <1>1, LineTypes DEF PipelineOK, Taken, Files
<1> QED
  BY <1>1, <1>2 DEF FutureOK

\* The drained file has ended: all of it was read, unless it was cancelled.
LEMMA EndFileInv ==
    ASSUME SchedulingInv, NEW p \in Partitions, FileEnds(p)
    PROVE  SchedulingInv' /\ (Backend = "Direct" => yielded[p][current[p]] = FileTasks[p][current[p]])
<1> USE DEF SchedulingInv, ProducerInv
<1> DEFINE i == current[p]
<1>1. /\ task[p] = "running" /\ i # 0 /\ ~hand[p]
      /\ \/ Backend = "Direct" /\ ~cancelled[p] /\ yielded[p][i] = FileTasks[p][i]
         \/ Backend # "Direct" /\ queued[p][i] = 0 /\ thread[p][i] \in {"finished", "stopped"}
      /\ SetFuture(p, i, "ended") /\ Release(p, {i})
      /\ current' = [current EXCEPT ![p] = 0]
      /\ UNCHANGED <<cancelled, state, task, out, permits, sent, next, inFlight, ready,
                     hand, yielded, thread, queued>>
  BY DEF FileEnds, EndFile, Draining, Polling
<1>2. FutureOK(p) /\ DrainOK(p) /\ StreamTypeOK /\ ProducerTypeOK /\ Typed
  BY DEF FutureInv, Typed
<1>3. i \in Files(p) /\ fut[p][i] = "open"
  BY <1>1, CurrentFile
<1>4. current'[p] = 0 /\ \A q \in Partitions : q # p => current'[q] = current[q]
  BY <1>1, <1>2 DEF ProducerTypeOK
<1>5. /\ i = current[p] /\ (Backend = "Direct" => yielded[p][current[p]] = FileTasks[p][current[p]])
      /\ \A j \in Files(p) : j # 0
  BY <1>1, PlanFacts DEF Files
<1> HIDE DEF i
<1>6. /\ \A q \in Partitions : q # p => fut'[q] = fut[q]
      /\ fut'[p][i] = "ended" /\ \A j \in Files(p) : j # i => fut'[p][j] = fut[p][j]
  BY <1>1, <1>2, <1>3, FutureSet DEF ProducerTypeOK
<1>7. /\ partitionQueue' \in [Partitions -> Seq(Nat)] /\ scanQueue' \in Seq(Partitions \X Nat)
      /\ reads' \in [Partitions -> Nat]
      /\ \A q \in Partitions : q # p =>
           partitionQueue'[q] = partitionQueue[q] /\ reads'[q] = reads[q]
      /\ partitionQueue'[p] = Without(partitionQueue[p], {i})
      /\ scanQueue' = Without(scanQueue, {p} \X {i})
      /\ reads'[p] = Cardinality(Reading(p) \ {i})
  BY <1>1, <1>2, ReleaseFacts
<1>8. Typed'
  <2>1. "ended" \in FutureStates /\ current' \in [Partitions -> Nat]
    BY <1>1, <1>2 DEF FutureStates, ProducerTypeOK
  <2> QED
    BY <1>1, <1>2, <1>3, <1>7, <2>1, PermitStepTyped
<1>9. \A q \in Partitions : q # p => Untouched(q)
  BY <1>1, <1>4, <1>6, <1>7 DEF Untouched
<1>10. thread[p][i] \notin {"running", "sending"}
  BY <1>1, <1>2, <1>3 DEF FutureOK
<1>11. FutureOK(p)'
  BY <1>1, <1>2, <1>3, <1>4, <1>5, <1>10, FutureMoves
<1>12. GrantInv' /\ QueueOrderInv'
  <2>1. \A j \in Files(p) :
          /\ fut'[p][j] \in {"planned", "unpolled", "waitPartition"} =>
               fut[p][j] \in {"planned", "unpolled", "waitPartition"}
          /\ fut'[p][j] = "waitScan" => fut[p][j] = "waitScan"
          /\ j \in ActiveReads(p)' => j \in ActiveReads(p)
          /\ j \in {i} => j \notin ActiveReads(p)' /\ fut'[p][j] # "waitScan"
    BY <1>1, <1>6, <1>10 DEF ActiveReads
  <2>2. permits \in [Partitions -> Nat] /\ UNCHANGED permits
    BY <1>1, <1>2 DEF StreamTypeOK
  <2>3. \A q \in Partitions : q # p =>
          /\ fut'[q] = fut[q] /\ thread'[q] = thread[q] /\ task'[q] = task[q]
          /\ partitionQueue'[q] = partitionQueue[q]
    BY <1>1, <1>6, <1>7
  <2>4. ProducerTypeOK /\ GrantInv /\ QueueOrderInv
    OBVIOUS
  <2> HIDE DEF SchedulingInv, ProducerInv
  <2> QED
    BY <1>7, <2>1, <2>2, <2>3, <2>4, PermitsKept
<1>13. PipelineOK(p)'
  <2>1. PipelineOK(p) /\ Taken(p)' = Taken(p) /\ Taken(p) \in Int /\ Taken(p) >= 0
    <3>1. PipelineOK(p) /\ Taken(p)' = Taken(p) /\ Taken(p) \in Int
      BY <1>1, <1>2, LineTypes DEF DrainOK, Taken
    <3>2. Len(inFlight[p]) <= next[p]
      BY <1>1, <3>1 DEF PipelineOK
    <3> QED
      BY <1>2, <3>1, <3>2, LineTypes DEF Taken
  <2>2. 1..Taken(p) \subseteq Files(p)
    BY <1>1, <2>1, LineTypes, <1>2 DEF PipelineOK, Files, Taken
  <2>3. \A j \in 1..Taken(p) :
           \/ fut'[p][j] \in {"ended", "skipped"}
           \/ \E k \in 1..Len(ready[p]) : ready[p][k] = j
    BY <1>1, <1>5, <1>6, <2>1, <2>2 DEF PipelineOK
  <2>4. \A k \in 1..Len(ready[p]) : 0 < ready[p][k] /\ ready[p][k] <= Taken(p)
    BY <1>1, <1>2, <2>1, LineTypes DEF PipelineOK
  <2>5. ASSUME NEW j \in Files(p), fut'[p][j] = "ended"
        PROVE  j <= Taken(p) /\ \A k \in 1..Len(ready[p]) : j < ready[p][k]
    <3>1. CASE j = i
      BY <1>1, <1>5, <2>1, <3>1 DEF PipelineOK
    <3>2. CASE j # i
      BY <1>1, <1>6, <2>1, <2>5, <3>2 DEF PipelineOK
    <3> QED
      BY <3>1, <3>2
  <2> QED
    BY <1>1, <1>4, <2>1, <2>3, <2>4, <2>5 DEF PipelineOK
<1>14. ReadOK(p)'
  <2>1. \A j \in Files(p) : yielded[p][j] \in Nat /\ queued[p][j] \in Nat /\ FileTasks[p][j] \in Nat
    BY <1>2, PlanFacts DEF ProducerTypeOK
  <2>2. yielded[p][i] = FileTasks[p][i] \/ (Backend # "Direct" /\ cancelled[p])
    <3>1. /\ thread[p][i] = "finished" => yielded[p][i] + queued[p][i] = FileTasks[p][i]
          /\ thread[p][i] = "stopped" => cancelled[p]
      BY <1>2, <1>3 DEF DrainOK, ReadOK
    <3>2. queued[p][i] = 0 /\ thread[p][i] = "finished" => yielded[p][i] = FileTasks[p][i]
      BY <1>3, <2>1, <3>1
    <3>3. CASE Backend = "Direct"
      BY <1>1, <3>3
    <3>4. CASE Backend # "Direct"
      BY <1>1, <3>1, <3>2, <3>4
    <3> QED
      BY <3>3, <3>4
  <2>3. ReadOK(p) /\ ~hand'[p] /\ UNCHANGED <<yielded, queued, thread, cancelled>>
    BY <1>1, <1>2 DEF DrainOK
  <2>4. ASSUME NEW j \in Files(p)
        PROVE  /\ fut'[p][j] = "dropped" <=> fut[p][j] = "dropped"
               /\ fut'[p][j] = "skipped" => <<p, j>> \in SkippedFiles
               /\ fut'[p][j] \notin {"ended", "dropped"} => yielded[p][j] = 0
               /\ fut'[p][j] = "ended" =>
                    yielded[p][j] = FileTasks[p][j] \/ (Backend # "Direct" /\ cancelled[p])
    BY <1>3, <1>5, <1>6, <2>2, <2>3 DEF ReadOK
  <2> QED
    BY <1>4, <2>3, <2>4 DEF ReadOK
<1>15. SentOK(p)'
  BY <1>1, <1>2, <1>3, <1>4, <1>6 DEF DrainOK, SentOK, Handed, Batches, Files
<1>16. CountOK(p)'
  <2>1. Reading(p)' = Reading(p) \ {i}
    BY <1>1, <1>6, <1>10 DEF Reading
  <2> QED
    BY <1>7, <2>1 DEF CountOK
<1> QED
  BY <1>5, <1>8, <1>9, <1>11, <1>12, <1>13, <1>14, <1>15, <1>16, StepAssembled

\* A step that changes no future, thread, permit or queue.
LEMMA QuietAssembled ==
    ASSUME SchedulingInv, NEW p \in Partitions, Typed',
           \A q \in Partitions : q # p => Untouched(q),
           UNCHANGED <<state, task, permits, reads, next, fut, thread, partitionQueue, scanQueue>>,
           \A i \in Files(p) : current'[p] = i => fut[p][i] = "open",
           PipelineOK(p)', ReadOK(p)', SentOK(p)'
    PROVE  SchedulingInv'
<1>1. /\ FutureOK(p) /\ CountOK(p) /\ GrantInv /\ QueueOrderInv /\ ProducerTypeOK
      /\ permits \in [Partitions -> Nat]
  BY DEF SchedulingInv, ProducerInv, FutureInv, DrainOK, StreamTypeOK
<1>2. FutureOK(p)'
  BY <1>1 DEF FutureOK
<1>3. GrantInv' /\ QueueOrderInv'
  <2>1. \A q \in Partitions : ActiveReads(q)' = ActiveReads(q)
    BY DEF ActiveReads
  <2> QED
    BY <1>1, <2>1 DEF GrantInv, QueueOrderInv
<1>4. CountOK(p)'
  <2>1. Reading(p)' = Reading(p)
    BY DEF Reading
  <2> QED
    BY <1>1, <2>1 DEF CountOK
<1> QED
  BY <1>2, <1>3, <1>4, StepAssembled

LEMMA TailFacts ==
    ASSUME NEW S, NEW q \in Seq(S), q # <<>>
    PROVE  /\ Len(q) \in Nat \ {0} /\ Tail(q) \in Seq(S) /\ Len(Tail(q)) = Len(q) - 1
           /\ Head(q) = q[1] /\ 1 \in 1..Len(q) /\ Head(q) \in S
           /\ \A k \in 1..(Len(q) - 1) : Tail(q)[k] = q[k + 1]
OBVIOUS

\* What is left of the line when take_next_file has popped file i.
LineOK(p, i) ==
    /\ Len(inFlight'[p]) <= next[p]
    /\ \A k \in 1..Len(inFlight'[p]) : inFlight'[p][k] = (next[p] - Len(inFlight'[p])) + k
    /\ i <= next[p] - Len(inFlight'[p])
    /\ \A k \in 1..Len(ready'[p]) :
         /\ i < ready'[p][k] /\ ready'[p][k] <= next[p] - Len(inFlight'[p])
         /\ \A j \in 1..(k - 1) : ready'[p][j] < ready'[p][k]
    /\ \A j \in 1..(next[p] - Len(inFlight'[p])) :
         \/ j = i \/ fut[p][j] \in {"ended", "skipped"}
         \/ \E k \in 1..Len(ready'[p]) : ready'[p][k] = j
    /\ \A j \in Files(p) : fut[p][j] = "ended" => j < i

LEMMA PopFacts ==
    ASSUME SchedulingInv, NEW p \in Partitions, task[p] = "running", current[p] = 0,
           ready[p] # <<>> \/ inFlight[p] # <<>>, PopResult(p)
    PROVE  /\ NextResult(p) \in Files(p)
           /\ inFlight' \in [Partitions -> Seq(Nat)] /\ ready' \in [Partitions -> Seq(Nat)]
           /\ \A q \in Partitions : q # p => inFlight'[q] = inFlight[q] /\ ready'[q] = ready[q]
           /\ LineOK(p, NextResult(p))
<1> DEFINE i == NextResult(p)
<1>1. /\ inFlight \in [Partitions -> Seq(Nat)] /\ ready \in [Partitions -> Seq(Nat)]
      /\ PipelineOK(p) /\ Typed
  BY DEF SchedulingInv, ProducerInv, ProducerTypeOK, DrainOK, Typed
<1>2. /\ next[p] \in Nat /\ Len(FileTasks[p]) \in Nat /\ Len(inFlight[p]) \in Nat
      /\ Taken(p) \in Int /\ Len(ready[p]) \in Nat /\ \A k \in 1..Len(ready[p]) : ready[p][k] \in Nat
      /\ inFlight[p] \in Seq(Nat) /\ ready[p] \in Seq(Nat)
  BY <1>1, LineTypes
<1>3. /\ next[p] <= Len(FileTasks[p]) /\ Len(inFlight[p]) <= next[p]
      /\ \A k \in 1..Len(inFlight[p]) : inFlight[p][k] = Taken(p) + k
      /\ \A k \in 1..Len(ready[p]) :
           /\ 0 < ready[p][k] /\ ready[p][k] <= Taken(p)
           /\ \A j \in 1..(k - 1) : ready[p][j] < ready[p][k]
      /\ \A j \in 1..Taken(p) :
           j = 0 \/ fut[p][j] \in {"ended", "skipped"} \/ \E k \in 1..Len(ready[p]) : ready[p][k] = j
      /\ \A j \in Files(p) : fut[p][j] = "ended" =>
           j <= Taken(p) /\ \A k \in 1..Len(ready[p]) : j < ready[p][k]
  BY <1>1 DEF PipelineOK
<1>4. CASE ready[p] # <<>>
  <2>1. /\ ready' = [ready EXCEPT ![p] = Tail(@)] /\ UNCHANGED inFlight /\ i = Head(ready[p])
    BY <1>4 DEF PopResult, NextResult
  <2>2. /\ Len(ready[p]) \in Nat \ {0} /\ Tail(ready[p]) \in Seq(Nat)
        /\ Len(Tail(ready[p])) = Len(ready[p]) - 1
        /\ Head(ready[p]) = ready[p][1] /\ 1 \in 1..Len(ready[p])
        /\ \A k \in 1..(Len(ready[p]) - 1) : Tail(ready[p])[k] = ready[p][k + 1]
    BY <1>2, <1>4, TailFacts
  <2>3. /\ ready' \in [Partitions -> Seq(Nat)] /\ ready'[p] = Tail(ready[p])
        /\ \A q \in Partitions : q # p => ready'[q] = ready[q]
    BY <1>1, <2>1, <2>2
  <2>4. i \in Files(p) /\ i = ready[p][1] /\ i \in Nat
    <3>1. i = ready[p][1] /\ i \in Nat
      BY <1>2, <2>1, <2>2
    <3>2. 0 < i /\ i <= Taken(p)
      BY <1>3, <2>2, <3>1
    <3>3. Taken(p) <= Len(FileTasks[p])
      BY <1>2, <1>3 DEF Taken
    <3> QED
      BY <1>2, <3>1, <3>2, <3>3 DEF Files
  <2> HIDE DEF i
  <2>5. Taken(p) = next[p] - Len(inFlight'[p])
    BY <2>1 DEF Taken
  <2>6. \A k \in 1..Len(ready'[p]) :
           /\ i < ready'[p][k] /\ ready'[p][k] <= Taken(p)
           /\ \A j \in 1..(k - 1) : ready'[p][j] < ready'[p][k]
    <3>1. ASSUME NEW k \in 1..Len(ready'[p])
          PROVE  /\ i < ready'[p][k] /\ ready'[p][k] <= Taken(p)
                 /\ \A j \in 1..(k - 1) : ready'[p][j] < ready'[p][k]
      <4>1. k + 1 \in 1..Len(ready[p]) /\ ready'[p][k] = ready[p][k + 1] /\ 1 \in 1..((k + 1) - 1)
        BY <2>2, <2>3
      <4>2. i < ready'[p][k] /\ ready'[p][k] <= Taken(p)
        BY <1>3, <2>4, <4>1
      <4>3. ASSUME NEW j \in 1..(k - 1) PROVE ready'[p][j] < ready'[p][k]
        <5>1. j + 1 \in 1..((k + 1) - 1) /\ ready'[p][j] = ready[p][j + 1]
          BY <2>2, <2>3
        <5> QED
          BY <1>3, <4>1, <5>1
      <4> QED
        BY <4>2, <4>3
    <3> QED
      BY <3>1
  <2>7. ASSUME NEW j \in 1..Taken(p)
        PROVE  \/ j = i \/ fut[p][j] \in {"ended", "skipped"}
               \/ \E k \in 1..Len(ready'[p]) : ready'[p][k] = j
    <3>1. CASE \E k \in 1..Len(ready[p]) : ready[p][k] = j
      <4>1. PICK k \in 1..Len(ready[p]) : ready[p][k] = j
        BY <3>1
      <4>2. CASE k = 1
        BY <2>4, <4>1, <4>2
      <4>3. CASE k # 1
        <5>1. k - 1 \in 1..Len(ready'[p]) /\ ready'[p][k - 1] = ready[p][(k - 1) + 1] /\ (k - 1) + 1 = k
          BY <2>2, <2>3, <4>3
        <5> QED
          BY <4>1, <5>1
      <4> QED
        BY <4>2, <4>3
    <3> QED
      BY <1>2, <1>3, <3>1
  <2>8. i <= Taken(p)
    BY <1>3, <2>2, <2>4
  <2>9. \A j \in Files(p) : fut[p][j] = "ended" => j < i
    BY <1>3, <2>2, <2>4
  <2>10. LineOK(p, i)
    <3>1. /\ Len(inFlight'[p]) <= next[p]
          /\ \A k \in 1..Len(inFlight'[p]) : inFlight'[p][k] = Taken(p) + k
      BY <1>3, <2>1
    <3> QED
      BY <2>5, <2>6, <2>7, <2>8, <2>9, <3>1 DEF LineOK
  <2> QED
    BY <1>1, <2>1, <2>3, <2>4, <2>10 DEF i
<1>5. CASE ready[p] = <<>>
  <2>1. /\ inFlight' = [inFlight EXCEPT ![p] = Tail(@)] /\ UNCHANGED ready /\ i = Head(inFlight[p])
        /\ inFlight[p] # <<>>
    BY <1>5 DEF PopResult, NextResult
  <2>2. /\ Len(inFlight[p]) \in Nat \ {0} /\ Tail(inFlight[p]) \in Seq(Nat)
        /\ Len(Tail(inFlight[p])) = Len(inFlight[p]) - 1
        /\ Head(inFlight[p]) = inFlight[p][1] /\ 1 \in 1..Len(inFlight[p])
        /\ \A k \in 1..(Len(inFlight[p]) - 1) : Tail(inFlight[p])[k] = inFlight[p][k + 1]
    BY <1>2, <2>1, TailFacts
  <2>3. /\ inFlight' \in [Partitions -> Seq(Nat)] /\ inFlight'[p] = Tail(inFlight[p])
        /\ \A q \in Partitions : q # p => inFlight'[q] = inFlight[q]
    BY <1>1, <2>1, <2>2
  <2>4. i = Taken(p) + 1
    BY <1>3, <2>1, <2>2
  <2>5. i \in Files(p)
    BY <1>2, <1>3, <2>2, <2>4, SMTT(20) DEF Files, Taken
  <2> HIDE DEF i
  <2>6. next[p] - Len(inFlight'[p]) = Taken(p) + 1 /\ Len(inFlight'[p]) = Len(inFlight[p]) - 1
    BY <1>2, <2>2, <2>3 DEF Taken
  <2>7. ASSUME NEW k \in 1..Len(inFlight'[p])
        PROVE  inFlight'[p][k] = (next[p] - Len(inFlight'[p])) + k
    <3>1. k + 1 \in 1..Len(inFlight[p]) /\ inFlight'[p][k] = inFlight[p][k + 1]
      <4>1. Len(inFlight'[p]) = Len(inFlight[p]) - 1 /\ Len(inFlight[p]) \in Nat
        BY <1>2, <2>6
      <4>2. k \in 1..(Len(inFlight[p]) - 1) /\ k + 1 \in 1..Len(inFlight[p])
        BY <4>1
      <4> QED
        BY <2>2, <2>3, <4>2
    <3>2. inFlight[p][k + 1] = Taken(p) + (k + 1)
      BY <1>3, <3>1
    <3> QED
      BY <1>2, <2>6, <3>1, <3>2
  <2>8. Len(ready'[p]) = 0 /\ Len(ready[p]) = 0
    BY <1>5, <2>1
  <2>9. ASSUME NEW j \in 1..(Taken(p) + 1)
        PROVE  j = i \/ fut[p][j] \in {"ended", "skipped"}
    <3>1. j \in 1..Taken(p) \/ j = i
      BY <1>2, <2>4
    <3>2. ~\E k \in 1..Len(ready[p]) : ready[p][k] = j
      BY <2>8
    <3>3. j # 0
      BY <1>2
    <3>4. CASE j \in 1..Taken(p)
      <4>1. j = 0 \/ fut[p][j] \in {"ended", "skipped"} \/ \E k \in 1..Len(ready[p]) : ready[p][k] = j
        BY <1>3, <3>4
      <4> QED
        BY <3>2, <3>3, <4>1
    <3> QED
      BY <3>1, <3>4
  <2>10. \A j \in Files(p) : fut[p][j] = "ended" => j < i
    <3>1. \A j \in Files(p) : j \in Nat
      BY PlanFacts
    <3> QED
      BY <1>2, <1>3, <2>4, <3>1
  <2>11. LineOK(p, i)
    BY <1>2, <1>3, <2>4, <2>6, <2>7, <2>8, <2>9, <2>10 DEF LineOK
  <2> QED
    BY <1>1, <2>1, <2>3, <2>5, <2>11 DEF i
<1> QED
  BY <1>4, <1>5

\* take_next_file takes an open file and drains it, or drops a skipped one.
LEMMA TakeInv ==
    ASSUME SchedulingInv, NEW p \in Partitions,
           TakeSkipped(p) \/ (TakeFile(p) /\ ~cancelled[p])
    PROVE  SchedulingInv'
<1> DEFINE i == NextResult(p)
<1>1. /\ task[p] = "running" /\ current[p] = 0 /\ (ready[p] # <<>> \/ inFlight[p] # <<>>)
      /\ PopResult(p)
      /\ UNCHANGED <<streamVars, next, hand, fut, yielded, thread, queued, partitionQueue,
                     scanQueue>>
      /\ \/ current' = [current EXCEPT ![p] = i] /\ fut[p][i] = "open" /\ ~cancelled[p]
         \/ UNCHANGED current /\ fut[p][i] = "skipped"
  <2>1. CASE TakeSkipped(p)
    BY <2>1 DEF TakeSkipped, Taking, Polling, HasResult
  <2>2. CASE TakeFile(p) /\ ~cancelled[p]
    BY <2>2 DEF TakeFile, Taking, Polling, HasResult, streamVars
  <2> QED
    BY <2>1, <2>2
<1>2. /\ FutureOK(p) /\ PipelineOK(p) /\ ReadOK(p) /\ SentOK(p) /\ StreamTypeOK
      /\ ProducerTypeOK /\ Typed
  BY DEF SchedulingInv, ProducerInv, FutureInv, DrainOK, Typed
<1>3. /\ i \in Files(p)
      /\ inFlight' \in [Partitions -> Seq(Nat)] /\ ready' \in [Partitions -> Seq(Nat)]
      /\ \A q \in Partitions : q # p => inFlight'[q] = inFlight[q] /\ ready'[q] = ready[q]
      /\ LineOK(p, i)
  BY <1>1, PopFacts
<1> HIDE DEF i
<1>4. /\ i \in Nat /\ i # 0 /\ ~hand[p] /\ current \in [Partitions -> Nat]
      /\ \A j \in Files(p) : j # 0
  BY <1>1, <1>2, <1>3, PlanFacts DEF ReadOK, ProducerTypeOK, Files
<1>5. /\ current' \in [Partitions -> Nat]
      /\ \A q \in Partitions : q # p => current'[q] = current[q]
      /\ \/ current'[p] = i /\ fut[p][i] = "open" /\ ~cancelled[p]
         \/ current'[p] = 0 /\ fut[p][i] = "skipped"
  BY <1>1, <1>4
<1>6. Typed'
  <2>1. StreamTypeOK'
    BY <1>1, <1>2 DEF StreamTypeOK, streamVars
  <2>2. OfFiles(fut)' /\ \A q \in Partitions : \A j \in Files(q) : fut'[q][j] \in FutureStates
    BY <1>1, <1>2 DEF ProducerTypeOK, OfFiles
  <2>3. /\ next' \in [Partitions -> Nat] /\ hand' \in [Partitions -> BOOLEAN]
        /\ partitionQueue' \in [Partitions -> Seq(Nat)] /\ scanQueue' \in Seq(Partitions \X Nat)
    BY <1>1, <1>2 DEF ProducerTypeOK
  <2> QED
    BY <1>1, <1>2, <1>3, <1>5, <2>1, <2>2, <2>3, FilesTyped DEF Typed
<1>7. \A q \in Partitions : q # p => Untouched(q)
  BY <1>1, <1>3, <1>5 DEF Untouched, streamVars
<1>8. PipelineOK(p)'
  <2>1. /\ Taken(p)' = next[p] - Len(inFlight'[p]) /\ Len(inFlight'[p]) \in Nat /\ next[p] \in Nat
        /\ next'[p] = next[p] /\ fut'[p] = fut[p] /\ next[p] <= Len(FileTasks[p])
        /\ \A k \in 1..Len(ready'[p]) : ready'[p][k] \in Nat
    <3>1. next[p] \in Nat /\ next[p] <= Len(FileTasks[p])
      BY <1>1, <1>2, LineTypes DEF PipelineOK
    <3>2. inFlight'[p] \in Seq(Nat) /\ ready'[p] \in Seq(Nat)
      BY <1>3
    <3> QED
      BY <1>1, <3>1, <3>2 DEF Taken
  <2>2. current'[p] <= Taken(p)'
    BY <1>3, <1>4, <1>5, <2>1 DEF LineOK
  <2>3. \A k \in 1..Len(ready'[p]) :
           /\ current'[p] < ready'[p][k] /\ ready'[p][k] <= Taken(p)'
           /\ \A j \in 1..(k - 1) : ready'[p][j] < ready'[p][k]
    BY <1>3, <1>4, <1>5, <2>1 DEF LineOK
  <2>4. \A j \in 1..Taken(p)' :
           \/ j = current'[p] \/ fut'[p][j] \in {"ended", "skipped"}
           \/ \E k \in 1..Len(ready'[p]) : ready'[p][k] = j
    BY <1>3, <1>5, <2>1 DEF LineOK
  <2>5. Len(inFlight'[p]) <= next'[p] /\ \A k \in 1..Len(inFlight'[p]) : inFlight'[p][k] = Taken(p)' + k
    BY <1>3, <2>1 DEF LineOK
  <2>6. ASSUME NEW j \in Files(p), fut[p][j] = "ended"
        PROVE  /\ j <= Taken(p)' /\ (current'[p] # 0 => j < current'[p])
               /\ \A k \in 1..Len(ready'[p]) : j < ready'[p][k]
    <3>1. j \in Nat /\ j < i /\ i <= Taken(p)' /\ \A k \in 1..Len(ready'[p]) : i < ready'[p][k]
      BY <1>3, <2>1, <2>6, PlanFacts DEF LineOK
    <3> QED
      BY <1>4, <1>5, <2>1, <3>1
  <2> QED
    BY <2>1, <2>2, <2>3, <2>4, <2>5, <2>6 DEF PipelineOK
<1>9. ReadOK(p)'
  BY <1>1, <1>2, <1>4, <1>5 DEF ReadOK, streamVars
<1>10. SentOK(p)'
  BY <1>1, <1>2, <1>4, <1>5 DEF SentOK, Handed, streamVars
<1>11. \A j \in Files(p) : current'[p] = j => fut[p][j] = "open"
  BY <1>4, <1>5
<1>12. UNCHANGED <<state, task, permits, reads, next, fut, thread, partitionQueue, scanQueue>>
  BY <1>1 DEF streamVars
<1> QED
  BY <1>6, <1>7, <1>8, <1>9, <1>10, <1>11, <1>12, QuietAssembled

\* A file that was set up while another is drained waits behind it.
LEMMA ParkReadyInv ==
    ASSUME SchedulingInv, NEW p \in Partitions, ParkReady(p)
    PROVE  SchedulingInv'
<1> DEFINE i == Head(inFlight[p])
<1>1. /\ task[p] = "running" /\ current[p] # 0 /\ inFlight[p] # <<>>
      /\ inFlight' = [inFlight EXCEPT ![p] = Tail(@)]
      /\ UNCHANGED <<streamVars, next, current, hand, fut, yielded, thread, queued,
                     partitionQueue, scanQueue>>
      /\ \/ ready' = ready /\ fut[p][i] = "skipped"
         \/ ready' = [ready EXCEPT ![p] = Append(@, i)]
  BY DEF ParkReady, Draining, Polling
<1>2. /\ FutureOK(p) /\ PipelineOK(p) /\ ReadOK(p) /\ SentOK(p) /\ StreamTypeOK
      /\ ProducerTypeOK /\ Typed
  BY DEF SchedulingInv, ProducerInv, FutureInv, DrainOK, Typed
<1>3. /\ next[p] \in Nat /\ Len(FileTasks[p]) \in Nat /\ Len(inFlight[p]) \in Nat
      /\ Taken(p) \in Int /\ Len(ready[p]) \in Nat /\ \A k \in 1..Len(ready[p]) : ready[p][k] \in Nat
      /\ inFlight[p] \in Seq(Nat) /\ ready[p] \in Seq(Nat) /\ current[p] \in Nat
  BY <1>2, LineTypes
<1>4. /\ Len(inFlight[p]) \in Nat \ {0} /\ Tail(inFlight[p]) \in Seq(Nat)
      /\ Len(Tail(inFlight[p])) = Len(inFlight[p]) - 1
      /\ i = inFlight[p][1] /\ 1 \in 1..Len(inFlight[p]) /\ i \in Nat
      /\ \A k \in 1..(Len(inFlight[p]) - 1) : Tail(inFlight[p])[k] = inFlight[p][k + 1]
  BY <1>1, <1>3, TailFacts
<1> HIDE DEF i
<1>5. /\ inFlight' \in [Partitions -> Seq(Nat)] /\ inFlight'[p] = Tail(inFlight[p])
      /\ \A q \in Partitions : q # p => inFlight'[q] = inFlight[q]
  <2>1. inFlight \in [Partitions -> Seq(Nat)]
    BY <1>2 DEF ProducerTypeOK
  <2> QED
    BY <1>1, <1>4, <2>1
<1>6. /\ ready' \in [Partitions -> Seq(Nat)]
      /\ \A q \in Partitions : q # p => ready'[q] = ready[q]
      /\ \/ ready'[p] = ready[p] /\ fut[p][i] = "skipped"
         \/ ready'[p] = Append(ready[p], i)
  <2>1. ready \in [Partitions -> Seq(Nat)] /\ Append(ready[p], i) \in Seq(Nat)
    BY <1>2, <1>4 DEF ProducerTypeOK
  <2> QED
    BY <1>1, <2>1
<1>7. /\ Taken(p)' = Taken(p) + 1 /\ i = Taken(p) + 1 /\ current[p] <= Taken(p)
      /\ Len(inFlight[p]) <= next[p] /\ next[p] <= Len(FileTasks[p])
  BY <1>1, <1>2, <1>3, <1>4, <1>5 DEF Taken, PipelineOK
<1>8. Typed'
  <2>1. StreamTypeOK'
    BY <1>1, <1>2 DEF StreamTypeOK, streamVars
  <2>2. OfFiles(fut)' /\ \A q \in Partitions : \A j \in Files(q) : fut'[q][j] \in FutureStates
    BY <1>1, <1>2 DEF ProducerTypeOK, OfFiles
  <2>3. /\ next' \in [Partitions -> Nat] /\ hand' \in [Partitions -> BOOLEAN]
        /\ current' \in [Partitions -> Nat]
        /\ partitionQueue' \in [Partitions -> Seq(Nat)] /\ scanQueue' \in Seq(Partitions \X Nat)
    BY <1>1, <1>2 DEF ProducerTypeOK
  <2> QED
    BY <1>1, <1>2, <1>5, <1>6, <2>1, <2>2, <2>3, FilesTyped DEF Typed
<1>9. \A q \in Partitions : q # p => Untouched(q)
  BY <1>1, <1>5, <1>6 DEF Untouched, streamVars
<1>10. PipelineOK(p)'
  <2>1. ASSUME NEW k \in 1..Len(inFlight'[p]) PROVE inFlight'[p][k] = Taken(p)' + k
    <3>1. k \in 1..(Len(inFlight[p]) - 1) /\ k + 1 \in 1..Len(inFlight[p])
      <4>1. Len(inFlight'[p]) = Len(inFlight[p]) - 1 /\ Len(inFlight[p]) \in Nat
        BY <1>3, <1>4, <1>5
      <4> QED
        BY <4>1
    <3>2. inFlight[p][k + 1] = Taken(p) + (k + 1)
      BY <1>1, <1>2, <3>1 DEF PipelineOK
    <3> QED
      BY <1>3, <1>4, <1>5, <1>7, <3>1, <3>2
  <2>2. /\ next'[p] = next[p] /\ Len(inFlight'[p]) <= next[p]
        /\ current'[p] = current[p] /\ current[p] <= Taken(p)'
        /\ fut'[p] = fut[p]
    BY <1>1, <1>3, <1>4, <1>5, <1>7
  <2>3. \A k \in 1..Len(ready[p]) :
           /\ current[p] < ready[p][k] /\ ready[p][k] <= Taken(p)
           /\ \A j \in 1..(k - 1) : ready[p][j] < ready[p][k]
    BY <1>1, <1>2 DEF PipelineOK
  <2>4. ASSUME NEW j \in 1..Taken(p)
        PROVE  \/ j = current[p] \/ fut[p][j] \in {"ended", "skipped"}
               \/ \E k \in 1..Len(ready[p]) : ready[p][k] = j
    BY <1>1, <1>2, <2>4 DEF PipelineOK
  <2>7. ASSUME NEW j \in Files(p), fut[p][j] = "ended"
        PROVE  /\ j \in Nat /\ j <= Taken(p) /\ j <= Taken(p)' /\ j < current[p]
               /\ \A k \in 1..Len(ready[p]) : j < ready[p][k]
    <3>1. /\ j \in Nat /\ j <= Taken(p) /\ j < current[p]
          /\ \A k \in 1..Len(ready[p]) : j < ready[p][k]
      BY <1>1, <1>2, <2>7, PlanFacts DEF PipelineOK
    <3> QED
      BY <1>3, <1>7, <3>1
  <2>5. CASE ready'[p] = ready[p] /\ fut[p][i] = "skipped"
    <3>1. \A k \in 1..Len(ready'[p]) :
             /\ current[p] < ready'[p][k] /\ ready'[p][k] <= Taken(p)'
             /\ \A j \in 1..(k - 1) : ready'[p][j] < ready'[p][k]
      BY <1>3, <1>7, <2>3, <2>5
    <3>2. ASSUME NEW j \in 1..Taken(p)'
          PROVE  \/ j = current[p] \/ fut[p][j] \in {"ended", "skipped"}
                 \/ \E k \in 1..Len(ready'[p]) : ready'[p][k] = j
      <4>1. j \in 1..Taken(p) \/ j = i
        BY <1>3, <1>7
      <4> QED
        BY <2>4, <2>5, <4>1
    <3> QED
      BY <1>7, <2>1, <2>2, <2>5, <2>7, <3>1, <3>2 DEF PipelineOK
  <2>6. CASE ready'[p] = Append(ready[p], i)
    <3>1. /\ Len(ready'[p]) = Len(ready[p]) + 1 /\ ready'[p][Len(ready[p]) + 1] = i
          /\ \A k \in 1..Len(ready[p]) : ready'[p][k] = ready[p][k]
      BY <1>3, <1>4, <2>6
    <3>2. ASSUME NEW k \in 1..Len(ready'[p])
          PROVE  /\ current[p] < ready'[p][k] /\ ready'[p][k] <= Taken(p)'
                 /\ \A j \in 1..(k - 1) : ready'[p][j] < ready'[p][k]
      <4>1. CASE k \in 1..Len(ready[p])
        <5>1. \A j \in 1..(k - 1) : j \in 1..Len(ready[p])
          BY <1>3, <4>1
        <5>2. ready'[p][k] = ready[p][k] /\ \A j \in 1..(k - 1) : ready'[p][j] = ready[p][j]
          BY <3>1, <4>1, <5>1
        <5>3. /\ current[p] < ready[p][k] /\ ready[p][k] <= Taken(p)'
              /\ \A j \in 1..(k - 1) : ready[p][j] < ready[p][k]
          <6>1. ready[p][k] \in Nat /\ ready[p][k] <= Taken(p)
            BY <1>3, <2>3, <4>1
          <6>2. ready[p][k] <= Taken(p)'
            BY <1>3, <1>7, <6>1
          <6> QED
            BY <2>3, <4>1, <6>2
        <5> QED
          BY <5>2, <5>3
      <4>2. CASE k = Len(ready[p]) + 1
        <5>1. ready'[p][k] = i /\ current[p] < i /\ i <= Taken(p)'
          BY <1>3, <1>7, <3>1, <4>2
        <5>2. ASSUME NEW j \in 1..(k - 1) PROVE ready'[p][j] < i
          <6>1. j \in 1..Len(ready[p])
            BY <1>3, <4>2
          <6>2. ready'[p][j] = ready[p][j] /\ ready[p][j] \in Nat /\ ready[p][j] <= Taken(p)
            BY <1>3, <2>3, <3>1, <6>1
          <6> QED
            BY <1>3, <1>7, <6>2
        <5> QED
          BY <5>1, <5>2
      <4> QED
        <5>1. Len(ready[p]) \in Nat /\ k \in 1..(Len(ready[p]) + 1)
          BY <1>3, <3>1
        <5>2. k \in 1..Len(ready[p]) \/ k = Len(ready[p]) + 1
          BY <5>1
        <5> QED
          BY <4>1, <4>2, <5>2
    <3>3. ASSUME NEW j \in 1..Taken(p)'
          PROVE  \/ j = current[p] \/ fut[p][j] \in {"ended", "skipped"}
                 \/ \E k \in 1..Len(ready'[p]) : ready'[p][k] = j
      <4>1. CASE j \in 1..Taken(p)
        <5>1. \A k \in 1..Len(ready[p]) : k \in 1..Len(ready'[p])
          BY <1>3, <3>1
        <5> QED
          BY <2>4, <3>1, <4>1, <5>1
      <4>2. CASE j = i
        <5>1. Len(ready[p]) + 1 \in 1..Len(ready'[p])
          BY <1>3, <3>1
        <5> QED
          BY <3>1, <4>2, <5>1
      <4> QED
        BY <1>3, <1>7, <4>1, <4>2
    <3>4. ASSUME NEW j \in Files(p), fut[p][j] = "ended", NEW k \in 1..Len(ready'[p])
          PROVE  j < ready'[p][k]
      <4>1. CASE k \in 1..Len(ready[p])
        BY <2>7, <3>1, <3>4, <4>1
      <4>2. CASE k = Len(ready[p]) + 1
        BY <1>3, <1>7, <2>7, <3>1, <3>4, <4>2
      <4> QED
        BY <1>3, <3>1, <4>1, <4>2
    <3> QED
      BY <1>7, <2>1, <2>2, <2>7, <3>2, <3>3, <3>4 DEF PipelineOK
  <2> QED
    BY <1>6, <2>5, <2>6
<1>11. ReadOK(p)'
  BY <1>1, <1>2 DEF ReadOK, streamVars
<1>12. SentOK(p)'
  BY <1>1, <1>2 DEF SentOK, Handed, streamVars
<1>13. \A j \in Files(p) : current'[p] = j => fut[p][j] = "open"
  BY <1>1, <1>2 DEF FutureOK
<1>14. UNCHANGED <<state, task, permits, reads, next, fut, thread, partitionQueue, scanQueue>>
  BY <1>1 DEF streamVars
<1> QED
  BY <1>8, <1>9, <1>10, <1>11, <1>12, <1>13, <1>14, QuietAssembled

\* The drain receives a batch of the current file.
LEMMA NextBatchInv ==
    ASSUME SchedulingInv, NEW p \in Partitions, NextBatch(p)
    PROVE  SchedulingInv'
<1> DEFINE i == current[p]
<1>1. /\ task[p] = "running" /\ i # 0 /\ ~hand[p]
      /\ \/ Backend = "Direct" /\ yielded[p][i] < FileTasks[p][i] /\ queued' = queued
         \/ Backend # "Direct" /\ queued[p][i] > 0 /\ queued' = [queued EXCEPT ![p][i] = @ - 1]
      /\ yielded' = [yielded EXCEPT ![p][i] = @ + 1]
      /\ hand' = [hand EXCEPT ![p] = TRUE]
      /\ UNCHANGED <<streamVars, next, inFlight, ready, current, fut, thread,
                     partitionQueue, scanQueue>>
  BY DEF NextBatch, Draining, Polling
<1>2. /\ FutureOK(p) /\ PipelineOK(p) /\ ReadOK(p) /\ SentOK(p) /\ StreamTypeOK
      /\ ProducerTypeOK /\ Typed
  BY DEF SchedulingInv, ProducerInv, FutureInv, DrainOK, Typed
<1>3. i \in Files(p) /\ fut[p][i] = "open"
  BY <1>1, CurrentFile
<1>4. \A j \in Files(p) : yielded[p][j] \in Nat /\ queued[p][j] \in Nat /\ FileTasks[p][j] \in Nat
  BY <1>2, PlanFacts DEF ProducerTypeOK
<1>5. i = current[p] /\ current'[p] = i
  BY <1>1
<1> HIDE DEF i
<1>6. /\ OfFiles(yielded)' /\ \A q \in Partitions : q # p => yielded'[q] = yielded[q]
      /\ yielded'[p][i] = yielded[p][i] + 1
      /\ \A j \in Files(p) : j # i => yielded'[p][j] = yielded[p][j]
  <2>1. OfFiles(yielded)
    BY <1>2 DEF ProducerTypeOK
  <2> QED
    BY <1>1, <1>3, <2>1 DEF OfFiles
<1>7. /\ OfFiles(queued)' /\ \A q \in Partitions : q # p => queued'[q] = queued[q]
      /\ \A j \in Files(p) : j # i => queued'[p][j] = queued[p][j]
      /\ \/ Backend = "Direct" /\ yielded[p][i] < FileTasks[p][i] /\ queued'[p][i] = queued[p][i]
         \/ Backend # "Direct" /\ queued[p][i] > 0 /\ queued'[p][i] = queued[p][i] - 1
  <2>1. OfFiles(queued)
    BY <1>2 DEF ProducerTypeOK
  <2>2. CASE Backend = "Direct"
    BY <1>1, <2>1, <2>2 DEF OfFiles
  <2>3. CASE Backend # "Direct"
    BY <1>1, <1>3, <2>1, <2>3 DEF OfFiles
  <2> QED
    BY <2>2, <2>3
<1>8. /\ hand' \in [Partitions -> BOOLEAN] /\ hand'[p]
      /\ \A q \in Partitions : q # p => hand'[q] = hand[q]
  BY <1>1, <1>2 DEF ProducerTypeOK
<1>9. queued'[p][i] \in Nat /\ yielded'[p][i] \in Nat
  BY <1>3, <1>4, <1>6, <1>7
<1>10. Typed'
  <2>1. StreamTypeOK'
    BY <1>1, <1>2 DEF StreamTypeOK, streamVars
  <2>2. OfFiles(fut)' /\ OfFiles(thread)'
    BY <1>1, <1>2 DEF ProducerTypeOK, OfFiles
  <2>3. \A q \in Partitions : \A j \in Files(q) :
          /\ fut'[q][j] \in FutureStates /\ thread'[q][j] \in ThreadStates
          /\ yielded'[q][j] \in Nat /\ queued'[q][j] \in Nat
    BY <1>1, <1>2, <1>6, <1>7, <1>9 DEF ProducerTypeOK
  <2> QED
    BY <1>1, <1>2, <1>6, <1>7, <1>8, <2>1, <2>2, <2>3 DEF Typed, ProducerTypeOK
<1>11. \A q \in Partitions : q # p => Untouched(q)
  BY <1>1, <1>6, <1>7, <1>8 DEF Untouched, streamVars
<1>12. PipelineOK(p)'
  BY <1>1, <1>2, PipelineKept DEF streamVars
<1>13. ReadOK(p)'
  <2>1. /\ Backend = "Direct" \/ thread[p][i] = "none" => queued[p][i] = 0
        /\ thread[p][i] \in {"running", "sending"} => Backend # "Direct"
        /\ yielded[p][i] + queued[p][i] <= FileTasks[p][i]
        /\ thread[p][i] = "sending" => yielded[p][i] + queued[p][i] < FileTasks[p][i]
        /\ thread[p][i] = "finished" => yielded[p][i] + queued[p][i] = FileTasks[p][i]
        /\ thread[p][i] = "stopped" => cancelled[p]
    BY <1>2, <1>3 DEF ReadOK, FutureOK
  <2>2. /\ yielded'[p][i] + queued'[p][i] <= FileTasks[p][i]
        /\ thread[p][i] = "sending" => yielded'[p][i] + queued'[p][i] < FileTasks[p][i]
        /\ thread[p][i] = "finished" => yielded'[p][i] + queued'[p][i] = FileTasks[p][i]
        /\ Backend = "Direct" \/ thread[p][i] = "none" => queued'[p][i] = 0
        /\ yielded'[p][i] >= 1
    <3>1. yielded[p][i] \in Nat /\ queued[p][i] \in Nat /\ FileTasks[p][i] \in Nat
      BY <1>3, <1>4
    <3>2. CASE Backend = "Direct"
      BY <1>6, <1>7, <2>1, <3>1, <3>2
    <3>3. CASE Backend # "Direct"
      BY <1>6, <1>7, <2>1, <3>1, <3>3
    <3> QED
      BY <3>2, <3>3
  <2>3. UNCHANGED <<fut, thread, cancelled, current>> /\ current[p] = i /\ i # 0
    BY <1>1, <1>5 DEF streamVars
  <2>4. ASSUME NEW j \in Files(p)
        PROVE  /\ yielded'[p][j] + queued'[p][j] <= FileTasks[p][j]
               /\ thread[p][j] = "sending" => yielded'[p][j] + queued'[p][j] < FileTasks[p][j]
               /\ thread[p][j] = "finished" => yielded'[p][j] + queued'[p][j] = FileTasks[p][j]
               /\ thread[p][j] = "stopped" => cancelled[p] \/ fut[p][j] = "dropped"
               /\ Backend = "Direct" \/ thread[p][j] = "none" => queued'[p][j] = 0
               /\ fut[p][j] = "skipped" => <<p, j>> \in SkippedFiles
               /\ j # i /\ fut[p][j] \notin {"ended", "dropped"} => yielded'[p][j] = 0
               /\ j = i => yielded'[p][j] >= 1
               /\ fut[p][j] = "ended" => yielded'[p][j] = FileTasks[p][j]
    <3>1. CASE j = i
      BY <1>3, <2>1, <2>2, <3>1
    <3>2. CASE j # i
      BY <1>2, <1>6, <1>7, <2>3, <3>2 DEF ReadOK
    <3> QED
      BY <3>1, <3>2
  <2> QED
    BY <2>3, <2>4 DEF ReadOK
<1>14. SentOK(p)'
  <2>1. \A j \in Files(p) : Handed(p, j)' = Handed(p, j)
    BY <1>1, <1>3, <1>4, <1>5, <1>6, <1>8 DEF Handed
  <2>2. UNCHANGED <<sent, task, cancelled, current, fut>>
    BY <1>1 DEF streamVars
  <2>3. \A b \in Batches(p) : b[1] \in Files(p)
    BY DEF Batches, Files
  <2> QED
    BY <1>2, <2>1, <2>2, <2>3 DEF SentOK
<1>15. \A j \in Files(p) : current'[p] = j => fut[p][j] = "open"
  BY <1>3, <1>5
<1>16. UNCHANGED <<state, task, permits, reads, next, fut, thread, partitionQueue, scanQueue>>
  BY <1>1 DEF streamVars
<1> QED
  BY <1>10, <1>11, <1>12, <1>13, <1>14, <1>15, <1>16, QuietAssembled

\* The batch in the drain's hands is the partition's next one: files before the
\* current one are done with, and nothing of those after it was read.
LEMMA EmitIsNext ==
    ASSUME SchedulingInv, NEW p \in Partitions, task[p] = "running", current[p] # 0, hand[p],
           NEW b0, b0 = <<current[p], yielded[p][current[p]]>>
    PROVE  /\ b0 \in Batches(p) /\ Before(sent[p], b0)
           /\ \A b \in Batches(p) : fut[p][b[1]] # "skipped" =>
                (Before(b0, b) <=> (Before(sent[p], b) /\ b # b0))
           /\ \A b \in Batches(p) : fut[p][b[1]] # "skipped" =>
                (Before(b0, b) <=> yielded[p][b[1]] < b[2])
<1> DEFINE i == current[p]
<1>1. /\ FutureOK(p) /\ PipelineOK(p) /\ ReadOK(p) /\ SentOK(p) /\ Typed
  BY DEF SchedulingInv, ProducerInv, FutureInv, DrainOK, Typed
<1>2. i \in Files(p) /\ fut[p][i] = "open"
  BY CurrentFile
<1>3. /\ \A j \in Files(p) : yielded[p][j] \in Nat /\ queued[p][j] \in Nat
           /\ FileTasks[p][j] \in Nat /\ j \in Nat
      /\ Len(ready[p]) \in Nat /\ \A k \in 1..Len(ready[p]) : ready[p][k] \in Nat
      /\ Taken(p) \in Int
  BY <1>1, PlanFacts, LineTypes DEF Typed, ProducerTypeOK
<1>4. /\ yielded[p][i] >= 1 /\ yielded[p][i] <= FileTasks[p][i]
  <2>1. yielded[p][i] >= 1 /\ yielded[p][i] + queued[p][i] <= FileTasks[p][i]
    BY <1>1, <1>2 DEF ReadOK
  <2> QED
    BY <1>2, <1>3, <2>1
<1>5. b0 \in Batches(p)
  BY <1>2, <1>3, <1>4 DEF Batches, Files
<1>6. ASSUME NEW b \in Batches(p)
      PROVE  /\ b[1] \in Files(p) /\ b[2] \in 1..FileTasks[p][b[1]] /\ b = <<b[1], b[2]>>
             /\ b[2] \in Nat
  <2>1. PICK j \in 1..Len(FileTasks[p]) : b \in {j} \X (1..FileTasks[p][j])
    BY <1>6 DEF Batches
  <2> QED
    BY <1>3, <2>1 DEF Files
<1>7. ASSUME NEW j \in Files(p), j < i
      PROVE  fut[p][j] = "skipped" \/ yielded[p][j] = FileTasks[p][j]
  <2>1. i <= Taken(p) /\ \A k \in 1..Len(ready[p]) : i < ready[p][k]
    BY <1>1 DEF PipelineOK
  <2>2. j \in 1..Taken(p)
    BY <1>2, <1>3, <1>7, <2>1 DEF Files
  <2>3. ~\E k \in 1..Len(ready[p]) : ready[p][k] = j
    BY <1>2, <1>3, <1>7, <2>1
  <2>4. j # i
    BY <1>2, <1>3, <1>7
  <2>5. fut[p][j] \in {"ended", "skipped"}
    BY <1>1, <2>2, <2>3, <2>4 DEF PipelineOK
  <2> QED
    BY <1>1, <2>5 DEF ReadOK
<1>8. ASSUME NEW j \in Files(p), j > i
      PROVE  yielded[p][j] = 0
  <2>1. j # i /\ ~(j < i)
    BY <1>2, <1>3, <1>8
  <2>2. fut[p][j] # "ended" /\ fut[p][j] # "dropped"
    BY <1>1, <2>1 DEF PipelineOK, FutureOK
  <2> QED
    BY <1>1, <2>1, <2>2 DEF ReadOK
<1>9. \A b \in Batches(p) : fut[p][b[1]] # "skipped" =>
         (Before(sent[p], b) <=> Handed(p, b[1]) < b[2])
  BY <1>1 DEF SentOK
<1>10. Handed(p, i) = yielded[p][i] - 1 /\ \A j \in Files(p) : j # i => Handed(p, j) = yielded[p][j]
  BY DEF Handed
<1>11. ASSUME NEW b \in Batches(p), fut[p][b[1]] # "skipped"
       PROVE  /\ Before(b0, b) <=> yielded[p][b[1]] < b[2]
              /\ Before(b0, b) <=> (Handed(p, b[1]) < b[2] /\ b # b0)
  <2>1. /\ b[1] \in Files(p) /\ b[1] \in Nat /\ b[2] \in Nat /\ 1 <= b[2]
        /\ b[2] <= FileTasks[p][b[1]] /\ b = <<b[1], b[2]>>
        /\ yielded[p][b[1]] \in Nat /\ FileTasks[p][b[1]] \in Nat /\ i \in Nat /\ yielded[p][i] \in Nat
        /\ b0[1] = i /\ b0[2] = yielded[p][i]
    BY <1>2, <1>3, <1>6
  <2>2. CASE b[1] < i
    <3>1. yielded[p][b[1]] = FileTasks[p][b[1]] /\ b[1] # i
      BY <1>7, <1>11, <2>1, <2>2
    <3> QED
      BY <1>10, <2>1, <2>2, <3>1 DEF Before
  <2>3. CASE b[1] = i
    <3>1. b # b0 <=> b[2] # yielded[p][i]
      BY <2>1, <2>3
    <3> QED
      BY <1>10, <2>1, <2>3, <3>1 DEF Before
  <2>4. CASE b[1] > i
    <3>1. yielded[p][b[1]] = 0 /\ b[1] # i /\ b # b0
      BY <1>8, <2>1, <2>4
    <3> QED
      BY <1>10, <2>1, <2>4, <3>1 DEF Before
  <2> QED
    BY <2>1, <2>2, <2>3, <2>4
<1>12. Before(sent[p], b0)
  <2>1. b0[1] = i /\ b0[2] = yielded[p][i] /\ yielded[p][i] - 1 < yielded[p][i]
    BY <1>2, <1>3
  <2> QED
    BY <1>2, <1>5, <1>9, <1>10, <2>1
<1> QED
  BY <1>5, <1>9, <1>11, <1>12

\* The batch goes to the partition's channel.
LEMMA EmitBatchInv ==
    ASSUME SchedulingInv, ChannelTypeOK, NEW p \in Partitions, EmitBatch(p)
    PROVE  SchedulingInv'
<1> DEFINE i == current[p]
           b0 == <<current[p], yielded[p][current[p]]>>
<1>1. /\ task[p] = "running" /\ current[p] # 0 /\ hand[p]
      /\ sent' = [sent EXCEPT ![p] = b0] /\ out' = [out EXCEPT ![p] = Append(@, b0)]
      /\ hand' = [hand EXCEPT ![p] = FALSE]
      /\ UNCHANGED <<cancelled, state, task, permits, reads, next, inFlight, ready,
                     current, fut, yielded, thread, queued, partitionQueue, scanQueue>>
  BY DEF EmitBatch, Draining, Polling
<1>2. /\ FutureOK(p) /\ PipelineOK(p) /\ ReadOK(p) /\ SentOK(p) /\ StreamTypeOK
      /\ ProducerTypeOK /\ Typed
  BY DEF SchedulingInv, ProducerInv, FutureInv, DrainOK, Typed
<1>3. \A b \in Batches(p) : fut[p][b[1]] # "skipped" =>
         (Before(b0, b) <=> yielded[p][b[1]] < b[2])
  BY <1>1, EmitIsNext
<1> HIDE DEF b0
<1>4. /\ hand' \in [Partitions -> BOOLEAN] /\ ~hand'[p]
      /\ \A q \in Partitions : q # p => hand'[q] = hand[q]
  BY <1>1, <1>2 DEF ProducerTypeOK
<1>5. Typed'
  <2>1. StreamTypeOK'
    BY <1>1, <1>2 DEF StreamTypeOK
  <2>2. OfFiles(fut)' /\ \A q \in Partitions : \A j \in Files(q) : fut'[q][j] \in FutureStates
    BY <1>1, <1>2 DEF ProducerTypeOK, OfFiles
  <2>3. /\ next' \in [Partitions -> Nat] /\ current' \in [Partitions -> Nat]
        /\ inFlight' \in [Partitions -> Seq(Nat)] /\ ready' \in [Partitions -> Seq(Nat)]
        /\ partitionQueue' \in [Partitions -> Seq(Nat)] /\ scanQueue' \in Seq(Partitions \X Nat)
    BY <1>1, <1>2 DEF ProducerTypeOK
  <2> QED
    BY <1>1, <1>2, <1>4, <2>1, <2>2, <2>3, FilesTyped DEF Typed
<1>6. \A q \in Partitions : q # p => Untouched(q)
  BY <1>1, <1>4 DEF Untouched
<1>7. PipelineOK(p)'
  BY <1>1, <1>2, PipelineKept
<1>8. ReadOK(p)'
  BY <1>1, <1>2, <1>4 DEF ReadOK
<1>9. SentOK(p)'
  <2>1. \A j : Handed(p, j)' = yielded[p][j]
    BY <1>1, <1>4 DEF Handed
  <2>2. sent'[p] = b0
    BY <1>1 DEF ChannelTypeOK
  <2> QED
    BY <1>1, <1>3, <2>1, <2>2 DEF SentOK
<1>10. \A j \in Files(p) : current'[p] = j => fut[p][j] = "open"
  BY <1>1, <1>2 DEF FutureOK
<1> QED
  BY <1>1, <1>5, <1>6, <1>7, <1>8, <1>9, <1>10, QuietAssembled

LEMMA Positions ==
    ASSUME NEW l \in Nat, NEW n \in Nat
    PROVE  /\ \A k \in 1..l : k \in 1..(l + n) /\ k <= l
           /\ \A k \in 1..n : l + k \in 1..(l + n) /\ ~(l + k <= l) /\ (l + k) - l = k
           /\ \A k \in 1..(l + n) : k \notin 1..l => k - l \in 1..n /\ l + (k - l) = k
OBVIOUS

\* refill_pending_file_streams schedules the next files behind the others.
LEMMA RefillInv ==
    ASSUME SchedulingInv, NEW p \in Partitions, Refill(p)
    PROVE  SchedulingInv'
<1> DEFINE n == Vacancies(p)
           more == [k \in 1..n |-> next[p] + k]
<1>1. /\ task[p] = "running" /\ n > 0
      /\ next' = [next EXCEPT ![p] = @ + n]
      /\ inFlight' = [inFlight EXCEPT ![p] = @ \o more]
      /\ fut' = [fut EXCEPT ![p] = [i \in Files(p) |->
                   IF i \in (next[p] + 1)..(next[p] + n) THEN "unpolled" ELSE @[i]]]
      /\ UNCHANGED <<streamVars, ready, current, hand, yielded, thread, queued,
                     partitionQueue, scanQueue>>
  BY DEF Refill
<1>2. /\ FutureOK(p) /\ PipelineOK(p) /\ ReadOK(p) /\ SentOK(p) /\ CountOK(p) /\ StreamTypeOK
      /\ ProducerTypeOK /\ Typed /\ GrantInv /\ QueueOrderInv
  BY DEF SchedulingInv, ProducerInv, FutureInv, DrainOK, Typed
<1>3. /\ next[p] \in Nat /\ Len(FileTasks[p]) \in Nat /\ Len(inFlight[p]) \in Nat
      /\ Len(ready[p]) \in Nat /\ inFlight[p] \in Seq(Nat) /\ Taken(p) \in Int
      /\ next[p] <= Len(FileTasks[p]) /\ Len(inFlight[p]) <= next[p]
      /\ \A j \in Files(p) : j \in Nat
  BY <1>1, <1>2, LineTypes, PlanFacts DEF PipelineOK
<1>4. n \in Nat /\ n <= Len(FileTasks[p]) - next[p]
  <2>1. Prefetch \in Nat
    BY OptionsAssumption DEF Prefetch
  <2>2. PICK room \in Int : n = IF room < 0 THEN 0 ELSE Smaller(room, Len(FileTasks[p]) - next[p])
    <3> DEFINE target == IF current[p] = 0 THEN Prefetch + 1 ELSE Prefetch
               gap == target - Len(inFlight[p]) - Len(ready[p])
    <3>1. target \in Int
      BY <2>1
    <3>2. gap \in Int
      <4> HIDE DEF target
      <4> QED
        BY <1>3, <3>1
    <3>3. n = IF gap < 0 THEN 0 ELSE Smaller(gap, Len(FileTasks[p]) - next[p])
      BY DEF Vacancies
    <3> HIDE DEF gap, n
    <3> QED
      BY <3>2, <3>3
  <2> HIDE DEF n
  <2>3. Len(FileTasks[p]) - next[p] \in Nat
    BY <1>3
  <2> QED
    BY <2>2, <2>3 DEF Smaller
<1> HIDE DEF n
<1>5. more \in Seq(Nat) /\ Len(more) = n /\ \A k \in 1..n : more[k] = next[p] + k
  <2>1. \A k \in 1..n : next[p] + k \in Nat
    BY <1>3, <1>4
  <2> QED
    BY <1>4, <2>1
<1> HIDE DEF more
<1>6. /\ next' \in [Partitions -> Nat] /\ next'[p] = next[p] + n
      /\ \A q \in Partitions : q # p => next'[q] = next[q]
  BY <1>1, <1>2, <1>3, <1>4 DEF ProducerTypeOK
<1>7. /\ inFlight[p] \o more \in Seq(Nat) /\ Len(inFlight[p] \o more) = Len(inFlight[p]) + n
      /\ \A k \in 1..Len(inFlight[p]) : (inFlight[p] \o more)[k] = inFlight[p][k]
      /\ \A k \in 1..n : (inFlight[p] \o more)[Len(inFlight[p]) + k] = next[p] + k
  <2> DEFINE both == inFlight[p] \o more
  <2>1. /\ both \in Seq(Nat) /\ Len(both) = Len(inFlight[p]) + n
        /\ \A k \in 1..(Len(inFlight[p]) + n) : both[k] =
             IF k <= Len(inFlight[p]) THEN inFlight[p][k] ELSE more[k - Len(inFlight[p])]
    BY <1>3, <1>5, ConcatProperties, ZenonT(30)
  <2> HIDE DEF both
  <2>2. /\ \A k \in 1..Len(inFlight[p]) : k \in 1..(Len(inFlight[p]) + n) /\ k <= Len(inFlight[p])
        /\ \A k \in 1..n : /\ Len(inFlight[p]) + k \in 1..(Len(inFlight[p]) + n)
                           /\ ~(Len(inFlight[p]) + k <= Len(inFlight[p]))
                           /\ (Len(inFlight[p]) + k) - Len(inFlight[p]) = k
    BY <1>3, <1>4, Positions
  <2>3. \A k \in 1..Len(inFlight[p]) : both[k] = inFlight[p][k]
    BY <2>1, <2>2
  <2>4. ASSUME NEW k \in 1..n PROVE both[Len(inFlight[p]) + k] = next[p] + k
    <3>1. both[Len(inFlight[p]) + k] = more[k]
      BY <2>1, <2>2
    <3> QED
      BY <1>5, <3>1
  <2> QED
    BY <2>1, <2>3, <2>4 DEF both
<1>8. /\ inFlight' \in [Partitions -> Seq(Nat)] /\ inFlight'[p] = inFlight[p] \o more
      /\ \A q \in Partitions : q # p => inFlight'[q] = inFlight[q]
  BY <1>1, <1>2, <1>7 DEF ProducerTypeOK
<1>9. /\ OfFiles(fut)' /\ \A q \in Partitions : q # p => fut'[q] = fut[q]
      /\ \A j \in Files(p) : fut'[p][j] =
           IF j \in (next[p] + 1)..(next[p] + n) THEN "unpolled" ELSE fut[p][j]
  <2>1. OfFiles(fut)
    BY <1>2 DEF ProducerTypeOK
  <2> QED
    BY <1>1, <2>1 DEF OfFiles
<1>10. \A j \in Files(p) :
         \/ fut'[p][j] = fut[p][j] /\ (j > next'[p] <=> j > next[p])
         \/ fut[p][j] = "planned" /\ fut'[p][j] = "unpolled" /\ j > next[p] /\ ~(j > next'[p])
  <2>1. \A j \in Files(p) : j > next[p] => fut[p][j] = "planned"
    BY <1>1, <1>2 DEF FutureOK
  <2>2. ASSUME NEW j \in Files(p)
        PROVE  j \in (next[p] + 1)..(next[p] + n) <=> (j > next[p] /\ ~(j > next[p] + n))
    BY <1>3, <1>4
  <2>3. ASSUME NEW j \in Files(p)
        PROVE  j > next[p] + n => j > next[p]
    BY <1>3, <1>4
  <2> QED
    BY <1>6, <1>9, <2>1, <2>2, <2>3
<1>11. Typed'
  <2>1. StreamTypeOK'
    BY <1>1, <1>2 DEF StreamTypeOK, streamVars
  <2>2. \A q \in Partitions : \A j \in Files(q) : fut'[q][j] \in FutureStates
    BY <1>2, <1>9, ZenonT(30) DEF ProducerTypeOK, FutureStates
  <2>3. /\ ready' \in [Partitions -> Seq(Nat)] /\ hand' \in [Partitions -> BOOLEAN]
        /\ current' \in [Partitions -> Nat]
        /\ partitionQueue' \in [Partitions -> Seq(Nat)] /\ scanQueue' \in Seq(Partitions \X Nat)
    BY <1>1, <1>2 DEF ProducerTypeOK
  <2> QED
    BY <1>1, <1>2, <1>6, <1>8, <1>9, <2>1, <2>2, <2>3, FilesTyped DEF Typed
<1>12. \A q \in Partitions : q # p => Untouched(q)
  BY <1>1, <1>6, <1>8, <1>9 DEF Untouched, streamVars
<1>13. FutureOK(p)'
  <2>1. UNCHANGED <<state, task, thread, current>>
    BY <1>1 DEF streamVars
  <2>2. ASSUME NEW j \in Files(p), fut'[p][j] = "waitPartition", NEW k \in Files(p), k < j
        PROVE  fut'[p][k] \notin {"planned", "unpolled"}
    <3>1. fut[p][j] = "waitPartition" /\ fut[p][k] \notin {"planned", "unpolled"}
      BY <1>2, <1>10, <2>2 DEF FutureOK
    <3> QED
      BY <1>10, <3>1
  <2>3. ASSUME NEW j \in Files(p)
        PROVE  /\ fut'[p][j] = "dropped" <=> task[p] \notin {"none", "running", "failing"}
               /\ fut'[p][j] # "dropped" => (fut'[p][j] = "planned" <=> j > next'[p])
               /\ thread[p][j] \in {"running", "sending"} =>
                    Backend # "Direct" /\ fut'[p][j] \in {"open", "dropped"}
               /\ fut'[p][j] = "opening" => Backend = "Direct"
               /\ current[p] = j => fut'[p][j] = "open"
    BY <1>1, <1>2, <1>10 DEF FutureOK
  <2> QED
    BY <1>1, <1>2, <2>1, <2>2, <2>3 DEF FutureOK
<1>14. GrantInv' /\ QueueOrderInv'
  <2>1. \A j \in Files(p) : thread[p][j] \in {"running", "sending"} => fut[p][j] # "planned"
    BY <1>2 DEF FutureOK
  <2>2. UNCHANGED <<thread, task>>
    BY <1>1 DEF streamVars
  <2>3. \A j \in Files(p) :
          /\ fut'[p][j] \in {"planned", "unpolled", "waitPartition"} =>
               fut[p][j] \in {"planned", "unpolled", "waitPartition"}
          /\ fut'[p][j] = "waitScan" => fut[p][j] = "waitScan"
          /\ j \in ActiveReads(p)' => j \in ActiveReads(p)
    BY <1>10, <2>2 DEF ActiveReads
  <2>4. permits \in [Partitions -> Nat] /\ UNCHANGED <<permits, scanQueue>>
    BY <1>1, <1>2 DEF StreamTypeOK, streamVars
  <2>5. \A q \in Partitions : q # p =>
             /\ fut'[q] = fut[q] /\ thread'[q] = thread[q] /\ task'[q] = task[q]
             /\ partitionQueue'[q] = partitionQueue[q]
    BY <1>1, <1>9 DEF streamVars
  <2>6. partitionQueue'[p] = partitionQueue[p]
    BY <1>1
  <2> QED
    BY <1>2, <2>3, <2>4, <2>5, <2>6, PermitsStay
<1>15. PipelineOK(p)'
  <2>1. /\ Taken(p)' = Taken(p) /\ next'[p] <= Len(FileTasks[p]) /\ Len(inFlight'[p]) <= next'[p]
    <3>1. Len(inFlight'[p]) = Len(inFlight[p]) + n
      BY <1>7, <1>8
    <3> QED
      BY <1>3, <1>4, <1>6, <3>1 DEF Taken
  <2>2. ASSUME NEW k \in 1..Len(inFlight'[p]) PROVE inFlight'[p][k] = Taken(p) + k
    <3>1. CASE k \in 1..Len(inFlight[p])
      BY <1>1, <1>2, <1>7, <1>8, <3>1 DEF PipelineOK
    <3>2. CASE k \notin 1..Len(inFlight[p])
      <4>1. Len(inFlight'[p]) = Len(inFlight[p]) + n
        BY <1>7, <1>8
      <4>2. k - Len(inFlight[p]) \in 1..n /\ Len(inFlight[p]) + (k - Len(inFlight[p])) = k
        <5>1. k \in 1..(Len(inFlight[p]) + n)
          BY <4>1
        <5> QED
          BY <1>3, <1>4, <3>2, <5>1, Positions, ZenonT(30)
      <4>3. inFlight'[p][k] = next[p] + (k - Len(inFlight[p]))
        BY <1>7, <1>8, <4>2
      <4> QED
        BY <1>3, <4>3 DEF Taken
    <3> QED
      BY <3>1, <3>2
  <2>3. \A i \in 1..Taken(p) :
           \/ i = current[p] \/ fut'[p][i] \in {"ended", "skipped"}
           \/ \E k \in 1..Len(ready[p]) : ready[p][k] = i
    <3>1. 1..Taken(p) \subseteq Files(p)
      BY <1>3 DEF Files, Taken
    <3> QED
      BY <1>1, <1>2, <1>10, <3>1 DEF PipelineOK
  <2>4. \A i \in Files(p) : fut'[p][i] = "ended" =>
           /\ i <= Taken(p) /\ (current[p] # 0 => i < current[p])
           /\ \A k \in 1..Len(ready[p]) : i < ready[p][k]
    BY <1>1, <1>2, <1>10 DEF PipelineOK
  <2>5. UNCHANGED <<ready, current, task>>
    BY <1>1 DEF streamVars
  <2> QED
    BY <1>1, <1>2, <2>1, <2>2, <2>3, <2>4, <2>5 DEF PipelineOK
<1>16. ReadOK(p)'
  BY <1>1, <1>2, <1>10 DEF ReadOK, streamVars
<1>17. SentOK(p)'
  <2>1. \A b \in Batches(p) : b[1] \in Files(p)
    BY DEF Batches, Files
  <2> QED
    BY <1>1, <1>2, <1>10, <2>1 DEF SentOK, Handed, streamVars
<1>18. CountOK(p)'
  <2>1. Reading(p)' = Reading(p)
    BY <1>1, <1>10 DEF Reading
  <2> QED
    BY <1>1, <1>2, <2>1 DEF CountOK, streamVars
<1> QED
  BY <1>11, <1>12, <1>13, <1>14, <1>15, <1>16, <1>17, <1>18, StepAssembled

\* Every step of run_partition.
LEMMA RunPartitionInv ==
    ASSUME SchedulingInv, ChannelTypeOK, NEW p \in Partitions, NEW scope, RunPartition(p, scope)
    PROVE  SchedulingInv'
<1>1. cancelled \in [Partitions -> BOOLEAN] /\ FutureOK(p)
  BY DEF SchedulingInv, ProducerInv, FutureInv, StreamTypeOK
<1>2. ASSUME Cancel(scope) \/ UNCHANGED cancelled
      PROVE  /\ cancelled' \in [Partitions -> BOOLEAN]
             /\ \A q \in Partitions : cancelled[q] => cancelled'[q]
  BY <1>1, <1>2, Zenon DEF Cancel
<1>3. ASSUME NEW to \in {"closing", "unwinding"}, ReturnAs(p, to), task[p] \in {"running", "failing"},
             Cancel(scope) \/ UNCHANGED cancelled,
             \A q \in Partitions : q # p => out'[q] = out[q]
      PROVE  SchedulingInv'
  BY <1>2, <1>3, ReturnInv
<1>4. ASSUME NEW failed, SendFirstError(p, failed, scope), task[p] = "running",
             \A i \in Files(p) : i = failed =>
               thread[p][i] \notin {"running", "sending"} /\ fut[p][i] \notin {"waitScan", "opening"}
      PROVE  SchedulingInv'
  <2>1. CASE cancelled[p]
    BY <1>3, <1>4, <2>1 DEF SendFirstError
  <2>2. CASE ~cancelled[p]
    BY <1>4, <2>2, FirstErrorInv
  <2> QED
    BY <2>1, <2>2
<1>5. CASE TakeFile(p) /\ cancelled[p]
  BY <1>3, <1>5 DEF TakeFile, Taking, Polling
<1>6. CASE TakeError(p, scope)
  <2>1. /\ task[p] = "running" /\ fut[p][NextResult(p)] \in {"failed", "cancelled"}
        /\ SendFirstError(p, NextResult(p), scope)
    BY <1>6 DEF TakeError, Taking, Polling, HasResult
  <2>2. \A i \in Files(p) : i = NextResult(p) =>
          thread[p][i] \notin {"running", "sending"} /\ fut[p][i] \notin {"waitScan", "opening"}
    BY <1>1, <2>1 DEF FutureOK
  <2> QED
    BY <1>4, <2>1, <2>2
<1>7. CASE FileFails(p, scope)
  <2>1. /\ task[p] = "running" /\ (Backend # "Direct" => thread[p][current[p]] = "failed")
        /\ SendFirstError(p, current[p], scope)
    BY <1>7 DEF FileFails, Draining, Polling
  <2>2. \A i \in Files(p) : i = current[p] =>
          thread[p][i] \notin {"running", "sending"} /\ fut[p][i] \notin {"waitScan", "opening"}
    BY <1>1, <2>1 DEF FutureOK
  <2> QED
    BY <1>4, <2>1, <2>2
<1>8. CASE TakeCancelled(p) \/ Exhausted(p) \/ DrainCancelled(p)
  BY <1>3, <1>8 DEF TakeCancelled, Exhausted, DrainCancelled, Taking, Draining, Polling
<1>9. CASE EmitUnread(p, scope)
  BY <1>3, <1>9 DEF EmitUnread, Draining, Polling
<1>10. CASE ErrorSent(p)
  <2>1. \A q \in Partitions : q # p => out'[q] = out[q]
    BY <1>10 DEF ErrorSent, ChannelTypeOK
  <2> QED
    BY <1>3, <1>10, <2>1 DEF ErrorSent
<1>11. CASE ProducerPanics(p)
  BY <1>3, <1>11 DEF ProducerPanics
<1>12. CASE TakeSkipped(p) \/ (TakeFile(p) /\ ~cancelled[p])
  BY <1>12, TakeInv
<1>13. CASE Refill(p) \/ NextBatch(p) \/ EmitBatch(p) \/ FileEnds(p) \/ ParkReady(p)
  BY <1>13, RefillInv, NextBatchInv, EmitBatchInv, EndFileInv, ParkReadyInv
<1> QED
  BY <1>5, <1>6, <1>7, <1>8, <1>9, <1>10, <1>11, <1>12, <1>13 DEF RunPartition, PartitionProgress

\* A producer's step and its threads' steps, whoever consumes the partition.
LEMMA SchedulingStep ==
    ASSUME SchedulingInv, ChannelTypeOK, NEW p \in Partitions, NEW scope,
           FileStep(p) \/ RunPartition(p, scope) \/ \E i \in Files(p) : ThreadStep(p, i)
    PROVE  SchedulingInv' /\ ChannelTypeOK'
<1>1. SchedulingInv'
  BY FileStepInv, RunPartitionInv, ThreadStepInv
<1>2. CASE EmitBatch(p)
  <2>1. /\ current[p] \in Nat /\ yielded[p][current[p]] \in Nat
    <3>1. task[p] = "running" /\ current[p] # 0
      BY <1>2 DEF EmitBatch, Draining, Polling
    <3>2. current[p] \in Files(p)
      BY <3>1, CurrentFile
    <3> QED
      BY <3>2, PlanFacts DEF SchedulingInv, ProducerInv, ProducerTypeOK
  <2> DEFINE b0 == <<current[p], yielded[p][current[p]]>>
  <2>2. b0 \in Nat \X Nat /\ sent' = [sent EXCEPT ![p] = b0] /\ out' = [out EXCEPT ![p] = Append(@, b0)]
    BY <1>2, <2>1 DEF EmitBatch
  <2> HIDE DEF b0
  <2>3. Append(out[p], b0) \in Seq((Nat \X Nat) \cup Errors)
    BY <2>2 DEF ChannelTypeOK
  <2> QED
    BY <1>1, <2>2, <2>3 DEF ChannelTypeOK
<1>3. CASE ErrorSent(p)
  <2>1. UNCHANGED sent
    BY <1>3 DEF ErrorSent, ReturnAs
  <2>2. UNCHANGED out \/ out' = [out EXCEPT ![p] = Append(@, "file_failed")]
    BY <1>3 DEF ErrorSent
  <2>3. Append(out[p], "file_failed") \in Seq((Nat \X Nat) \cup Errors)
    BY DEF ChannelTypeOK, Errors
  <2> QED
    BY <1>1, <2>1, <2>2, <2>3 DEF ChannelTypeOK
<1>4. ASSUME ~EmitBatch(p), ~ErrorSent(p) PROVE UNCHANGED <<out, sent>>
  <2>1. CASE FileStep(p)
    BY <2>1 DEF FileStep, PollNew, GetPartitionPermit, GetScanPermit, OpenFile, FutureFails, streamVars
  <2>2. CASE \E i \in Files(p) : ThreadStep(p, i)
    BY <2>2 DEF ThreadStep
  <2>3. CASE TakeError(p, scope) \/ FileFails(p, scope)
    BY <2>3 DEF TakeError, FileFails, SendFirstError, ReturnAs
  <2>4. CASE Refill(p) \/ TakeSkipped(p) \/ NextBatch(p) \/ FileEnds(p) \/ ParkReady(p)
    BY <2>4 DEF Refill, TakeSkipped, NextBatch, FileEnds, EndFile, ParkReady, streamVars
  <2>5. CASE TakeFile(p) \/ TakeCancelled(p) \/ Exhausted(p) \/ EmitUnread(p, scope)
             \/ DrainCancelled(p) \/ ProducerPanics(p)
    BY <2>5 DEF TakeFile, TakeCancelled, Exhausted, EmitUnread, DrainCancelled, ProducerPanics, ReturnAs
  <2> QED
    BY <1>4, <2>1, <2>2, <2>3, <2>4, <2>5 DEF RunPartition, PartitionProgress
<1> QED
  BY <1>1, <1>2, <1>3, <1>4 DEF ChannelTypeOK

(* ---- the consumers ------------------------------------------------------ *)

\* A consumer starts partitions, takes items, cancels, adds permits and joins
\* tasks, and touches nothing else of a producer.
LEMMA ConsumerInv ==
    ASSUME SchedulingInv, StreamTypeOK',
           UNCHANGED <<next, inFlight, ready, current, hand, fut, yielded, thread, queued,
                       partitionQueue, scanQueue, reads, sent>>,
           \A p \in Partitions :
             /\ permits[p] <= permits'[p] /\ (cancelled[p] => cancelled'[p])
             /\ state'[p] = "NotStarted" => state[p] = "NotStarted" /\ task'[p] = task[p]
             /\ \/ task'[p] = task[p]
                \/ task[p] = "none" /\ task'[p] = "running"
                \/ task[p] \in {"closing", "unwinding"} /\ task'[p] \in {"exited", "panicked"}
    PROVE  SchedulingInv'
<1>1. ProducerTypeOK'
  BY DEF SchedulingInv, ProducerInv, ProducerTypeOK, OfFiles
<1>2. \A p \in Partitions : FutureOK(p) /\ DrainOK(p)
  BY DEF SchedulingInv, ProducerInv, FutureInv
<1>3. ASSUME NEW p \in Partitions, task[p] = "none", NEW i \in Files(p)
      PROVE  fut[p][i] = "planned"
  <2>1. next[p] = 0 /\ fut[p][i] # "dropped" /\ (fut[p][i] = "planned" <=> i > next[p])
    BY <1>2, <1>3 DEF FutureOK
  <2> QED
    BY <2>1, PlanFacts DEF Files
<1>4. ASSUME NEW p \in Partitions PROVE FutureOK(p)'
  BY <1>2 DEF FutureOK
<1>5. ASSUME NEW p \in Partitions PROVE PipelineOK(p)'
  BY <1>2 DEF DrainOK, PipelineOK, Taken
<1>6. ASSUME NEW p \in Partitions PROVE ReadOK(p)' /\ SentOK(p)'
  BY <1>2 DEF DrainOK, ReadOK, SentOK, Handed
<1>7. ASSUME NEW p \in Partitions PROVE CountOK(p)'
  <2>1. Reading(p)' = Reading(p)
    BY DEF Reading
  <2> QED
    BY <1>2, <2>1 DEF DrainOK, CountOK
<1>8. QueueOrderInv'
  BY DEF SchedulingInv, ProducerInv, QueueOrderInv
<1>9. GrantInv'
  <2>1. ASSUME NEW p \in Partitions, NEW i \in Files(p), i \in ActiveReads(p)'
        PROVE  i \in ActiveReads(p)
    <3>1. CASE task[p] = "none" /\ task'[p] = "running"
      BY <1>3, <2>1, <3>1 DEF ActiveReads
    <3>2. CASE ~(task[p] = "none" /\ task'[p] = "running")
      BY <2>1, <3>2 DEF ActiveReads
    <3> QED
      BY <3>1, <3>2
  <2>2. /\ Len(scanQueue) \in Nat /\ ScanCapacity \in Nat
        /\ \A p \in Partitions : Len(partitionQueue[p]) \in Nat /\ permits[p] \in Nat /\ permits'[p] \in Nat
    BY PlanFacts DEF SchedulingInv, ProducerInv, StreamTypeOK, ProducerTypeOK
  <2>3. ASSUME NEW p \in Partitions, NEW i \in Files(p), Granted(partitionQueue[p], permits[p], i)
        PROVE  Granted(partitionQueue[p], permits'[p], i)
    BY <2>2, <2>3, GrantMore
  <2>4. GrantInv
    BY DEF SchedulingInv, ProducerInv
  <2>5. ASSUME NEW p \in Partitions, NEW i \in Files(p)
        PROVE  /\ i \in ActiveReads(p)' \/ fut'[p][i] = "waitScan" =>
                    Granted(partitionQueue'[p], permits'[p], i)
               /\ i \in ActiveReads(p)' => Granted(scanQueue', ScanCapacity, <<p, i>>)
    BY <2>1, <2>3, <2>4 DEF GrantInv
  <2> QED
    BY <2>5 DEF GrantInv
<1> QED
  BY <1>1, <1>4, <1>5, <1>6, <1>7, <1>8, <1>9 DEF SchedulingInv, ProducerInv, FutureInv, DrainOK

\* Cancelling keeps the type of the flags and never clears one.
LEMMA CancelFacts ==
    ASSUME cancelled \in [Partitions -> BOOLEAN], NEW scope, Cancel(scope) \/ UNCHANGED cancelled
    PROVE  /\ cancelled' \in [Partitions -> BOOLEAN]
           /\ \A p \in Partitions : cancelled[p] => cancelled'[p]
BY Zenon DEF Cancel

\* Before anything starts.
LEMMA SchedulingInit ==
    ASSUME ProducerInit,
           cancelled = [p \in Partitions |-> FALSE],
           state = [p \in Partitions |-> "NotStarted"], task = [p \in Partitions |-> "none"],
           out = [p \in Partitions |-> <<>>],
           permits \in [Partitions -> Nat], reads = [p \in Partitions |-> 0],
           sent = [p \in Partitions |-> <<0, 0>>]
    PROVE  SchedulingInv /\ ChannelTypeOK
<1> USE DEF ProducerInit
<1>1. StreamTypeOK
  <2>1. cancelled \in [Partitions -> BOOLEAN]
    BY Zenon
  <2> QED
    BY <2>1 DEF StreamTypeOK, StreamStates, TaskStates
<1>2. ProducerTypeOK
  <2>1. hand \in [Partitions -> BOOLEAN]
    BY Zenon
  <2>2. OfFiles(fut) /\ OfFiles(yielded) /\ OfFiles(thread) /\ OfFiles(queued)
    BY DEF OfFiles
  <2>3. \A p \in Partitions : \A i \in Files(p) :
         /\ fut[p][i] \in FutureStates /\ thread[p][i] \in ThreadStates
         /\ yielded[p][i] \in Nat /\ queued[p][i] \in Nat
    BY DEF FutureStates, ThreadStates
  <2> QED
    BY <2>1, <2>2, <2>3 DEF ProducerTypeOK
<1>3. ASSUME NEW p \in Partitions
      PROVE  /\ next[p] = 0 /\ inFlight[p] = <<>> /\ ready[p] = <<>> /\ current[p] = 0 /\ ~hand[p]
             /\ task[p] = "none" /\ reads[p] = 0 /\ sent[p] = <<0, 0>> /\ ~cancelled[p]
             /\ \A i \in Files(p) : /\ fut[p][i] = "planned" /\ yielded[p][i] = 0
                                    /\ thread[p][i] = "none" /\ queued[p][i] = 0 /\ i \in Nat /\ i > 0
                                    /\ FileTasks[p][i] \in Nat
             /\ Len(FileTasks[p]) \in Nat
  BY PlanFacts DEF Files
<1>4. ASSUME NEW p \in Partitions PROVE FutureOK(p)
  BY <1>3 DEF FutureOK
<1>5. GrantInv /\ QueueOrderInv
  BY <1>3 DEF GrantInv, QueueOrderInv, ActiveReads
<1>6. ASSUME NEW p \in Partitions PROVE PipelineOK(p)
  <2>1. Len(inFlight[p]) = 0 /\ Len(ready[p]) = 0 /\ Taken(p) = 0
    BY <1>3 DEF Taken
  <2> QED
    BY <1>3, <2>1 DEF PipelineOK
<1>7. ASSUME NEW p \in Partitions PROVE ReadOK(p)
  BY <1>3 DEF ReadOK
<1>8. ASSUME NEW p \in Partitions PROVE SentOK(p)
  <2>1. ASSUME NEW b \in Batches(p)
        PROVE  Before(sent[p], b) /\ Handed(p, b[1]) < b[2]
    <3>1. PICK i \in Files(p) : b \in {i} \X (1..FileTasks[p][i])
      BY <2>1 DEF Batches, Files
    <3>2. b[1] = i /\ b[2] \in 1..FileTasks[p][i]
      BY <3>1
    <3> QED
      BY <1>3, <3>2 DEF Before, Handed
  <2> QED
    BY <2>1 DEF SentOK
<1>9. ASSUME NEW p \in Partitions PROVE CountOK(p)
  <2>1. Reading(p) = {}
    BY <1>3 DEF Reading
  <2> QED
    BY <1>3, <2>1, FS_EmptySet DEF CountOK
<1>10. ChannelTypeOK
  BY DEF ChannelTypeOK
<1> QED
  BY <1>1, <1>2, <1>4, <1>5, <1>6, <1>7, <1>8, <1>9, <1>10
     DEF SchedulingInv, ProducerInv, FutureInv, DrainOK

\* What the two consumers do to partition streams.
Started(p) ==
    /\ Start(p)
    /\ permits' \in [Partitions -> Nat] /\ \A q \in Partitions : permits[q] <= permits'[q]
    /\ UNCHANGED <<cancelled, out, reads, sent>>
Ending(p) ==
    /\ state' = [state EXCEPT ![p] = "Done"]
    /\ UNCHANGED <<cancelled, task, out, permits, reads, sent>>
Exiting(p) ==
    /\ task[p] \in {"closing", "unwinding"}
    /\ task' = [task EXCEPT ![p] = IF @ = "closing" THEN "exited" ELSE "panicked"]
    /\ UNCHANGED <<cancelled, state, out, permits, reads, sent>>
StreamStep(p, ps, scope) ==
    \/ Started(p) \/ Receive(p) \/ ReceiveClosed(p) \/ JoinReportsPanic(p, scope)
    \/ Ending(p) \/ DropStreams(ps, scope) \/ Exiting(p) \/ UNCHANGED streamVars

LEMMA StreamStepInv ==
    ASSUME SchedulingInv, ChannelTypeOK, UNCHANGED producerVars,
           NEW p \in Partitions, NEW ps, NEW scope, StreamStep(p, ps, scope)
    PROVE  SchedulingInv' /\ ChannelTypeOK'
<1>1. /\ StreamTypeOK /\ FutureOK(p) /\ cancelled \in [Partitions -> BOOLEAN]
      /\ state \in [Partitions -> StreamStates] /\ task \in [Partitions -> TaskStates]
      /\ permits \in [Partitions -> Nat] /\ reads \in [Partitions -> Nat]
  BY DEF SchedulingInv, ProducerInv, FutureInv, StreamTypeOK
<1>2. UNCHANGED <<reads, sent>>
  BY DEF StreamStep, Started, Receive, ReceiveClosed, JoinReportsPanic, Ending, DropStreams,
         Exiting, streamVars
<1>3. /\ cancelled' \in [Partitions -> BOOLEAN]
      /\ \A q \in Partitions : cancelled[q] => cancelled'[q]
  <2>1. Cancel(scope) \/ UNCHANGED cancelled
    BY DEF StreamStep, Started, Receive, ReceiveClosed, JoinReportsPanic, Ending, DropStreams,
           Exiting, streamVars
  <2> QED
    BY <1>1, <2>1, CancelFacts
<1>4. permits' \in [Partitions -> Nat] /\ \A q \in Partitions : permits[q] <= permits'[q]
  <2>1. permits' = permits \/ Started(p)
    BY DEF StreamStep, Receive, ReceiveClosed, JoinReportsPanic, Ending, DropStreams,
           Exiting, streamVars
  <2> QED
    BY <1>1, <2>1 DEF Started
<1>5. /\ state' \in [Partitions -> StreamStates]
      /\ task' \in [Partitions -> TaskStates]
      /\ \A q \in Partitions :
           /\ state'[q] = "NotStarted" => state[q] = "NotStarted" /\ task'[q] = task[q]
           /\ \/ task'[q] = task[q]
              \/ task[q] = "none" /\ task'[q] = "running"
              \/ task[q] \in {"closing", "unwinding"} /\ task'[q] \in {"exited", "panicked"}
  <2>1. CASE Started(p)
    <3>1. state[p] = "NotStarted" => task[p] = "none"
      BY <1>1 DEF FutureOK
    <3> QED
      BY <1>1, <2>1, <3>1 DEF Started, Start, StreamStates, TaskStates
  <2>2. CASE ReceiveClosed(p) \/ JoinReportsPanic(p, scope) \/ Ending(p)
    BY <1>1, <2>2 DEF ReceiveClosed, JoinReportsPanic, Ending, StreamStates
  <2>3. CASE DropStreams(ps, scope)
    BY <1>1, <2>3 DEF DropStreams, StreamStates
  <2>4. CASE Exiting(p)
    <3>1. state[p] # "NotStarted"
      BY <1>1, <2>4 DEF FutureOK, Exiting
    <3> QED
      BY <1>1, <2>4, <3>1 DEF Exiting, TaskStates
  <2>5. CASE Receive(p) \/ UNCHANGED streamVars
    BY <1>1, <2>5 DEF Receive, streamVars
  <2> QED
    BY <2>1, <2>2, <2>3, <2>4, <2>5 DEF StreamStep
<1>6. out' \in [Partitions -> Seq((Nat \X Nat) \cup Errors)]
  <2>1. out \in [Partitions -> Seq((Nat \X Nat) \cup Errors)]
    BY DEF ChannelTypeOK
  <2>2. CASE Receive(p)
    <3>1. Tail(out[p]) \in Seq((Nat \X Nat) \cup Errors)
      BY <2>1, <2>2 DEF Receive
    <3> QED
      BY <2>1, <2>2, <3>1 DEF Receive
  <2>3. CASE DropStreams(ps, scope)
    BY <2>1, <2>3 DEF DropStreams
  <2>4. CASE UNCHANGED out
    BY <2>1, <2>4
  <2> QED
    BY <2>2, <2>3, <2>4 DEF StreamStep, Started, ReceiveClosed, JoinReportsPanic, Ending,
       Exiting, streamVars
<1>7. StreamTypeOK'
  BY <1>1, <1>2, <1>3, <1>4, <1>5 DEF StreamTypeOK
<1>8. SchedulingInv'
  BY <1>2, <1>3, <1>4, <1>5, <1>7, ConsumerInv DEF producerVars
<1> QED
  BY <1>2, <1>6, <1>8 DEF ChannelTypeOK

(* ---- DataFusion ---------------------------------------------------------- *)

\* Each partition keeps the permits it was built with.
FullPermits == permits = [p \in Partitions |-> PartitionCapacity]

LEMMA OperatorIsStreamStep ==
    ASSUME SchedulingInv, NEW p \in Partitions,
           OperatorStep(p) \/ DropPartition(p) \/ DFExitStep(p)
    PROVE  StreamStep(p, {p}, {p}) /\ UNCHANGED producerVars /\ UNCHANGED permits
<1>1. permits \in [Partitions -> Nat]
  BY DEF SchedulingInv, ProducerInv, StreamTypeOK
<1>2. CASE FirstPoll(p)
  BY <1>1, <1>2 DEF FirstPoll, StreamStep, Started
<1>3. CASE PollBatch(p)
  BY <1>3 DEF PollBatch, StreamStep, Receive
<1>4. CASE PollError(p) \/ DropPartition(p)
  BY <1>4 DEF PollError, DropPartition, StreamStep, DropStreams
<1>5. CASE PollClosed(p)
  BY <1>5 DEF PollClosed, StreamStep, ReceiveClosed
<1>6. CASE PollPanic(p)
  BY <1>6 DEF PollPanic, StreamStep, JoinReportsPanic
<1>7. CASE PollEnd(p)
  BY <1>7 DEF PollEnd, StreamStep, Ending
<1>8. CASE DFExitStep(p)
  BY <1>8 DEF DFExitStep, StreamStep, Exiting
<1> QED
  BY <1>2, <1>3, <1>4, <1>5, <1>6, <1>7, <1>8 DEF OperatorStep, PollStep

LEMMA ProducerKeepsPermits ==
    ASSUME NEW p \in Partitions, NEW scope,
           FileStep(p) \/ RunPartition(p, scope) \/ \E i \in Files(p) : ThreadStep(p, i)
    PROVE  UNCHANGED <<permits, state>>
<1>1. CASE FileStep(p)
  BY <1>1 DEF FileStep, PollNew, GetPartitionPermit, GetScanPermit, OpenFile, FutureFails, streamVars
<1>2. CASE \E i \in Files(p) : ThreadStep(p, i)
  BY <1>2 DEF ThreadStep
<1>3. CASE TakeError(p, scope) \/ FileFails(p, scope)
  BY <1>3 DEF TakeError, FileFails, SendFirstError, ReturnAs
<1>4. CASE Refill(p) \/ TakeSkipped(p) \/ NextBatch(p) \/ FileEnds(p) \/ ParkReady(p)
  BY <1>4 DEF Refill, TakeSkipped, NextBatch, FileEnds, EndFile, ParkReady, streamVars
<1>5. CASE TakeFile(p) \/ TakeCancelled(p) \/ Exhausted(p) \/ EmitUnread(p, scope)
           \/ DrainCancelled(p) \/ ProducerPanics(p) \/ ErrorSent(p)
  BY <1>5 DEF TakeFile, TakeCancelled, Exhausted, EmitUnread, DrainCancelled, ProducerPanics,
              ErrorSent, ReturnAs
<1>6. CASE EmitBatch(p)
  BY <1>6 DEF EmitBatch
<1> QED
  BY <1>1, <1>2, <1>3, <1>4, <1>5, <1>6 DEF RunPartition, PartitionProgress

\* The producers' invariant holds of a scan run by DataFusion.
THEOREM DataFusionScheduling == DFSpec => [](SchedulingInv /\ ChannelTypeOK /\ FullPermits)
<1>1. DFInit => SchedulingInv /\ ChannelTypeOK /\ FullPermits
  <2> SUFFICES ASSUME DFInit PROVE SchedulingInv /\ ChannelTypeOK /\ FullPermits
    OBVIOUS
  <2>1. permits \in [Partitions -> Nat]
    BY OptionsAssumption DEF DFInit, StreamInit, ValidCapacity
  <2>2. SchedulingInv /\ ChannelTypeOK
    BY <2>1, SchedulingInit DEF DFInit, StreamInit
  <2> QED
    BY <2>2 DEF DFInit, StreamInit, FullPermits
<1>2. ASSUME SchedulingInv, ChannelTypeOK, FullPermits, [DFNext]_dfVars
      PROVE  SchedulingInv' /\ ChannelTypeOK' /\ FullPermits'
  <2>1. ASSUME NEW p \in Partitions, OperatorStep(p) \/ DropPartition(p) \/ DFExitStep(p)
        PROVE  SchedulingInv' /\ ChannelTypeOK' /\ FullPermits'
    BY <1>2, <2>1, OperatorIsStreamStep, StreamStepInv DEF FullPermits
  <2>2. ASSUME NEW p \in Partitions, DFProducerStep(p) \/ DFBlockingStep(p)
        PROVE  SchedulingInv' /\ ChannelTypeOK' /\ FullPermits'
    <3>1. FileStep(p) \/ RunPartition(p, {p}) \/ \E i \in Files(p) : ThreadStep(p, i)
      BY <2>2 DEF DFProducerStep, DFBlockingStep
    <3>2. SchedulingInv' /\ ChannelTypeOK' /\ UNCHANGED permits
      BY <1>2, <3>1, SchedulingStep, ProducerKeepsPermits
    <3> QED
      BY <1>2, <3>2 DEF FullPermits
  <2>3. CASE UNCHANGED dfVars
    <3>1. UNCHANGED <<streamVars, producerVars>>
      BY <2>3 DEF dfVars
    <3>2. StreamTypeOK' /\ UNCHANGED permits
      BY <1>2, <3>1 DEF SchedulingInv, ProducerInv, StreamTypeOK, streamVars
    <3>3. SchedulingInv'
      <4>1. \A p \in Partitions : permits[p] \in Nat
        BY <1>2 DEF SchedulingInv, ProducerInv, StreamTypeOK
      <4> QED
        BY <1>2, <3>1, <3>2, <4>1, ConsumerInv DEF streamVars, producerVars
    <3> QED
      BY <1>2, <3>1, <3>3 DEF ChannelTypeOK, FullPermits, streamVars
  <2> QED
    BY <1>2, <2>1, <2>2, <2>3 DEF DFNext, AllFinished
<1> QED
  BY <1>1, <1>2, PTL DEF DFSpec

(* ---- read limits ---------------------------------------------------------- *)

\* No more claimants hold a permit than there are permits.
LEMMA GrantBound ==
    ASSUME NEW queue, Len(queue) \in Nat, NEW capacity \in Nat, NEW S,
           \A c \in S : Granted(queue, capacity, c)
    PROVE  IsFiniteSet(S) /\ Cardinality(S) <= capacity
<1> DEFINE n == Smaller(Len(queue), capacity)
           place == [c \in S |-> CHOOSE k \in 1..n : queue[k] = c]
<1>1. n \in Nat /\ n <= capacity
  BY DEF Smaller
<1>2. \A c \in S : place[c] \in 1..n /\ queue[place[c]] = c
  BY DEF Granted
<1>3. place \in Injection(S, 1..n)
  BY <1>2 DEF Injection, IsInjective
<1>4. IsFiniteSet(1..n) /\ Cardinality(1..n) = n
  BY <1>1, FS_Interval
<1>5. IsFiniteSet(S) /\ Cardinality(S) <= n
  BY <1>3, <1>4, FS_Injection
<1>6. Cardinality(S) \in Nat
  BY <1>5, FS_CardinalityType
<1> QED
  BY <1>1, <1>5, <1>6

\* Who reads holds both permits, so the limits hold while no partition has
\* more permits than its own limit.
LEMMA LimitsHold ==
    ASSUME SchedulingInv, \A p \in Partitions : permits[p] <= PartitionCapacity
    PROVE  ReadLimits
<1>1. GrantInv /\ ProducerTypeOK /\ StreamTypeOK
  BY DEF SchedulingInv, ProducerInv
<1>2. /\ Len(scanQueue) \in Nat /\ ScanCapacity \in Nat /\ PartitionCapacity \in Nat
      /\ \A p \in Partitions : Len(partitionQueue[p]) \in Nat /\ permits[p] \in Nat
  <2>1. ScanCapacity \in Nat /\ PartitionCapacity \in Nat
    BY ConstantFacts
  <2>2. /\ scanQueue \in Seq(Partitions \X Nat) /\ partitionQueue \in [Partitions -> Seq(Nat)]
        /\ permits \in [Partitions -> Nat]
    BY <1>1 DEF ProducerTypeOK, StreamTypeOK
  <2>3. Len(scanQueue) \in Nat /\ \A p \in Partitions : Len(partitionQueue[p]) \in Nat
    BY <2>2
  <2> QED
    BY <2>1, <2>2, <2>3
<1>3. ASSUME NEW p \in Partitions PROVE Cardinality(ActiveReads(p)) <= PartitionCapacity
  <2>1. \A i \in ActiveReads(p) : Granted(partitionQueue[p], permits[p], i)
    BY <1>1 DEF GrantInv, ActiveReads
  <2>2. IsFiniteSet(ActiveReads(p)) /\ Cardinality(ActiveReads(p)) <= permits[p]
    BY <1>2, <2>1, GrantBound
  <2>3. Cardinality(ActiveReads(p)) \in Nat
    BY <2>2, FS_CardinalityType
  <2> QED
    BY <1>2, <2>2, <2>3
<1> DEFINE all == UNION {{p} \X ActiveReads(p) : p \in Partitions}
<1>4. \A c \in all : Granted(scanQueue, ScanCapacity, c)
  <2>1. ASSUME NEW c \in all PROVE Granted(scanQueue, ScanCapacity, c)
    <3>1. PICK p \in Partitions : c \in {p} \X ActiveReads(p)
      OBVIOUS
    <3>2. c[2] \in ActiveReads(p) /\ c[2] \in Files(p) /\ c = <<p, c[2]>>
      BY <3>1 DEF ActiveReads
    <3> QED
      BY <1>1, <3>2 DEF GrantInv
  <2> QED
    BY <2>1
<1> HIDE DEF all
<1>5. Cardinality(all) <= ScanCapacity
  BY <1>2, <1>4, GrantBound
<1> QED
  BY <1>3, <1>5 DEF ReadLimits, all

\* A file that reads was granted its scan permit behind the earlier files.
LEMMA EarlierFirst ==
    ASSUME SchedulingInv
    PROVE  EarlierFileReadsFirst
<1>1. GrantInv /\ QueueOrderInv /\ Len(scanQueue) \in Nat /\ ScanCapacity \in Nat
  BY PlanFacts DEF SchedulingInv, ProducerInv, ProducerTypeOK
<1>2. ASSUME NEW p \in Partitions, NEW i \in Files(p), NEW j \in Files(p),
             i < j, j \in ActiveReads(p)
      PROVE  /\ fut[p][i] \notin {"unpolled", "waitPartition"}
             /\ fut[p][i] = "waitScan" => Granted(scanQueue, ScanCapacity, <<p, i>>)
  <2>1. PICK k \in 1..Smaller(Len(scanQueue), ScanCapacity) : scanQueue[k] = <<p, j>>
    BY <1>1, <1>2 DEF GrantInv, Granted
  <2>2. k \in 1..Len(scanQueue) /\ scanQueue[k][1] = p /\ scanQueue[k][2] = j /\ i <= j
    BY <1>1, <1>2, <2>1, PlanFacts DEF Smaller
  <2>3. /\ fut[p][i] \notin {"planned", "unpolled", "waitPartition"}
        /\ fut[p][i] = "waitScan" => Ahead(scanQueue, k, <<p, i>>)
    BY <1>1, <1>2, <2>2 DEF QueueOrderInv
  <2>4. ASSUME Ahead(scanQueue, k, <<p, i>>) PROVE Granted(scanQueue, ScanCapacity, <<p, i>>)
    <3>1. PICK m \in 1..(k - 1) : scanQueue[m] = <<p, i>>
      BY <2>4 DEF Ahead
    <3>2. m \in 1..Smaller(Len(scanQueue), ScanCapacity)
      BY <1>1, <2>1 DEF Smaller
    <3> QED
      BY <3>1, <3>2 DEF Granted
  <2> QED
    BY <2>3, <2>4
<1> QED
  BY <1>2 DEF EarlierFileReadsFirst

\* Both limits hold of a scan run by DataFusion, whatever its partitions do.
THEOREM DataFusionReadLimits == DFSpec => []ReadLimits
<1>1. SchedulingInv /\ ChannelTypeOK /\ FullPermits => ReadLimits
  <2> SUFFICES ASSUME SchedulingInv, FullPermits PROVE ReadLimits
    OBVIOUS
  <2>1. \A p \in Partitions : permits[p] <= PartitionCapacity
    BY ConstantFacts DEF FullPermits
  <2> QED
    BY <2>1, LimitsHold
<1> QED
  BY <1>1, DataFusionScheduling, PTL

\* A file never reads while an earlier one of its partition waits for a permit.
THEOREM DataFusionReadOrder == DFSpec => []EarlierFileReadsFirst
<1>1. SchedulingInv /\ ChannelTypeOK /\ FullPermits => EarlierFileReadsFirst
  BY EarlierFirst
<1> QED
  BY <1>1, DataFusionScheduling, PTL

(* ---- the producers implement the ones the merger relies on ---------------- *)

LEMMA ReadingFinite ==
    ASSUME NEW p \in Partitions, NEW gone
    PROVE  /\ IsFiniteSet(Reading(p)) /\ Cardinality(Reading(p)) \in Nat
           /\ Cardinality(Reading(p) \ gone) \in 0..Cardinality(Reading(p))
<1>1. Reading(p) \subseteq Files(p) /\ IsFiniteSet(Files(p))
  BY PlanFacts DEF Reading
<1>2. IsFiniteSet(Reading(p))
  BY <1>1, FS_Subset
<1>3. IsFiniteSet(Reading(p) \ gone) /\ Cardinality(Reading(p) \ gone) <= Cardinality(Reading(p))
  BY <1>2, FS_Subset
<1>4. Cardinality(Reading(p)) \in Nat /\ Cardinality(Reading(p) \ gone) \in Nat
  BY <1>2, <1>3, FS_CardinalityType
<1> QED
  BY <1>2, <1>3, <1>4

\* A file takes a partition permit while one is free.
LEMMA PermitIsFree ==
    ASSUME SchedulingInv, NEW p \in Partitions, NEW i \in Files(p), GetPartitionPermit(p, i)
    PROVE  reads[p] < permits[p]
<1>1. /\ task[p] = "running" /\ fut[p][i] = "waitPartition"
      /\ Granted(partitionQueue[p], permits[p], i)
  BY DEF GetPartitionPermit, Polling
<1>2. /\ FutureOK(p) /\ CountOK(p) /\ GrantInv /\ Len(partitionQueue[p]) \in Nat /\ permits[p] \in Nat
  BY DEF SchedulingInv, ProducerInv, FutureInv, DrainOK, ProducerTypeOK, StreamTypeOK
<1>3. i \notin Reading(p) /\ \A j \in Reading(p) : j \in ActiveReads(p) \/ fut[p][j] = "waitScan"
  BY <1>1, <1>2 DEF Reading, ActiveReads, FutureOK
<1>4. \A j \in Reading(p) \cup {i} : Granted(partitionQueue[p], permits[p], j)
  BY <1>1, <1>2, <1>3 DEF GrantInv, Reading
<1>5. Cardinality(Reading(p) \cup {i}) <= permits[p]
  BY <1>2, <1>4, GrantBound
<1>6. /\ Cardinality(Reading(p) \cup {i}) = Cardinality(Reading(p)) + 1
      /\ Cardinality(Reading(p)) \in Nat
  BY <1>3, ReadingFinite, FS_AddElement
<1> QED
  BY <1>1, <1>2, <1>5, <1>6 DEF CountOK

\* Permits that a step returns were counted, or were none.
LEMMA ReleaseCounted ==
    ASSUME SchedulingInv, NEW p \in Partitions, NEW gone, Release(p, gone),
           \/ Backend # "Direct" \/ task[p] # "failing"
           \/ \A i \in Files(p) : thread[p][i] \notin {"running", "sending"} => i \in gone
    PROVE  \E kept \in 0..reads[p] : reads' = [reads EXCEPT ![p] = kept]
<1>1. reads' = [reads EXCEPT ![p] = Cardinality(Reading(p) \ gone)]
  BY DEF Release
<1>2. FutureOK(p) /\ CountOK(p) /\ reads[p] \in Nat
  BY DEF SchedulingInv, ProducerInv, FutureInv, DrainOK, StreamTypeOK
<1>3. CASE Backend # "Direct" \/ task[p] # "failing"
  BY <1>1, <1>2, <1>3, ReadingFinite DEF CountOK
<1>4. CASE Backend = "Direct" /\ \A i \in Files(p) : thread[p][i] \notin {"running", "sending"} => i \in gone
  <2>1. Reading(p) \ gone = {}
    BY <1>2, <1>4 DEF Reading, FutureOK
  <2>2. Cardinality(Reading(p) \ gone) = 0
    BY <2>1, FS_EmptySet
  <2>3. 0 \in 0..reads[p]
    BY <1>2
  <2>4. reads' = [reads EXCEPT ![p] = 0]
    BY <1>1, <2>2
  <2> QED
    BY <2>3, <2>4
<1> QED
  BY <1>3, <1>4

\* One file returns its permits.
LEMMA OneReleased ==
    ASSUME SchedulingInv, NEW p \in Partitions, NEW i \in Files(p), Release(p, {i}),
           Backend # "Direct" \/ task[p] # "failing",
           UNCHANGED <<cancelled, state, task, out, permits, sent, mergerVars>>
    PROVE  ReleaseRead(p) \/ UNCHANGED vars
<1>1. reads' = [reads EXCEPT ![p] = Cardinality(Reading(p) \ {i})]
  BY DEF Release
<1>2. CountOK(p) /\ reads \in [Partitions -> Nat]
  BY DEF SchedulingInv, ProducerInv, DrainOK, StreamTypeOK
<1>3. /\ Cardinality(Reading(p)) = reads[p]
      /\ Cardinality(Reading(p) \ {i}) =
           IF i \in Reading(p) THEN Cardinality(Reading(p)) - 1 ELSE Cardinality(Reading(p))
      /\ Cardinality(Reading(p) \ {i}) \in Nat
  <2>1. IsFiniteSet(Reading(p)) /\ Cardinality(Reading(p) \ {i}) \in 0..Cardinality(Reading(p))
    BY ReadingFinite
  <2>2. Cardinality(Reading(p) \ {i}) =
           IF i \in Reading(p) THEN Cardinality(Reading(p)) - 1 ELSE Cardinality(Reading(p))
    BY <2>1, FS_RemoveElement
  <2> QED
    BY <1>2, <2>1, <2>2 DEF CountOK
<1>4. CASE i \in Reading(p)
  <2>1. reads[p] \in Nat /\ reads[p] - 1 \in Nat /\ reads' = [reads EXCEPT ![p] = reads[p] - 1]
    BY <1>1, <1>2, <1>3, <1>4
  <2> QED
    BY <2>1 DEF ReleaseRead
<1>5. CASE i \notin Reading(p)
  <2>1. reads' = [reads EXCEPT ![p] = reads[p]]
    BY <1>1, <1>3, <1>5
  <2>2. reads' = reads
    BY <1>2, <2>1
  <2> QED
    BY <2>2 DEF vars, streamVars
<1> QED
  BY <1>4, <1>5

\* The steps of a future or a blocking thread take or return one read, or are
\* not seen by the merger.
LEMMA FileStepRefines ==
    ASSUME SchedulingInv, NEW p \in Partitions, UNCHANGED mergerVars,
           FileStep(p) \/ \E i \in Files(p) : ThreadStep(p, i)
    PROVE  AcquireRead(p) \/ ReleaseRead(p) \/ UNCHANGED vars
<1>1. CASE FileStep(p)
  <2>1. PICK i \in Files(p) : \/ PollNew(p, i) \/ GetPartitionPermit(p, i) \/ GetScanPermit(p, i)
                              \/ OpenFile(p, i) \/ FutureFails(p, i)
    BY <1>1 DEF FileStep
  <2>2. CASE PollNew(p, i) \/ GetScanPermit(p, i) \/ OpenFile(p, i)
    BY <2>2 DEF PollNew, GetScanPermit, OpenFile, vars
  <2>3. CASE GetPartitionPermit(p, i)
    <3>1. reads[p] < permits[p]
      BY <2>3, PermitIsFree
    <3> QED
      BY <2>3, <3>1 DEF GetPartitionPermit, Polling, AcquireRead
  <2>4. CASE FutureFails(p, i)
    <3>1. /\ task[p] = "running" /\ Release(p, {i})
          /\ UNCHANGED <<cancelled, state, task, out, permits, sent>>
      BY <2>4 DEF FutureFails, Polling
    <3> QED
      BY <3>1, OneReleased
  <2> QED
    BY <2>1, <2>2, <2>3, <2>4
<1>2. CASE \E i \in Files(p) : ThreadStep(p, i)
  <2>1. PICK i \in Files(p) : ThreadStep(p, i)
    BY <1>2
  <2>2. /\ UNCHANGED <<cancelled, state, task, out, permits, sent>>
        /\ UNCHANGED reads \/ Release(p, {i})
        /\ thread[p][i] \in {"running", "sending"}
    BY <2>1 DEF ThreadStep, ThreadEnds
  <2>3. Backend # "Direct"
    BY <2>2 DEF SchedulingInv, ProducerInv, FutureInv, FutureOK
  <2>4. CASE UNCHANGED reads
    BY <2>2, <2>4 DEF vars, streamVars
  <2>5. CASE Release(p, {i})
    BY <2>2, <2>3, <2>5, OneReleased
  <2> QED
    BY <2>2, <2>4, <2>5
<1> QED
  BY <1>1, <1>2

\* A producer that runs out of files was told of no file that is left.
LEMMA AllTaken ==
    ASSUME SchedulingInv, NEW p \in Partitions, Exhausted(p)
    PROVE  \A i \in Files(p) : fut[p][i] \in {"ended", "skipped"}
<1>1. /\ task[p] = "running" /\ current[p] = 0 /\ ready[p] = <<>> /\ inFlight[p] = <<>>
      /\ Vacancies(p) = 0
  BY DEF Exhausted, Taking, Polling
<1>2. PipelineOK(p) /\ Typed
  BY DEF SchedulingInv, ProducerInv, DrainOK, Typed
<1>3. /\ Len(ready[p]) = 0 /\ Len(inFlight[p]) = 0 /\ next[p] \in Nat /\ Len(FileTasks[p]) \in Nat
      /\ Prefetch \in Nat /\ next[p] <= Len(FileTasks[p])
  BY <1>1, <1>2, LineTypes, OptionsAssumption DEF Prefetch, PipelineOK
<1>4. next[p] = Len(FileTasks[p])
  BY <1>1, <1>3 DEF Vacancies, Smaller
<1>5. \A i \in Files(p) : i \in 1..Taken(p) /\ i # 0
  BY <1>3, <1>4 DEF Taken, Files
<1> QED
  BY <1>1, <1>2, <1>3, <1>5 DEF PipelineOK

\* The steps of run_partition are the steps of the merger's producer.
LEMMA RunPartitionRefines ==
    ASSUME AllAdmitted, SchedulingInv, ChannelTypeOK, NEW p \in Partitions, UNCHANGED mergerVars,
           RunPartition(p, Partitions)
    PROVE  ProducerNext(p) \/ UNCHANGED vars
<1>1. /\ FutureOK(p) /\ ReadOK(p) /\ SentOK(p) /\ Typed
  BY DEF SchedulingInv, ProducerInv, FutureInv, DrainOK, Typed
<1>2. ASSUME NEW to, ReturnAs(p, to)
      PROVE  /\ \E kept \in 0..reads[p] : reads' = [reads EXCEPT ![p] = kept]
             /\ task' = [task EXCEPT ![p] = to] /\ UNCHANGED <<state, permits, sent>>
  <2> DEFINE gone == {i \in Files(p) : thread[p][i] \notin {"running", "sending"}}
  <2>1. Release(p, gone) /\ task' = [task EXCEPT ![p] = to] /\ UNCHANGED <<state, permits, sent>>
    BY <1>2 DEF ReturnAs, DropProducer
  <2>2. \A i \in Files(p) : thread[p][i] \notin {"running", "sending"} => i \in gone
    OBVIOUS
  <2> HIDE DEF gone
  <2> QED
    BY <2>1, <2>2, ReleaseCounted
<1>3. ASSUME ReturnAs(p, "closing"), task[p] = "running", cancelled[p], UNCHANGED <<cancelled, out>>
      PROVE  Return(p)
  BY <1>2, <1>3 DEF Return
<1>4. ASSUME NEW failed, SendFirstError(p, failed, Partitions), task[p] = "running"
      PROVE  FailFirst(p) \/ Return(p)
  <2>1. CASE cancelled[p]
    BY <1>3, <1>4, <2>1 DEF SendFirstError
  <2>2. CASE ~cancelled[p]
    <3>1. /\ Cancel(Partitions) /\ task' = [task EXCEPT ![p] = "failing"] /\ Release(p, {failed})
          /\ UNCHANGED <<state, out, permits, sent>>
      BY <1>4, <2>2 DEF SendFirstError
    <3>2. \E kept \in 0..reads[p] : reads' = [reads EXCEPT ![p] = kept]
      BY <1>4, <3>1, ReleaseCounted
    <3> QED
      BY <1>4, <2>2, <3>1, <3>2 DEF FailFirst
  <2> QED
    BY <2>1, <2>2
<1>5. CASE Refill(p) \/ TakeSkipped(p) \/ NextBatch(p) \/ ParkReady(p) \/ (TakeFile(p) /\ ~cancelled[p])
  BY <1>5 DEF Refill, TakeSkipped, NextBatch, ParkReady, TakeFile, vars, streamVars
<1>6. CASE (TakeFile(p) /\ cancelled[p]) \/ TakeCancelled(p) \/ DrainCancelled(p)
  <2>1. /\ ReturnAs(p, "closing") /\ task[p] = "running" /\ cancelled[p]
        /\ UNCHANGED <<cancelled, out>>
    BY <1>6 DEF TakeFile, TakeCancelled, DrainCancelled, Taking, Draining, Polling
  <2> QED
    BY <1>3, <2>1 DEF ProducerNext
<1>7. CASE TakeError(p, Partitions) \/ FileFails(p, Partitions)
  <2>1. task[p] = "running" /\ \E failed : SendFirstError(p, failed, Partitions)
    BY <1>7 DEF TakeError, FileFails, Taking, Draining, Polling
  <2> QED
    BY <1>4, <2>1 DEF ProducerNext
<1>8. CASE FileEnds(p)
  <2>1. /\ task[p] = "running" /\ current[p] # 0 /\ Release(p, {current[p]})
        /\ UNCHANGED <<cancelled, state, task, out, permits, sent>>
    BY <1>8 DEF FileEnds, EndFile, Draining, Polling
  <2>2. current[p] \in Files(p)
    BY <2>1, CurrentFile
  <2> QED
    BY <2>1, <2>2, OneReleased DEF ProducerNext
<1>9. CASE EmitUnread(p, Partitions)
  <2>1. /\ ReturnAs(p, "closing") /\ task[p] = "running" /\ ~ReceiverLive(p) /\ Cancel(Partitions)
        /\ UNCHANGED out
    BY <1>9 DEF EmitUnread, Draining, Polling
  <2> QED
    BY <1>2, <2>1 DEF ReturnUnread, ProducerNext
<1>10. CASE ErrorSent(p)
  <2>1. /\ ReturnAs(p, "closing") /\ task[p] = "failing" /\ UNCHANGED cancelled
        /\ \/ ~ReceiverLive(p) /\ UNCHANGED out
           \/ ReceiverLive(p) /\ Len(out[p]) < OutputBuffer
              /\ out' = [out EXCEPT ![p] = Append(@, "file_failed")]
    BY <1>10 DEF ErrorSent
  <2> QED
    BY <1>2, <2>1 DEF SendError, ProducerNext
<1>11. CASE ProducerPanics(p)
  <2>1. ReturnAs(p, "unwinding") /\ task[p] = "running" /\ UNCHANGED <<cancelled, out>>
    BY <1>11 DEF ProducerPanics
  <2> QED
    BY <1>2, <2>1 DEF Panic, ProducerNext
<1>12. \A i \in Files(p) : fut[p][i] # "skipped"
  BY <1>1 DEF ReadOK, AllAdmitted
<1>13. \A b \in Batches(p) : b[1] \in Files(p) /\ b[2] <= FileTasks[p][b[1]]
  <2>1. ASSUME NEW b \in Batches(p) PROVE b[1] \in Files(p) /\ b[2] <= FileTasks[p][b[1]]
    <3>1. PICK i \in Files(p) : b \in {i} \X (1..FileTasks[p][i])
      BY DEF Batches, Files
    <3>2. b[1] = i /\ b[2] \in 1..FileTasks[p][i] /\ FileTasks[p][i] \in Nat
      BY <3>1, PlanFacts
    <3> QED
      BY <3>2
  <2> QED
    BY <2>1
<1>14. CASE EmitBatch(p)
  <2> DEFINE b0 == <<current[p], yielded[p][current[p]]>>
  <2>1. /\ task[p] = "running" /\ current[p] # 0 /\ hand[p] /\ ReceiverLive(p)
        /\ Len(out[p]) < OutputBuffer
        /\ sent' = [sent EXCEPT ![p] = b0] /\ out' = [out EXCEPT ![p] = Append(@, b0)]
        /\ UNCHANGED <<cancelled, state, task, permits, reads>>
    BY <1>14 DEF EmitBatch, Draining, Polling
  <2>2. /\ b0 \in Batches(p) /\ Before(sent[p], b0)
        /\ \A b \in Batches(p) : fut[p][b[1]] # "skipped" =>
             (Before(b0, b) <=> (Before(sent[p], b) /\ b # b0))
    BY <2>1, EmitIsNext
  <2> HIDE DEF b0
  <2>3. IsNextBatch(p, b0)
    BY <1>12, <1>13, <2>2 DEF IsNextBatch
  <2> QED
    BY <2>1, <2>2, <2>3 DEF SendBatch, ProducerNext
<1>15. CASE Exhausted(p)
  <2>1. /\ ReturnAs(p, "closing") /\ task[p] = "running" /\ current[p] = 0
        /\ UNCHANGED <<cancelled, out>>
    BY <1>15 DEF Exhausted, Taking, Polling
  <2>2. CASE cancelled[p]
    BY <1>3, <2>1, <2>2 DEF ProducerNext
  <2>3. CASE ~cancelled[p]
    <3>1. \A i \in Files(p) : fut[p][i] = "ended"
      BY <1>12, <1>15, AllTaken
    <3>2. \A i \in Files(p) : yielded[p][i] = FileTasks[p][i] /\ i # 0
      <4>1. \A i \in Files(p) : i # 0
        BY PlanFacts DEF Files
      <4>2. ASSUME NEW i \in Files(p) PROVE yielded[p][i] = FileTasks[p][i]
        BY <1>1, <2>3, <3>1 DEF ReadOK
      <4> QED
        BY <4>1, <4>2
    <3>3. ~\E b \in Batches(p) : Before(sent[p], b)
      <4>1. ASSUME NEW b \in Batches(p), Before(sent[p], b) PROVE FALSE
        <5>1. b[1] \in Files(p) /\ b[2] <= FileTasks[p][b[1]] /\ b[2] \in Nat
          <6>1. PICK i \in Files(p) : b \in {i} \X (1..FileTasks[p][i])
            BY DEF Batches, Files
          <6>2. b[2] \in Nat
            BY <6>1
          <6> QED
            BY <1>13, <6>2
        <5>2. Handed(p, b[1]) < b[2]
          BY <1>1, <1>12, <2>1, <2>3, <4>1, <5>1 DEF SentOK
        <5>3. Handed(p, b[1]) = FileTasks[p][b[1]]
          BY <2>1, <3>2, <5>1 DEF Handed
        <5>4. FileTasks[p][b[1]] \in Nat
          BY <5>1, PlanFacts
        <5> QED
          BY <5>1, <5>2, <5>3, <5>4
      <4> QED
        BY <4>1
    <3>4. reads' = [reads EXCEPT ![p] = 0]
      <4> DEFINE gone == {i \in Files(p) : thread[p][i] \notin {"running", "sending"}}
      <4>1. reads' = [reads EXCEPT ![p] = Cardinality(Reading(p) \ gone)]
        BY <2>1 DEF ReturnAs, DropProducer, Release
      <4>2. Reading(p) \ gone = {}
        BY <1>1, <3>1 DEF Reading, FutureOK
      <4>3. Cardinality(Reading(p) \ gone) = 0
        BY <4>2, FS_EmptySet
      <4> QED
        BY <4>1, <4>3
    <3>5. task' = [task EXCEPT ![p] = "closing"] /\ UNCHANGED <<state, permits, sent>>
      BY <1>2, <2>1
    <3> QED
      BY <2>1, <3>3, <3>4, <3>5 DEF Return, ProducerNext
  <2> QED
    BY <2>2, <2>3
<1> QED
  BY <1>5, <1>6, <1>7, <1>8, <1>9, <1>10, <1>11, <1>14, <1>15 DEF RunPartition, PartitionProgress

(* ---- the scan of the Rust and Python APIs --------------------------------- *)

\* What poll_next and clear do to the partition streams.
LEMMA MergerIsStreamStep ==
    ASSUME ReservationInv, ChannelTypeOK, MergerNext
    PROVE  \/ UNCHANGED streamVars
           \/ \E p \in Partitions : StreamStep(p, {q \in Partitions : q > consumed}, Partitions)
<1> DEFINE queue == {q \in Partitions : q > consumed}
<1>1. /\ TypeOK /\ consumed \in Nat /\ cursor \in Nat /\ available \in Nat
      /\ permits \in [Partitions -> Nat] /\ state \in [Partitions -> StreamStates]
      /\ out \in [Partitions -> Seq((Nat \X Nat) \cup Errors)]
  <2>1. TypeOK /\ out \in [Partitions -> Seq((Nat \X Nat) \cup Errors)]
    BY DEF ReservationInv, ChannelTypeOK
  <2>2. consumed \in 0..N /\ N \in Nat
    BY <2>1, ConstantFacts DEF TypeOK
  <2> QED
    BY <2>1, <2>2 DEF TypeOK, StreamTypeOK
<1>2. consumed < N => FrontPartition \in Partitions
  BY <1>1, ConstantFacts DEF FrontPartition
<1>3. CASE AdmitOne
  <2> DEFINE p == FrontPartition + cursor
             additional == Smaller(maxReads[p] - reserved[p], available)
  <2>1. p \in Partitions
    BY <1>1, <1>3, ConstantFacts DEF AdmitOne, FrontPartition, Remaining
  <2>2. additional \in Nat
    <3>1. reserved[p] \in Nat /\ maxReads[p] \in Nat /\ reserved[p] <= maxReads[p]
      BY <2>1 DEF ReservationInv, TypeOK, CoverageInv
    <3> QED
      BY <1>1, <3>1 DEF Smaller
  <2>3. /\ permits' = [permits EXCEPT ![p] = permits[p] + additional]
        /\ Start(p) /\ UNCHANGED <<cancelled, out, reads, sent>>
    BY <1>3 DEF AdmitOne, Admit
  <2> HIDE DEF p, additional
  <2>4. permits' \in [Partitions -> Nat] /\ \A q \in Partitions : permits[q] <= permits'[q]
    BY <1>1, <2>1, <2>2, <2>3
  <2> QED
    BY <2>1, <2>3, <2>4 DEF StreamStep, Started
<1>4. CASE YieldItem \/ FrontClosed \/ YieldPanic \/ PopFront
  <2>1. FrontPartition \in Partitions
    BY <1>2, <1>4 DEF YieldItem, FrontClosed, YieldPanic, PopFront
  <2>2. StreamStep(FrontPartition, queue, Partitions)
    BY <1>4 DEF YieldItem, FrontClosed, YieldPanic, PopFront, StreamStep, Ending
  <2> QED
    BY <2>1, <2>2
<1>5. CASE Clear
  <2>1. DropStreams(queue, Partitions)
    BY <1>5 DEF Clear
  <2>2. CASE Partitions = {}
    BY <1>1, <2>1, <2>2 DEF DropStreams, streamVars
  <2>3. CASE Partitions # {}
    BY <2>1, <2>3 DEF StreamStep
  <2> QED
    BY <2>2, <2>3
<1>6. CASE \/ PollNext \/ AdmitDone \/ ReclaimOne \/ ReclaimDone \/ YieldPending \/ YieldEnd
  BY <1>6 DEF PollNext, AdmitDone, ReclaimOne, ReclaimDone, YieldPending, YieldEnd
<1> QED
  BY <1>3, <1>4, <1>5, <1>6 DEF MergerNext

\* A step that leaves the streams and the producers alone.
LEMMA QuietInv ==
    ASSUME SchedulingInv, ChannelTypeOK, UNCHANGED <<streamVars, producerVars>>
    PROVE  SchedulingInv' /\ ChannelTypeOK'
<1>1. StreamTypeOK' /\ \A p \in Partitions : permits[p] \in Nat
  BY DEF SchedulingInv, ProducerInv, StreamTypeOK, streamVars
<1>2. SchedulingInv'
  BY <1>1, ConsumerInv DEF streamVars, producerVars
<1> QED
  BY <1>2 DEF ChannelTypeOK, streamVars

\* Every step of the scan is a step of the merger with the producers it relies
\* on, or is not seen by it.
LEMMA ScanRefines ==
    ASSUME AllAdmitted, SchedulingInv, ChannelTypeOK, [ScanNext]_scanVars
    PROVE  [Next]_vars
<1>1. CASE PollMerger \/ MergerStep
  BY <1>1 DEF PollMerger, MergerStep, MergerNext, Next
<1>2. CASE ReturnBatch \/ FinalizeFails \/ ReturnError \/ ReturnEnd \/ DropStream
  <2>1. Clear \/ UNCHANGED vars
    BY <1>2 DEF ReturnBatch, FinalizeFails, ReturnError, ReturnEnd, DropStream, Finish
  <2> QED
    BY <2>1 DEF MergerNext, Next
<1>3. ASSUME NEW p \in Partitions, ProducerStep(p) PROVE [Next]_vars
  <2>1. UNCHANGED mergerVars /\ (FileStep(p) \/ RunPartition(p, Partitions))
    BY <1>3 DEF ProducerStep
  <2>2. ProducerNext(p) \/ UNCHANGED vars
    BY <2>1, FileStepRefines, RunPartitionRefines DEF ProducerNext
  <2> QED
    BY <2>2 DEF Next
<1>4. ASSUME NEW p \in Partitions, BlockingStep(p) PROVE [Next]_vars
  <2>1. ProducerNext(p) \/ UNCHANGED vars
    BY <1>4, FileStepRefines DEF BlockingStep, ProducerNext
  <2> QED
    BY <2>1 DEF Next
<1>5. ASSUME NEW p \in Partitions, ExitStep(p) PROVE [Next]_vars
  BY <1>5 DEF ExitStep, ProducerNext, Next
<1>6. CASE ScanFinished \/ UNCHANGED scanVars
  BY <1>6 DEF ScanFinished, scanVars
<1> QED
  BY <1>1, <1>2, <1>3, <1>4, <1>5, <1>6 DEF ScanNext, CallerStep

\* The producers' invariant survives every step of the scan.
LEMMA ScanScheduling ==
    ASSUME SchedulingInv, ChannelTypeOK, ReservationInv, [ScanNext]_scanVars
    PROVE  SchedulingInv' /\ ChannelTypeOK'
<1>1. CASE (MergerNext \/ UNCHANGED vars) /\ UNCHANGED producerVars
  <2>1. CASE UNCHANGED streamVars
    BY <1>1, <2>1, QuietInv
  <2>2. CASE \E p \in Partitions : StreamStep(p, {q \in Partitions : q > consumed}, Partitions)
    BY <1>1, <2>2, StreamStepInv
  <2> QED
    BY <1>1, <2>1, <2>2, MergerIsStreamStep DEF vars
<1>2. CASE PollMerger \/ MergerStep
  BY <1>1, <1>2 DEF PollMerger, MergerStep, MergerNext
<1>3. CASE ReturnBatch \/ FinalizeFails \/ ReturnError \/ ReturnEnd \/ DropStream
  <2>1. (Clear \/ UNCHANGED vars) /\ UNCHANGED producerVars
    BY <1>3 DEF ReturnBatch, FinalizeFails, ReturnError, ReturnEnd, DropStream, Finish
  <2> QED
    BY <1>1, <2>1 DEF MergerNext
<1>4. ASSUME NEW p \in Partitions, ProducerStep(p) \/ BlockingStep(p)
      PROVE  SchedulingInv' /\ ChannelTypeOK'
  <2>1. FileStep(p) \/ RunPartition(p, Partitions) \/ \E i \in Files(p) : ThreadStep(p, i)
    BY <1>4 DEF ProducerStep, BlockingStep
  <2> QED
    BY <2>1, SchedulingStep
<1>5. ASSUME NEW p \in Partitions, ExitStep(p) PROVE SchedulingInv' /\ ChannelTypeOK'
  <2>1. StreamStep(p, {p}, {p}) /\ UNCHANGED producerVars
    BY <1>5 DEF ExitStep, Exit, StreamStep, Exiting
  <2> QED
    BY <2>1, StreamStepInv
<1>6. CASE ScanFinished \/ UNCHANGED scanVars
  BY <1>1, <1>6 DEF ScanFinished, scanVars
<1> QED
  BY <1>2, <1>3, <1>4, <1>5, <1>6 DEF ScanNext, CallerStep

\* A step of the merger or of a producer keeps the merger's own invariant.
LEMMA MergerInv ==
    ASSUME ReservationInv, [Next]_vars
    PROVE  ReservationInv'
BY MergerStepInv, ProducerStepInv, StutterInv DEF Next, Finished

\* Permits are issued with a reservation, and not taken back with it.
LEMMA IssuedStep ==
    ASSUME ReservationInv, IssuedInv, [Next]_vars
    PROVE  IssuedInv'
<1>1. /\ permits \in [Partitions -> Nat] /\ reserved \in [Partitions -> Nat]
      /\ maxReads \in [Partitions -> Nat] /\ available \in Nat /\ consumed \in Nat /\ cursor \in Nat
      /\ completions \in Seq(Partitions)
      /\ \A p \in Partitions : reserved[p] <= maxReads[p] /\ maxReads[p] <= MaxFileReads(p)
      /\ \A p \in Partitions : MaxFileReads(p) \in Nat
  BY ConstantFacts, SMTT(20) DEF ReservationInv, TypeOK, StreamTypeOK, CoverageInv
<1>2. CASE AdmitOne
  <2> DEFINE p == FrontPartition + cursor
             additional == Smaller(maxReads[p] - reserved[p], available)
  <2>1. p \in Partitions
    <3>1. cursor < N - consumed /\ N \in Nat /\ Partitions = 1..N
      BY <1>2, ConstantFacts DEF AdmitOne, Remaining
    <3> QED
      BY <1>1, <3>1 DEF FrontPartition
  <2>2. additional \in Nat /\ reserved[p] + additional <= maxReads[p]
    <3>1. reserved[p] \in Nat /\ maxReads[p] \in Nat /\ reserved[p] <= maxReads[p]
      BY <1>1, <2>1
    <3> QED
      BY <1>1, <3>1 DEF Smaller
  <2>3. /\ permits' = [permits EXCEPT ![p] = permits[p] + additional]
        /\ reserved' = [reserved EXCEPT ![p] = reserved[p] + additional]
        /\ UNCHANGED maxReads
    BY <1>2 DEF AdmitOne, Admit
  <2> HIDE DEF p, additional
  <2>4. ASSUME NEW q \in Partitions
        PROVE  /\ permits'[q] <= MaxFileReads(q)
               /\ maxReads'[q] > 0 => permits'[q] = reserved'[q]
    <3>1. CASE q # p
      BY <1>1, <2>1, <2>3, <3>1 DEF IssuedInv
    <3>2. CASE q = p /\ maxReads[p] > 0
      <4>1. permits[p] = reserved[p] /\ permits'[p] = permits[p] + additional
            /\ reserved'[p] = reserved[p] + additional
        BY <1>1, <2>1, <2>3, <3>2 DEF IssuedInv
      <4> QED
        BY <1>1, <2>1, <2>2, <3>2, <4>1
    <3>3. CASE q = p /\ ~(maxReads[p] > 0)
      <4>1. maxReads[p] \in Nat /\ reserved[p] \in Nat /\ maxReads[p] = 0
        BY <1>1, <2>1, <3>3
      <4>2. additional = 0
        BY <2>2, <4>1
      <4>3. permits'[p] = permits[p]
        BY <1>1, <2>1, <2>3, <4>2
      <4> QED
        BY <2>3, <3>3, <4>1, <4>3 DEF IssuedInv
    <3> QED
      BY <3>1, <3>2, <3>3
  <2> QED
    BY <2>4 DEF IssuedInv
<1>3. CASE ReclaimOne
  <2>1. Head(completions) \in Partitions /\ UNCHANGED permits
    BY <1>1, <1>3 DEF ReclaimOne, streamVars
  <2>2. \/ UNCHANGED <<reserved, maxReads>>
        \/ /\ reserved' = [reserved EXCEPT ![Head(completions)] = 0]
           /\ maxReads' = [maxReads EXCEPT ![Head(completions)] = 0]
    BY <1>3 DEF ReclaimOne
  <2>3. ASSUME NEW q \in Partitions, ~UNCHANGED <<reserved, maxReads>>
        PROVE  maxReads'[q] = IF q = Head(completions) THEN 0 ELSE maxReads[q]
    BY <1>1, <2>1, <2>2, <2>3
  <2>4. ASSUME NEW q \in Partitions, ~UNCHANGED <<reserved, maxReads>>, q # Head(completions)
        PROVE  reserved'[q] = reserved[q]
    BY <1>1, <2>1, <2>2, <2>4
  <2> QED
    BY <2>1, <2>3, <2>4 DEF IssuedInv
<1>4. ASSUME UNCHANGED <<permits, reserved, maxReads>> PROVE IssuedInv'
  BY <1>4 DEF IssuedInv
<1>5. CASE MergerNext /\ ~AdmitOne /\ ~ReclaimOne
  BY <1>4, <1>5 DEF MergerNext, PollNext, AdmitDone, ReclaimDone, YieldItem, FrontClosed, YieldPanic,
     YieldPending, PopFront, YieldEnd, Clear, DropStreams, Receive, ReceiveClosed, JoinReportsPanic,
     streamVars, mergerVars
<1>6. CASE \E p \in Partitions : ProducerNext(p)
  BY <1>4, <1>6 DEF ProducerNext, AcquireRead, ReleaseRead, SendBatch, FailFirst, SendError, Return,
     ReturnUnread, Panic, Exit, mergerVars
<1>7. CASE Finished \/ UNCHANGED vars
  BY <1>4, <1>7 DEF Finished, vars, streamVars, mergerVars
<1> QED
  BY <1>2, <1>3, <1>5, <1>6, <1>7 DEF Next

ScanInv == SchedulingInv /\ ChannelTypeOK /\ ReservationInv /\ IssuedInv

\* The producers' and the merger's invariants hold together of a scan: the
\* merger's needs that the producers are the ones it relies on, and the
\* producers' that the merger starts each partition once and only adds permits.
THEOREM ScanInvariant == ASSUME AllAdmitted PROVE ScanSpec => []ScanInv
<1>1. ScanInit => ScanInv
  <2> SUFFICES ASSUME ScanInit PROVE ScanInv
    OBVIOUS
  <2>1. ReservationInv
    BY InitReservationInv DEF ScanInit
  <2>2. permits = [p \in Partitions |-> 0] /\ reserved = [p \in Partitions |-> 0]
    BY DEF ScanInit, Init, OrderedStreamInit, MergerInit
  <2>3. IssuedInv
    BY <2>2, ConstantFacts DEF IssuedInv
  <2>4. SchedulingInv /\ ChannelTypeOK
    BY <2>2, SchedulingInit DEF ScanInit, Init, OrderedStreamInit
  <2> QED
    BY <2>1, <2>3, <2>4 DEF ScanInv
<1>2. ScanInv /\ [ScanNext]_scanVars => ScanInv'
  BY ScanScheduling, ScanRefines, MergerInv, IssuedStep DEF ScanInv
<1> QED
  BY <1>1, <1>2, PTL DEF ScanSpec

\* The scan implements the ordered merger over the producers the merger relies
\* on: the real run_partition reads within its permits, sends its partition's
\* batches in planned order, and ends only after its last batch, an error that
\* it sent, a cancellation or a panic.
THEOREM ScanIsOrderedMerger == ASSUME AllAdmitted PROVE ScanSpec => ImplementsOrderedMerger
<1>1. ScanInit => Init
  BY DEF ScanInit
<1>2. ScanInv /\ [ScanNext]_scanVars => [Next]_vars
  BY ScanRefines DEF ScanInv
<1> QED
  BY <1>1, <1>2, ScanInvariant, PTL DEF ScanSpec, ImplementsOrderedMerger, Spec

\* Both limits hold of a scan, also for the blocking reads of a partition whose
\* slots were reclaimed.
THEOREM ScanReadLimits == ASSUME AllAdmitted PROVE ScanSpec => []ReadLimits
<1>1. ScanInv => ReadLimits
  <2> SUFFICES ASSUME ScanInv PROVE ReadLimits
    OBVIOUS
  <2>1. ASSUME NEW p \in Partitions PROVE permits[p] <= PartitionCapacity
    <3>1. /\ permits[p] <= MaxFileReads(p) /\ permits[p] \in Nat
          /\ MaxFileReads(p) \in 0..PartitionCapacity /\ PartitionCapacity \in Nat
      BY ConstantFacts DEF ScanInv, IssuedInv, SchedulingInv, ProducerInv, StreamTypeOK
    <3> QED
      BY <3>1
  <2> QED
    BY <2>1, LimitsHold DEF ScanInv
<1> QED
  BY <1>1, ScanInvariant, PTL

\* In a scan too, a file never reads while an earlier one of its partition
\* waits for a permit.
THEOREM ScanReadOrder == ASSUME AllAdmitted PROVE ScanSpec => []EarlierFileReadsFirst
<1>1. ScanInv => EarlierFileReadsFirst
  BY EarlierFirst DEF ScanInv
<1> QED
  BY <1>1, ScanInvariant, PTL

\* What the merger promises with the producers it relies on, it keeps with the
\* real ones: slots neither leak nor multiply, a read that holds its partition
\* permit finds a scan permit, the polled partition was admitted, and no slot
\* idles while a queued partition could use it.
THEOREM ScanKeepsMergerPromises ==
    ASSUME AllAdmitted
    PROVE  ScanSpec => [](ReservationsConserved /\ ScanPermitsSuffice /\ FrontAdmitted /\ SlotsInUse)
<1>1. ScanSpec => Spec
  BY ScanIsOrderedMerger DEF ImplementsOrderedMerger
<1> QED
  BY <1>1, ReservationsNeverLeak, ReadsFitCapacity, PolledPartitionAdmitted, SlotsAreInUse, PTL

(* ---- the contract of a batch stream ---------------------------------------- *)

\* The first n items of a sequence, whatever is appended to it.
LEMMA FirstItems ==
    ASSUME NEW S, NEW s \in Seq(S), NEW n \in Nat, n <= Len(s)
    PROVE  /\ SubSeq(s, 1, n) \in Seq(S) /\ Len(SubSeq(s, 1, n)) = n
           /\ \A k \in 1..n : SubSeq(s, 1, n)[k] = s[k]
OBVIOUS

LEMMA FirstItemsStay ==
    ASSUME NEW S, NEW s \in Seq(S), NEW x \in S, NEW n \in Nat, n <= Len(s)
    PROVE  SubSeq(Append(s, x), 1, n) = SubSeq(s, 1, n)
<1>1. /\ Append(s, x) \in Seq(S) /\ n <= Len(Append(s, x))
      /\ \A k \in 1..Len(s) : Append(s, x)[k] = s[k]
  OBVIOUS
<1>2. \A k \in 1..n : SubSeq(Append(s, x), 1, n)[k] = SubSeq(s, 1, n)[k]
  BY <1>1, FirstItems
<1> QED
  BY <1>1, <1>2, FirstItems

LEMMA FirstItemsGrow ==
    ASSUME NEW S, NEW s \in Seq(S), NEW n \in Nat, n + 1 <= Len(s)
    PROVE  /\ SubSeq(s, 1, n + 1) = Append(SubSeq(s, 1, n), s[n + 1])
           /\ SubSeq(SubSeq(s, 1, n + 1), 1, (n + 1) - 1) = SubSeq(s, 1, n)
<1>1. /\ SubSeq(s, 1, n) \in Seq(S) /\ Len(SubSeq(s, 1, n)) = n
      /\ \A k \in 1..n : SubSeq(s, 1, n)[k] = s[k]
      /\ s[n + 1] \in S /\ n \in Nat /\ n <= n + 1
  BY FirstItems
<1>2. /\ Append(SubSeq(s, 1, n), s[n + 1]) \in Seq(S)
      /\ Len(Append(SubSeq(s, 1, n), s[n + 1])) = n + 1
      /\ \A k \in 1..n : Append(SubSeq(s, 1, n), s[n + 1])[k] = s[k]
      /\ Append(SubSeq(s, 1, n), s[n + 1])[n + 1] = s[n + 1]
  BY <1>1
<1>3. /\ SubSeq(s, 1, n + 1) \in Seq(S) /\ Len(SubSeq(s, 1, n + 1)) = n + 1
      /\ \A k \in 1..(n + 1) : SubSeq(s, 1, n + 1)[k] = s[k]
  OBVIOUS
<1>4. SubSeq(s, 1, n + 1) = Append(SubSeq(s, 1, n), s[n + 1])
  <2>1. \A k \in 1..(n + 1) : SubSeq(s, 1, n + 1)[k] = Append(SubSeq(s, 1, n), s[n + 1])[k]
    BY <1>2, <1>3
  <2> QED
    BY <1>2, <1>3, <2>1
<1>5. SubSeq(Append(SubSeq(s, 1, n), s[n + 1]), 1, n) = SubSeq(SubSeq(s, 1, n), 1, n)
  BY <1>1, FirstItemsStay
<1>6. SubSeq(SubSeq(s, 1, n), 1, n) = SubSeq(s, 1, n)
  <2>1. \A k \in 1..n : SubSeq(SubSeq(s, 1, n), 1, n)[k] = SubSeq(s, 1, n)[k]
    BY <1>1, FirstItems
  <2>2. SubSeq(SubSeq(s, 1, n), 1, n) \in Seq(S) /\ Len(SubSeq(SubSeq(s, 1, n), 1, n)) = n
    BY <1>1, FirstItems
  <2> QED
    BY <1>1, <2>1, <2>2
<1>7. (n + 1) - 1 = n
  OBVIOUS
<1> QED
  BY <1>4, <1>5, <1>6, <1>7

\* Steps of the merger and of the producers, as the batch stream sees them: they
\* add at most one item, and only inside a poll.
LEMMA BelowTheStream ==
    ASSUME ReservationInv, DeliveryInv, HandledInv,
           PollMerger \/ MergerStep \/ ScanFinished \/ UNCHANGED scanVars
           \/ \E p \in Partitions : ProducerStep(p) \/ BlockingStep(p) \/ ExitStep(p)
    PROVE  /\ UNCHANGED batchStreamVars
           /\ pc' = "cleared" <=> pc = "cleared"
           /\ \/ UNCHANGED delivered /\ (pc' = pc \/ handled = Len(delivered))
              \/ /\ handled = Len(delivered) /\ pc' = "idle"
                 /\ \E x \in Partitions \X ((Nat \X Nat) \cup Errors) : delivered' = Append(delivered, x)
<1>1. CASE PollMerger
  <2>1. /\ UNCHANGED <<batchStreamVars, delivered>> /\ pc \in {"idle", "pending"}
        /\ pc' \in {"admit", "reclaim"}
    BY <1>1 DEF PollMerger, PollNext, EnterAdmit, Idle
  <2>2. handled = Len(delivered)
    BY <1>1, <2>1 DEF PollMerger, Idle, HandledInv
  <2> QED
    BY <2>1, <2>2
<1>2. CASE MergerStep
  <2>1. UNCHANGED batchStreamVars /\ pc \in {"admit", "reclaim", "front"}
    BY <1>2 DEF MergerStep, AdmitOne, AdmitDone, ReclaimOne, ReclaimDone, YieldItem, FrontClosed,
                YieldPanic, YieldPending, PopFront, YieldEnd
  <2>2. handled = Len(delivered)
    BY <2>1 DEF HandledInv
  <2>3. CASE YieldItem \/ YieldPanic
    <3>1. FrontPartition \in Partitions
      <4>1. consumed \in 0..N /\ consumed < N
        BY <2>3 DEF YieldItem, YieldPanic, ReservationInv, TypeOK
      <4> QED
        BY <4>1, ConstantFacts DEF FrontPartition
    <3>2. CASE YieldItem
      <4>1. out[FrontPartition] \in Seq((Nat \X Nat) \cup Errors) /\ out[FrontPartition] # <<>>
        BY <3>1, <3>2 DEF YieldItem, Receive, DeliveryInv, OrderInv, ChannelTypeOK
      <4>2. <<FrontPartition, Head(out[FrontPartition])>> \in Partitions \X ((Nat \X Nat) \cup Errors)
        BY <3>1, <4>1
      <4>3. delivered' = Append(delivered, <<FrontPartition, Head(out[FrontPartition])>>) /\ pc' = "idle"
        BY <3>2 DEF YieldItem
      <4> QED
        BY <2>1, <2>2, <4>2, <4>3
    <3>3. CASE YieldPanic
      <4>1. <<FrontPartition, "producer_panicked">> \in Partitions \X ((Nat \X Nat) \cup Errors)
        BY <3>1 DEF Errors
      <4>2. delivered' = Append(delivered, <<FrontPartition, "producer_panicked">>) /\ pc' = "idle"
        BY <3>3 DEF YieldPanic
      <4> QED
        BY <2>1, <2>2, <4>1, <4>2
    <3> QED
      BY <2>3, <3>2, <3>3
  <2>4. CASE \/ AdmitOne \/ AdmitDone \/ ReclaimOne \/ ReclaimDone \/ FrontClosed
             \/ YieldPending \/ PopFront \/ YieldEnd
    <3>1. UNCHANGED delivered
      BY <2>4 DEF AdmitOne, Admit, AdmitDone, ReclaimOne, ReclaimDone, FrontClosed,
                  YieldPending, PopFront, YieldEnd, mergerVars
    <3>2. pc' # "cleared"
      BY <2>1, <2>4 DEF AdmitOne, Admit, AdmitDone, ReclaimOne, ReclaimDone, FrontClosed,
                        YieldPending, PopFront, YieldEnd, EnterAdmit, mergerVars, ReservationInv, TypeOK
    <3> QED
      BY <2>1, <2>2, <3>1, <3>2
  <2> QED
    BY <1>2, <2>3, <2>4 DEF MergerStep
<1>3. CASE ScanFinished \/ UNCHANGED scanVars
  BY <1>3 DEF ScanFinished, scanVars, vars, mergerVars
<1>4. ASSUME NEW p \in Partitions, ProducerStep(p) \/ BlockingStep(p) \/ ExitStep(p)
      PROVE  UNCHANGED batchStreamVars /\ UNCHANGED delivered /\ pc' = pc
  BY <1>4 DEF ProducerStep, BlockingStep, ExitStep, Exit, mergerVars
<1> QED
  BY <1>1, <1>2, <1>3, <1>4

\* What poll_next of the batch stream, and its drop, do to the merger.
LEMMA CallerKeeps ==
    ASSUME ReturnBatch \/ FinalizeFails \/ ReturnError \/ ReturnEnd \/ DropStream
    PROVE  UNCHANGED delivered
BY DEF ReturnBatch, FinalizeFails, ReturnError, ReturnEnd, DropStream, Finish, Clear, vars, mergerVars

\* The merger has passed every partition when it ends.
LEMMA EndedStep ==
    ASSUME ReservationInv, pc = "ended" => consumed = N, [ScanNext]_scanVars
    PROVE  pc' = "ended" => consumed' = N
<1>1. CASE PollMerger \/ YieldItem \/ YieldPanic \/ YieldPending \/ DropStream \/ FinalizeFails \/ ReturnError
  BY <1>1 DEF PollMerger, PollNext, EnterAdmit, YieldItem, YieldPanic, YieldPending, DropStream,
              FinalizeFails, ReturnError, Finish, Clear
<1>2. CASE AdmitOne \/ AdmitDone \/ ReclaimOne \/ ReclaimDone \/ FrontClosed \/ PopFront \/ YieldEnd
  BY <1>2 DEF AdmitOne, Admit, AdmitDone, ReclaimOne, ReclaimDone, FrontClosed, PopFront, YieldEnd,
              EnterAdmit, mergerVars, ReservationInv, TypeOK
<1>3. CASE ReturnBatch
  BY <1>3 DEF ReturnBatch, Finish, Clear, vars, mergerVars
<1>4. CASE ReturnEnd \/ ScanFinished \/ UNCHANGED scanVars
  BY <1>4 DEF ReturnEnd, ScanFinished, scanVars, vars, mergerVars
<1>5. ASSUME NEW p \in Partitions, ProducerStep(p) \/ BlockingStep(p) \/ ExitStep(p)
      PROVE  UNCHANGED <<pc, consumed>>
  BY <1>5 DEF ProducerStep, BlockingStep, ExitStep, Exit, mergerVars
<1> QED
  BY <1>1, <1>2, <1>3, <1>4, <1>5 DEF ScanNext, CallerStep, MergerStep

LEMMA HandledStep ==
    ASSUME ReservationInv, DeliveryInv, HandledInv, [ScanNext]_scanVars
    PROVE  HandledInv'
<1>0. pc' = "ended" => consumed' = N
  BY EndedStep DEF HandledInv
<1>1. /\ handled \in Nat /\ Len(delivered) \in Nat
      /\ delivered \in Seq(Partitions \X ((Nat \X Nat) \cup Errors))
  BY DEF HandledInv, DeliveryInv, OrderInv
<1>2. CASE \/ PollMerger \/ MergerStep \/ ScanFinished \/ UNCHANGED scanVars
           \/ \E p \in Partitions : ProducerStep(p) \/ BlockingStep(p) \/ ExitStep(p)
  <2>1. UNCHANGED <<remaining, outcome, rows, handled>> /\ (pc' = "cleared" <=> pc = "cleared")
    BY <1>2, BelowTheStream DEF batchStreamVars
  <2>2. CASE UNCHANGED delivered /\ (pc' = pc \/ handled = Len(delivered))
    BY <1>0, <2>1, <2>2 DEF HandledInv, IsError
  <2>3. ASSUME NEW x \in Partitions \X ((Nat \X Nat) \cup Errors), handled = Len(delivered),
               pc' = "idle", delivered' = Append(delivered, x)
        PROVE  HandledInv'
    <3>1. Len(delivered') = handled + 1 /\ \A k \in 1..handled : delivered'[k] = delivered[k]
      BY <1>1, <2>3
    <3> QED
      BY <1>0, <1>1, <2>1, <2>3, <3>1 DEF HandledInv, IsError
  <2> QED
    BY <1>2, <2>2, <2>3, BelowTheStream
<1>3. CASE ReturnBatch
  <2>1. /\ handled' = handled + 1 /\ handled < Len(delivered) /\ UNCHANGED delivered /\ pc = "idle"
        /\ ~IsError(delivered[handled + 1])
        /\ \/ outcome' = "RowLimit" /\ pc' = "cleared" /\ remaining # NoLimit
           \/ outcome' = outcome /\ pc' = pc /\ (remaining = NoLimit => remaining' = NoLimit)
    BY <1>3, CallerKeeps DEF ReturnBatch, HasItem, Item, Finish, Clear, vars, mergerVars
  <2>2. handled' = Len(delivered)
    BY <1>1, <2>1 DEF HandledInv
  <2>3. outcome = "open" => \A k \in 1..handled' : ~IsError(delivered[k])
    BY <1>1, <2>1 DEF HandledInv
  <2> QED
    BY <1>0, <1>1, <2>1, <2>2, <2>3 DEF HandledInv, IsError
<1>4. CASE FinalizeFails \/ ReturnError
  <2>1. /\ handled' = handled + 1 /\ handled < Len(delivered) /\ UNCHANGED <<delivered, remaining>>
        /\ outcome' = "Failed" /\ pc' = "cleared"
    BY <1>4, CallerKeeps DEF FinalizeFails, ReturnError, HasItem, Finish, Clear
  <2>2. handled' = Len(delivered)
    BY <1>1, <2>1 DEF HandledInv
  <2> QED
    BY <1>0, <1>1, <2>1, <2>2 DEF HandledInv
<1>5. CASE ReturnEnd \/ DropStream
  <2>1. /\ UNCHANGED <<delivered, remaining, handled>> /\ outcome' # "open"
        /\ pc' = pc \/ pc' = "cleared"
    BY <1>5, CallerKeeps DEF ReturnEnd, DropStream, Finish, Clear, vars, mergerVars
  <2> QED
    BY <1>0, <2>1 DEF HandledInv
<1> QED
  BY <1>2, <1>3, <1>4, <1>5 DEF ScanNext, CallerStep

\* A delivered batch that is not an error is planned; what was delivered before it
\* is planned earlier.
LEMMA DeliveredPlanned ==
    ASSUME DeliveryInv, NEW k \in 1..Len(delivered), ~IsError(delivered[k])
    PROVE  /\ delivered[k] \in PlannedBatches
           /\ \A j \in 1..(k - 1) : ~IsError(delivered[j]) => <<delivered[j], delivered[k]>> \in PlannedOrder
<1>1. delivered \in Seq(Partitions \X ((Nat \X Nat) \cup Errors)) /\ Len(delivered) \in Nat
  BY DEF DeliveryInv, OrderInv
<1>2. ASSUME NEW j \in 1..Len(delivered), ~IsError(delivered[j]) PROVE delivered[j] \in PlannedBatches
  <2>1. delivered[j] = <<delivered[j][1], delivered[j][2]>> /\ delivered[j][1] \in Partitions
    BY <1>1
  <2>2. delivered[j][2] \in Batches(delivered[j][1])
    BY <1>2 DEF DeliveryInv, OrderInv
  <2>3. delivered[j] \in {delivered[j][1]} \X Batches(delivered[j][1])
    BY <2>1, <2>2
  <2> QED
    BY <2>1, <2>3 DEF PlannedBatches
<1>3. ASSUME NEW j \in 1..(k - 1), ~IsError(delivered[j])
      PROVE  <<delivered[j], delivered[k]>> \in PlannedOrder
  <2>1. Precedes(delivered[j], delivered[k]) /\ j \in 1..Len(delivered)
    BY <1>1, <1>3 DEF DeliveryInv, OrderInv
  <2> QED
    BY <1>2, <1>3, <2>1 DEF PlannedOrder
<1> QED
  BY <1>2, <1>3

\* A scan that ends was not cancelled, and everything planned was delivered.
LEMMA EndIsComplete ==
    ASSUME ReservationInv, DeliveryInv, HandledInv, outcome = "open", pc = "ended"
    PROVE  /\ \A p \in Partitions : ~cancelled[p]
           /\ \A batch \in PlannedBatches : \E k \in 1..Len(delivered) : delivered[k] = batch
<1>1. \A k \in 1..Len(delivered) : ~IsError(delivered[k])
  BY DEF HandledInv
<1>2. \A p \in Partitions : state[p] = "Done"
  BY ConstantFacts DEF HandledInv, ReservationInv, LifecycleInv, Partitions
<1>3. ASSUME NEW p \in Partitions PROVE ~cancelled[p]
  BY <1>1, <1>2 DEF DeliveryInv, ErrorInv
<1>4. ASSUME NEW p \in Partitions, NEW b \in Batches(p)
      PROVE  \E k \in 1..Len(delivered) : delivered[k] = <<p, b>>
  <2>1. CompleteOK(p)
    BY DEF DeliveryInv, CompleteInv
  <2>2. out[p] = <<>> /\ ~Before(sent[p], b)
    BY <2>1, <1>2, <1>3 DEF CompleteOK
  <2>3. \/ \E k \in 1..Len(delivered) : delivered[k] = <<p, b>>
        \/ \E k \in 1..Len(out[p]) : out[p][k] = b
    BY <2>1, <2>2 DEF CompleteOK
  <2>4. 1..Len(out[p]) = {}
    <3>1. Len(out[p]) = 0
      BY <2>2
    <3> QED
      BY <3>1
  <2> QED
    BY <2>3, <2>4
<1>5. ASSUME NEW batch \in PlannedBatches PROVE \E k \in 1..Len(delivered) : delivered[k] = batch
  <2>1. PICK p \in Partitions : batch \in {p} \X Batches(p)
    BY DEF PlannedBatches
  <2>2. batch = <<p, batch[2]>> /\ batch[2] \in Batches(p)
    BY <2>1
  <2> QED
    BY <2>2, <1>4
<1> QED
  BY <1>3, <1>5

LEMMA InitHandled == ScanInit => HandledInv
<1> SUFFICES ASSUME ScanInit PROVE HandledInv
  OBVIOUS
<1>1. delivered = <<>> /\ pc = "idle" /\ handled = 0 /\ outcome = "open" /\ remaining = RowLimit
  BY DEF ScanInit, Init, OrderedStreamInit, MergerInit
<1> QED
  BY <1>1 DEF HandledInv

\* What the caller holds, as long as no batch failed in finalize_batch.
LEMMA HeldByCaller ==
    ASSUME DeliveryInv, HandledInv, outcome # "Failed"
    PROVE  /\ Returned = SubSeq(delivered, 1, handled) /\ Len(Returned) = handled
           /\ \A k \in 1..handled : Returned[k] = delivered[k]
<1>1. /\ delivered \in Seq(Partitions \X ((Nat \X Nat) \cup Errors))
      /\ handled \in Nat /\ handled <= Len(delivered)
  BY DEF HandledInv, DeliveryInv, OrderInv
<1>2. Returned = SubSeq(delivered, 1, handled)
  BY DEF Returned
<1> QED
  BY <1>1, <1>2, FirstItems

\* Every step of a scan is one the contract allows, or leaves the caller as it is.
LEMMA ContractStep ==
    ASSUME ReservationInv, DeliveryInv, HandledInv, [ScanNext]_scanVars
    PROVE  [Contract!ContractNext]_(Contract!contractVars)
<1> DEFINE Items == Partitions \X ((Nat \X Nat) \cup Errors)
<1>1. /\ delivered \in Seq(Items) /\ Len(delivered) \in Nat
      /\ handled \in Nat /\ handled <= Len(delivered)
  BY DEF HandledInv, DeliveryInv, OrderInv
<1> HIDE DEF Items
<1>2. CASE \/ PollMerger \/ MergerStep \/ ScanFinished \/ UNCHANGED scanVars
           \/ \E p \in Partitions : ProducerStep(p) \/ BlockingStep(p) \/ ExitStep(p)
  <2>1. outcome' = outcome /\ handled' = handled
    BY <1>2, BelowTheStream DEF batchStreamVars
  <2>2. UNCHANGED delivered \/ \E x \in Items : delivered' = Append(delivered, x)
    BY <1>2, BelowTheStream DEF Items
  <2>3. SubSeq(delivered', 1, handled) = SubSeq(delivered, 1, handled)
    <3>1. CASE UNCHANGED delivered
      BY <3>1
    <3>2. ASSUME NEW x \in Items, delivered' = Append(delivered, x)
          PROVE  SubSeq(delivered', 1, handled) = SubSeq(delivered, 1, handled)
      BY <1>1, <3>2, FirstItemsStay
    <3> QED
      BY <2>2, <3>1, <3>2
  <2>4. Returned' = Returned
    BY <2>1, <2>3 DEF Returned
  <2> QED
    BY <2>1, <2>4 DEF Contract!contractVars
<1>3. CASE ReturnBatch \/ FinalizeFails \/ ReturnError
  <2>1. /\ outcome = "open" /\ handled < Len(delivered) /\ handled' = handled + 1
        /\ delivered' = delivered
    BY <1>3, CallerKeeps DEF ReturnBatch, FinalizeFails, ReturnError, HasItem
  <2>2. /\ SubSeq(delivered, 1, handled + 1) =
             Append(SubSeq(delivered, 1, handled), delivered[handled + 1])
        /\ SubSeq(SubSeq(delivered, 1, handled + 1), 1, (handled + 1) - 1) =
             SubSeq(delivered, 1, handled)
    <3>1. handled + 1 <= Len(delivered)
      BY <1>1, <2>1
    <3> QED
      BY <1>1, <3>1, FirstItemsGrow
  <2>3. /\ Returned = SubSeq(delivered, 1, handled) /\ Len(Returned) = handled
        /\ \A k \in 1..handled : Returned[k] = delivered[k]
    BY <2>1, HeldByCaller
  <2>4. CASE ReturnBatch
    <3>1. /\ ~IsError(delivered[handled + 1])
          /\ outcome' = "open" \/ (outcome' = "RowLimit" /\ RowLimit # NoLimit)
      BY <2>1, <2>4 DEF ReturnBatch, Item, Finish, HandledInv
    <3>2. Returned' = Append(Returned, delivered[handled + 1])
      BY <2>1, <2>2, <2>3, <3>1 DEF Returned
    <3>3. handled + 1 \in 1..Len(delivered) /\ (handled + 1) - 1 = handled
      BY <1>1, <2>1
    <3>4. /\ delivered[handled + 1] \in PlannedBatches
          /\ \A j \in 1..handled :
               ~IsError(delivered[j]) => <<delivered[j], delivered[handled + 1]>> \in PlannedOrder
      BY <3>1, <3>3, DeliveredPlanned
    <3>5. \A j \in 1..handled : ~IsError(delivered[j])
      BY <2>1 DEF HandledInv
    <3>6. Contract!Later(delivered[handled + 1])
      BY <2>3, <3>4, <3>5 DEF Contract!Later
    <3>7. Contract!Return
      BY <2>1, <3>1, <3>2, <3>4, <3>6 DEF Contract!Return
    <3> QED
      BY <3>7 DEF Contract!ContractNext
  <2>5. CASE FinalizeFails \/ ReturnError
    <3>1. outcome' = "Failed"
      BY <2>5 DEF FinalizeFails, ReturnError, Finish
    <3>2. Returned' = Returned
      BY <2>1, <2>2, <2>3, <3>1 DEF Returned
    <3>3. Contract!Fail
      BY <2>1, <3>1, <3>2 DEF Contract!Fail
    <3> QED
      BY <3>3 DEF Contract!ContractNext
  <2> QED
    BY <1>3, <2>4, <2>5
<1>4. CASE ReturnEnd
  <2>1. outcome = "open" /\ pc = "ended" /\ handled' = handled /\ delivered' = delivered
    BY <1>4, CallerKeeps DEF ReturnEnd
  <2>2. /\ \A p \in Partitions : ~cancelled[p]
        /\ \A batch \in PlannedBatches : \E k \in 1..Len(delivered) : delivered[k] = batch
    BY <2>1, EndIsComplete
  <2>3. outcome' = "Eof"
    BY <1>4, <2>2 DEF ReturnEnd
  <2>4. Returned' = Returned
    BY <2>1, <2>3 DEF Returned
  <2>5. handled = Len(delivered)
    BY <2>1 DEF HandledInv
  <2>6. /\ Len(Returned) = handled /\ \A k \in 1..handled : Returned[k] = delivered[k]
    BY <2>1, HeldByCaller
  <2>7. \A batch \in PlannedBatches : \E k \in 1..Len(Returned) : Returned[k] = batch
    BY <2>2, <2>5, <2>6
  <2>8. Contract!End
    BY <2>1, <2>3, <2>4, <2>7 DEF Contract!End
  <2> QED
    BY <2>8 DEF Contract!ContractNext
<1>5. CASE DropStream
  <2>1. outcome = "open" /\ outcome' = "Dropped" /\ handled' = handled /\ delivered' = delivered
    BY <1>5, CallerKeeps DEF DropStream, Finish
  <2>2. Returned' = Returned
    BY <2>1 DEF Returned
  <2>3. Contract!Abandon
    BY <2>1, <2>2 DEF Contract!Abandon
  <2> QED
    BY <2>3 DEF Contract!ContractNext
<1> QED
  BY <1>2, <1>3, <1>4, <1>5 DEF ScanNext, CallerStep

\* A scan keeps what DeltaBatchStream promises its caller: planned batches in
\* planned order, one reason for having stopped, and an end only when nothing of
\* the plan is missing, whatever fails, panics or is dropped below it.
THEOREM ScanKeepsContract == ASSUME AllAdmitted PROVE ScanSpec => ImplementsScanContract
<1>1. ScanInit => HandledInv /\ Contract!ContractInit
  <2> SUFFICES ASSUME ScanInit PROVE HandledInv /\ Contract!ContractInit
    OBVIOUS
  <2>1. delivered = <<>> /\ handled = 0 /\ outcome = "open"
    BY DEF ScanInit, Init, OrderedStreamInit, MergerInit
  <2>2. Returned = SubSeq(delivered, 1, 0)
    BY <2>1 DEF Returned
  <2>3. SubSeq(delivered, 1, 0) = <<>>
    BY <2>1
  <2> QED
    BY <2>1, <2>2, <2>3, InitHandled DEF Contract!ContractInit
<1>2. ScanInv /\ DeliveryInv /\ HandledInv /\ [ScanNext]_scanVars => HandledInv'
  BY HandledStep DEF ScanInv
<1>3. ScanInv /\ DeliveryInv /\ HandledInv /\ [ScanNext]_scanVars
        => [Contract!ContractNext]_(Contract!contractVars)
  BY ContractStep DEF ScanInv
<1>4. ScanSpec => []DeliveryInv
  <2>1. ScanSpec => Spec
    BY ScanIsOrderedMerger DEF ImplementsOrderedMerger
  <2> QED
    BY <2>1, DeliveryInvariant, PTL
<1> QED
  BY <1>1, <1>2, <1>3, <1>4, ScanInvariant, PTL
     DEF ScanSpec, ImplementsScanContract, Contract!ContractSpec

(* ---- the row limit --------------------------------------------------------- *)

\* Behind LimitRespected: while the stream is open the limit allows another row.
LimitInv ==
    RowLimit # NoLimit =>
      /\ remaining \in Nat /\ rows \in Nat /\ rows + remaining = RowLimit
      /\ outcome = "open" => remaining > 0
      /\ outcome = "RowLimit" <=> remaining = 0

\* The limit's last row ends the stream in the same step that returns it, and
\* no other end of the stream uses the limit up.
THEOREM LimitIsRespected == ScanSpec => []LimitRespected
<1>1. ScanInit => LimitInv
  BY LimitAssumption DEF ScanInit, LimitInv
<1>2. LimitInv /\ [ScanNext]_scanVars => LimitInv'
  <2> SUFFICES ASSUME LimitInv, [ScanNext]_scanVars, RowLimit # NoLimit PROVE LimitInv'
    BY DEF LimitInv
  <2>1. /\ remaining \in Nat /\ rows \in Nat /\ rows + remaining = RowLimit
        /\ outcome = "open" => remaining > 0
        /\ outcome = "RowLimit" <=> remaining = 0
        /\ remaining # NoLimit
    BY LimitAssumption DEF LimitInv
  <2>2. CASE ReturnBatch
    <3>1. PICK kept \in 0..BatchRows :
            \/ /\ kept >= remaining /\ rows' = rows + remaining /\ remaining' = 0
               /\ outcome' = "RowLimit"
            \/ /\ ~(kept >= remaining) /\ rows' = rows + kept /\ remaining' = remaining - kept
               /\ UNCHANGED outcome
      BY <2>1, <2>2 DEF ReturnBatch, Finish
    <3>2. kept \in Nat /\ outcome = "open"
      BY <2>2, LimitAssumption DEF ReturnBatch, HasItem
    <3>3. CASE kept >= remaining
      BY <2>1, <3>1, <3>3 DEF LimitInv
    <3>4. CASE ~(kept >= remaining)
      <4>1. remaining - kept \in Nat /\ remaining - kept > 0
            /\ rows + kept \in Nat /\ (rows + kept) + (remaining - kept) = RowLimit
        BY <2>1, <3>2, <3>4
      <4> QED
        BY <2>1, <3>1, <3>2, <3>4, <4>1 DEF LimitInv
    <3> QED
      BY <3>3, <3>4
  <2>3. CASE FinalizeFails \/ ReturnError \/ ReturnEnd \/ DropStream
    <3>1. /\ outcome = "open" /\ outcome' \in {"Failed", "Cancelled", "Eof", "Dropped"}
          /\ UNCHANGED <<remaining, rows>>
      BY <2>3 DEF FinalizeFails, ReturnError, ReturnEnd, DropStream, Finish, HasItem
    <3> QED
      BY <2>1, <3>1 DEF LimitInv
  <2>4. CASE UNCHANGED batchStreamVars
    BY <2>1, <2>4 DEF batchStreamVars, LimitInv
  <2>5. CASE PollMerger \/ MergerStep \/ ScanFinished \/ UNCHANGED scanVars
             \/ \E p \in Partitions : ProducerStep(p) \/ BlockingStep(p) \/ ExitStep(p)
    BY <2>4, <2>5 DEF PollMerger, MergerStep, ScanFinished, scanVars, ProducerStep, BlockingStep,
       ExitStep
  <2> QED
    BY <2>2, <2>3, <2>5 DEF ScanNext, CallerStep
<1>3. LimitInv => LimitRespected
  BY DEF LimitInv, LimitRespected
<1> QED
  BY <1>1, <1>2, <1>3, PTL DEF ScanSpec

(* ---- what an operator sees of a partition ---------------------------------- *)

\* The steps of an open partition's producer that its stream can notice.
Shown(p) ==
    \/ UNCHANGED <<cancelled, task, out, sent>>
    \/ EmitBatch(p)
    \/ /\ task[p] = "running" /\ ~cancelled[p]
       /\ Cancel({p}) /\ task' = [task EXCEPT ![p] = "failing"] /\ UNCHANGED <<out, sent>>
    \/ /\ task[p] = "failing"
       /\ out' = [out EXCEPT ![p] = Append(@, "file_failed")]
       /\ task' = [task EXCEPT ![p] = "closing"] /\ UNCHANGED <<cancelled, sent>>
    \/ Exhausted(p) /\ ~cancelled[p]
    \/ ProducerPanics(p)

\* An open partition's producer was not cancelled and is listened to, so it
\* never returns early or unread.
LEMMA ProducerShown ==
    ASSUME NEW p \in Partitions, Open(p), PolledOK(p),
           FileStep(p) \/ RunPartition(p, {p}) \/ \E i \in Files(p) : ThreadStep(p, i)
    PROVE  Shown(p)
<1>1. task[p] = "running" => ~cancelled[p] /\ ReceiverLive(p)
  BY DEF PolledOK, ReceiverLive, SenderLive
<1>2. task[p] = "failing" => ReceiverLive(p)
  BY DEF PolledOK, ReceiverLive, SenderLive
<1>3. CASE FileStep(p)
  BY <1>3 DEF FileStep, PollNew, GetPartitionPermit, GetScanPermit, OpenFile, FutureFails, streamVars,
     Shown
<1>4. CASE \E i \in Files(p) : ThreadStep(p, i)
  BY <1>4 DEF ThreadStep, Shown
<1>5. CASE TakeError(p, {p}) \/ FileFails(p, {p})
  <2>1. task[p] = "running" /\ \E failed : SendFirstError(p, failed, {p})
    BY <1>5 DEF TakeError, FileFails, Taking, Draining, Polling
  <2> QED
    BY <1>1, <2>1 DEF SendFirstError, Shown
<1>6. CASE Refill(p) \/ TakeSkipped(p) \/ NextBatch(p) \/ FileEnds(p) \/ ParkReady(p)
           \/ (TakeFile(p) /\ ~cancelled[p])
  BY <1>6 DEF Refill, TakeSkipped, NextBatch, FileEnds, EndFile, ParkReady, TakeFile, streamVars, Shown
<1>7. ~((TakeFile(p) /\ cancelled[p]) \/ TakeCancelled(p) \/ EmitUnread(p, {p}) \/ DrainCancelled(p))
  BY <1>1 DEF TakeFile, TakeCancelled, EmitUnread, DrainCancelled, Taking, Draining, Polling
<1>8. CASE Exhausted(p)
  BY <1>1, <1>8 DEF Exhausted, Taking, Polling, Shown
<1>9. CASE EmitBatch(p) \/ ProducerPanics(p)
  BY <1>9 DEF Shown
<1>10. CASE ErrorSent(p)
  BY <1>2, <1>10 DEF ErrorSent, ReturnAs, Shown
<1> QED
  BY <1>3, <1>4, <1>5, <1>6, <1>7, <1>8, <1>9, <1>10 DEF RunPartition, PartitionProgress

\* A partition's step leaves the streams of the other partitions alone.
Same(q) ==
    /\ cancelled'[q] = cancelled[q] /\ state'[q] = state[q] /\ task'[q] = task[q]
    /\ out'[q] = out[q] /\ sent'[q] = sent[q]

LEMMA OthersKept ==
    ASSUME SchedulingInv, ChannelTypeOK, NEW p \in Partitions, NEW q \in Partitions, q # p,
           \/ FileStep(p) \/ RunPartition(p, {p}) \/ \E i \in Files(p) : ThreadStep(p, i)
           \/ StreamStep(p, {p}, {p})
    PROVE  Same(q)
<1>1. /\ cancelled \in [Partitions -> BOOLEAN] /\ state \in [Partitions -> StreamStates]
      /\ task \in [Partitions -> TaskStates]
      /\ out \in [Partitions -> Seq((Nat \X Nat) \cup Errors)] /\ sent \in [Partitions -> Nat \X Nat]
  BY DEF SchedulingInv, ProducerInv, StreamTypeOK, ChannelTypeOK
<1>2. ASSUME Cancel({p}) PROVE cancelled'[q] = cancelled[q]
  BY <1>1, <1>2, Zenon DEF Cancel
<1>3. ASSUME NEW to, task' = [task EXCEPT ![p] = to] PROVE task'[q] = task[q]
  BY <1>1, <1>3
<1>4. CASE FileStep(p)
  BY <1>4 DEF FileStep, PollNew, GetPartitionPermit, GetScanPermit, OpenFile, FutureFails, streamVars,
     Same
<1>5. CASE \E i \in Files(p) : ThreadStep(p, i)
  BY <1>5 DEF ThreadStep, Same
<1>6. CASE TakeError(p, {p}) \/ FileFails(p, {p})
  <2>1. \E failed : SendFirstError(p, failed, {p})
    BY <1>6 DEF TakeError, FileFails
  <2>2. /\ Cancel({p}) \/ UNCHANGED cancelled
        /\ \E to : task' = [task EXCEPT ![p] = to]
        /\ UNCHANGED <<state, out, sent>>
    BY <2>1 DEF SendFirstError, ReturnAs
  <2> QED
    BY <1>2, <1>3, <2>2 DEF Same
<1>7. CASE Refill(p) \/ TakeSkipped(p) \/ NextBatch(p) \/ FileEnds(p) \/ ParkReady(p)
           \/ (TakeFile(p) /\ ~cancelled[p])
  BY <1>7 DEF Refill, TakeSkipped, NextBatch, FileEnds, EndFile, ParkReady, TakeFile, streamVars, Same
<1>8. CASE (TakeFile(p) /\ cancelled[p]) \/ TakeCancelled(p) \/ Exhausted(p) \/ DrainCancelled(p)
           \/ ProducerPanics(p) \/ EmitUnread(p, {p})
  <2>1. /\ Cancel({p}) \/ UNCHANGED cancelled
        /\ \E to : task' = [task EXCEPT ![p] = to]
        /\ UNCHANGED <<state, out, sent>>
    BY <1>8 DEF TakeFile, TakeCancelled, Exhausted, DrainCancelled, ProducerPanics, EmitUnread, ReturnAs
  <2> QED
    BY <1>2, <1>3, <2>1 DEF Same
<1>9. CASE EmitBatch(p)
  BY <1>1, <1>9 DEF EmitBatch, Same
<1>10. CASE ErrorSent(p)
  <2>1. /\ UNCHANGED out \/ out' = [out EXCEPT ![p] = Append(@, "file_failed")]
        /\ task' = [task EXCEPT ![p] = "closing"] /\ UNCHANGED <<cancelled, state, sent>>
    BY <1>10 DEF ErrorSent, ReturnAs
  <2> QED
    BY <1>1, <2>1 DEF Same
<1>11. CASE Started(p) \/ Receive(p) \/ ReceiveClosed(p) \/ Ending(p) \/ Exiting(p)
  BY <1>1, <1>11 DEF Started, Start, Receive, ReceiveClosed, Ending, Exiting, Same
<1>12. CASE JoinReportsPanic(p, {p})
  BY <1>1, <1>2, <1>12 DEF JoinReportsPanic, Same
<1>13. CASE DropStreams({p}, {p})
  BY <1>1, <1>2, <1>13 DEF DropStreams, Same
<1>14. CASE UNCHANGED streamVars
  BY <1>14 DEF streamVars, Same
<1> QED
  BY <1>4, <1>5, <1>6, <1>7, <1>8, <1>9, <1>10, <1>11, <1>12, <1>13, <1>14 DEF RunPartition, PartitionProgress, StreamStep

LEMMA PolledByProducer ==
    ASSUME SchedulingInv, ChannelTypeOK, NEW p \in Partitions, PolledOK(p), EndedOK(p),
           FileStep(p) \/ RunPartition(p, {p}) \/ \E i \in Files(p) : ThreadStep(p, i),
           UNCHANGED adapterVars
    PROVE  PolledOK(p)' /\ EndedOK(p)'
<1>1. /\ cancelled \in [Partitions -> BOOLEAN] /\ task \in [Partitions -> TaskStates]
      /\ out \in [Partitions -> Seq((Nat \X Nat) \cup Errors)] /\ state \in [Partitions -> StreamStates]
  BY DEF SchedulingInv, ProducerInv, StreamTypeOK, ChannelTypeOK
<1>2. UNCHANGED state
  BY ProducerKeepsPermits
<1>3. CASE Open(p)
  <2>1. Shown(p) /\ Open(p)'
    BY <1>3, ProducerShown DEF adapterVars, Open
  <2>2. answer'[p] = "open"
    BY <2>1 DEF Open
  <2> SUFFICES PolledOK(p)'
    BY <2>2 DEF EndedOK
  <2>3. CASE UNCHANGED <<cancelled, task, out, sent>>
    BY <1>2, <1>3, <2>3 DEF PolledOK, SenderLive
  <2>4. CASE EmitBatch(p)
    <3>1. task[p] = "running" /\ UNCHANGED <<cancelled, task>>
      BY <2>4 DEF EmitBatch, Draining, Polling
    <3> QED
      BY <1>2, <1>3, <3>1 DEF PolledOK, SenderLive
  <2>5. CASE /\ task[p] = "running" /\ ~cancelled[p]
             /\ Cancel({p}) /\ task' = [task EXCEPT ![p] = "failing"] /\ UNCHANGED <<out, sent>>
    <3>1. task'[p] = "failing"
      BY <1>1, <2>5
    <3> QED
      BY <1>2, <1>3, <2>5, <3>1 DEF PolledOK, SenderLive
  <2>6. CASE /\ task[p] = "failing"
             /\ out' = [out EXCEPT ![p] = Append(@, "file_failed")]
             /\ task' = [task EXCEPT ![p] = "closing"] /\ UNCHANGED <<cancelled, sent>>
    <3>1. /\ task'[p] = "closing" /\ out'[p] = Append(out[p], "file_failed")
          /\ out[p] \in Seq((Nat \X Nat) \cup Errors) /\ "file_failed" \in (Nat \X Nat) \cup Errors
      BY <1>1, <2>6 DEF Errors
    <3>2. out'[p] # <<>> /\ out'[p][Len(out'[p])] = "file_failed"
      <4>1. /\ Len(Append(out[p], "file_failed")) = Len(out[p]) + 1 /\ Len(out[p]) \in Nat
            /\ Append(out[p], "file_failed")[Len(out[p]) + 1] = "file_failed"
        BY <3>1
      <4> QED
        BY <3>1, <4>1
    <3> QED
      BY <1>2, <1>3, <2>6, <3>1, <3>2 DEF PolledOK, SenderLive
  <2>7. CASE (Exhausted(p) /\ ~cancelled[p]) \/ ProducerPanics(p)
    <3>1. /\ task[p] = "running" /\ task'[p] \in {"closing", "unwinding"} /\ UNCHANGED <<cancelled, out>>
      BY <1>1, <2>7 DEF Exhausted, ProducerPanics, ReturnAs, Taking, Polling
    <3>2. ~cancelled[p] /\ state[p] = "Running"
      BY <1>3, <3>1 DEF PolledOK, SenderLive
    <3> QED
      BY <1>2, <3>1, <3>2 DEF PolledOK
  <2> QED
    BY <2>1, <2>3, <2>4, <2>5, <2>6, <2>7 DEF Shown
<1>4. CASE ~Open(p)
  <2>1. answer' = answer
    BY DEF adapterVars
  <2>2. ~Open(p)'
    BY <1>4, <2>1 DEF Open
  <2>3. CASE task[p] = "exited"
    <3>1. ~FileStep(p) /\ ~RunPartition(p, {p})
      BY <2>3 DEF FileStep, PollNew, GetPartitionPermit, GetScanPermit, OpenFile, FutureFails, RunPartition, PartitionProgress,
         Refill, TakeFile, TakeSkipped, TakeError, TakeCancelled, Exhausted, NextBatch, EmitBatch,
         EmitUnread, FileEnds, EndFile, FileFails, ParkReady, DrainCancelled, ErrorSent, ProducerPanics,
         Taking, Draining, Polling
    <3>2. UNCHANGED <<cancelled, task>>
      BY <3>1 DEF ThreadStep
    <3> QED
      BY <2>1, <2>2, <3>2 DEF EndedOK, PolledOK
  <2>4. CASE task[p] # "exited"
    BY <2>1, <2>2, <2>4 DEF EndedOK, PolledOK
  <2> QED
    BY <2>3, <2>4
<1> QED
  BY <1>3, <1>4

LEMMA PolledByOperator ==
    ASSUME SchedulingInv, ChannelTypeOK, AdapterTypeOK, NEW p \in Partitions, PolledOK(p), EndedOK(p),
           OperatorStep(p) \/ DropPartition(p) \/ DFExitStep(p)
    PROVE  PolledOK(p)' /\ EndedOK(p)'
<1>1. /\ cancelled \in [Partitions -> BOOLEAN] /\ task \in [Partitions -> TaskStates]
      /\ out \in [Partitions -> Seq((Nat \X Nat) \cup Errors)] /\ state \in [Partitions -> StreamStates]
      /\ answer \in [Partitions -> {"open", "Failed", "Dropped", "Eof", "Cancelled"}]
  BY DEF SchedulingInv, ProducerInv, StreamTypeOK, ChannelTypeOK, AdapterTypeOK
<1>2. CASE FirstPoll(p)
  <2>1. Open(p) /\ state[p] = "NotStarted" /\ Start(p) /\ UNCHANGED <<cancelled, out, answer>>
    BY <1>2 DEF FirstPoll, adapterVars
  <2>2. ~cancelled[p]
    BY <2>1 DEF PolledOK
  <2>3. state'[p] = "Running" /\ task'[p] = "running" /\ answer'[p] = "open" /\ ~cancelled'[p]
    BY <1>1, <2>1, <2>2 DEF Start, Open
  <2> QED
    BY <2>3 DEF PolledOK, EndedOK
<1>3. CASE PollBatch(p)
  <2>1. /\ Open(p) /\ state[p] = "Running" /\ out[p] # <<>> /\ out' = [out EXCEPT ![p] = Tail(@)]
        /\ UNCHANGED <<cancelled, state, task, answer>> /\ Head(out[p]) \notin Errors
    BY <1>3 DEF PollBatch, Receive
  <2>2. answer'[p] = "open" /\ out'[p] = Tail(out[p])
    BY <1>1, <2>1 DEF Open
  <2>3. ASSUME out[p][Len(out[p])] = "file_failed"
        PROVE  out'[p] # <<>> /\ out'[p][Len(out'[p])] = "file_failed"
    <3>1. /\ Len(out[p]) \in Nat \ {0} /\ Len(Tail(out[p])) = Len(out[p]) - 1
          /\ Head(out[p]) = out[p][1]
          /\ \A k \in 1..(Len(out[p]) - 1) : Tail(out[p])[k] = out[p][k + 1]
      BY <1>1, <2>1, TailFacts
    <3>2. Len(out[p]) # 1
      BY <2>1, <2>3, <3>1 DEF Errors
    <3>3. ASSUME NEW l \in Nat \ {0}, l # 1
          PROVE  l - 1 \in 1..(l - 1) /\ (l - 1) + 1 = l /\ l - 1 # 0
      BY <3>3
    <3>4. /\ Len(out[p]) - 1 \in 1..(Len(out[p]) - 1) /\ (Len(out[p]) - 1) + 1 = Len(out[p])
          /\ Len(out[p]) - 1 # 0
      BY <3>1, <3>2, <3>3
    <3>5. Tail(out[p])[Len(out[p]) - 1] = out[p][Len(out[p])]
      BY <3>1, <3>4
    <3>6. Len(Tail(out[p])) # 0 /\ Tail(out[p])[Len(Tail(out[p]))] = "file_failed"
      BY <2>3, <3>1, <3>4, <3>5
    <3>7. Tail(out[p]) # <<>>
      <4>1. ASSUME NEW s, s = <<>> PROVE Len(s) = 0
        BY <4>1
      <4> QED
        BY <3>6, <4>1, Zenon
    <3> QED
      BY <2>2, <3>6, <3>7
  <2> QED
    BY <2>1, <2>2, <2>3 DEF PolledOK, EndedOK
<1>4. CASE PollError(p) \/ PollPanic(p) \/ DropPartition(p)
  <2>1. answer'[p] \in {"Failed", "Dropped"}
    BY <1>1, <1>4 DEF PollError, PollPanic, DropPartition, Ended
  <2> QED
    BY <2>1 DEF PolledOK, EndedOK, Open
<1>5. CASE PollClosed(p)
  <2>1. /\ Open(p) /\ out[p] = <<>> /\ ~SenderLive(p) /\ state' = [state EXCEPT ![p] = "Finishing"]
        /\ UNCHANGED <<cancelled, task, out, answer>> /\ state[p] = "Running"
    BY <1>5 DEF PollClosed, ReceiveClosed, adapterVars
  <2>2. answer'[p] = "open" /\ state'[p] = "Finishing" /\ task[p] # "none"
    BY <1>1, <2>1 DEF Open, PolledOK
  <2> QED
    BY <2>1, <2>2 DEF PolledOK, EndedOK, SenderLive
<1>6. CASE PollEnd(p)
  <2>1. /\ Open(p) /\ AtEnd(p) /\ UNCHANGED <<cancelled, task>>
        /\ answer' = [answer EXCEPT ![p] = IF cancelled[p] THEN "Cancelled" ELSE "Eof"]
    BY <1>6 DEF PollEnd, Ended
  <2>2. ~cancelled[p] /\ task[p] = "exited"
    BY <2>1 DEF AtEnd, PolledOK, SenderLive
  <2>3. answer'[p] = "Eof"
    BY <1>1, <2>1, <2>2
  <2> QED
    BY <2>1, <2>2, <2>3 DEF PolledOK, EndedOK, Open
<1>7. CASE DFExitStep(p)
  <2>1. /\ task[p] \in {"closing", "unwinding"}
        /\ task' = [task EXCEPT ![p] = IF @ = "closing" THEN "exited" ELSE "panicked"]
        /\ UNCHANGED <<cancelled, state, out, answer>>
    BY <1>7 DEF DFExitStep, adapterVars
  <2>2. task'[p] = IF task[p] = "closing" THEN "exited" ELSE "panicked"
    BY <1>1, <2>1
  <2> QED
    BY <2>1, <2>2 DEF PolledOK, EndedOK, Open, SenderLive
<1> QED
  BY <1>2, <1>3, <1>4, <1>5, <1>6, <1>7 DEF OperatorStep, PollStep

\* The adapter's step at partition p.
LEMMA AdapterTypes ==
    ASSUME AdapterTypeOK, ChannelTypeOK, NEW p \in Partitions,
           OperatorStep(p) \/ DropPartition(p) \/ DFExitStep(p)
    PROVE  /\ AdapterTypeOK'
           /\ \A q \in Partitions : q # p => answer'[q] = answer[q] /\ received'[q] = received[q]
<1> DEFINE Items == (Nat \X Nat) \cup Errors
<1>1. /\ answer \in [Partitions -> {"open", "Failed", "Dropped", "Eof", "Cancelled"}]
      /\ received \in [Partitions -> Seq(Items)] /\ out \in [Partitions -> Seq(Items)]
  BY DEF AdapterTypeOK, ChannelTypeOK
<1>2. ASSUME NEW item \in Items, Got(p, item)
      PROVE  received' \in [Partitions -> Seq(Items)]
             /\ \A q \in Partitions : q # p => received'[q] = received[q]
  <2> HIDE DEF Items
  <2>1. Append(received[p], item) \in Seq(Items)
    BY <1>1, <1>2
  <2> QED
    BY <1>1, <1>2, <2>1 DEF Got
<1>3. ASSUME NEW how \in {"Failed", "Dropped", "Eof", "Cancelled"}, Ended(p, how)
      PROVE  answer' \in [Partitions -> {"open", "Failed", "Dropped", "Eof", "Cancelled"}]
             /\ \A q \in Partitions : q # p => answer'[q] = answer[q]
  BY <1>1, <1>3 DEF Ended
<1>4. out[p] # <<>> => Head(out[p]) \in Items
  <2> HIDE DEF Items
  <2> QED
    BY <1>1
<1>5. "projection_failed" \in Items /\ "producer_panicked" \in Items
  BY DEF Errors
<1> HIDE DEF Items
<1>6. CASE FirstPoll(p) \/ PollClosed(p) \/ DFExitStep(p)
  BY <1>1, <1>6 DEF FirstPoll, PollClosed, DFExitStep, adapterVars, AdapterTypeOK
<1>7. CASE PollBatch(p)
  BY <1>1, <1>2, <1>4, <1>7 DEF PollBatch, Receive, AdapterTypeOK, Items
<1>8. CASE PollError(p)
  BY <1>2, <1>3, <1>4, <1>5, <1>8 DEF PollError, AdapterTypeOK, Items
<1>9. CASE PollPanic(p)
  BY <1>2, <1>3, <1>5, <1>9 DEF PollPanic, AdapterTypeOK, Items
<1>10. CASE PollEnd(p) \/ DropPartition(p)
  BY <1>1, <1>3, <1>10 DEF PollEnd, DropPartition, AdapterTypeOK, Items
<1> QED
  BY <1>6, <1>7, <1>8, <1>9, <1>10 DEF OperatorStep, PollStep

\* A partition that another one's step leaves alone.
LEMMA SamePolled ==
    ASSUME NEW q \in Partitions, Same(q), answer'[q] = answer[q], PolledOK(q), EndedOK(q)
    PROVE  PolledOK(q)' /\ EndedOK(q)'
<1>1. PolledOK(q)'
  BY DEF Same, PolledOK, Open, SenderLive
<1>2. EndedOK(q)'
  BY DEF Same, EndedOK
<1> QED
  BY <1>1, <1>2

LEMMA PolledStep ==
    ASSUME SchedulingInv, ChannelTypeOK, PolledInv, [DFNext]_dfVars
    PROVE  PolledInv'
<1>1. AdapterTypeOK /\ \A p \in Partitions : PolledOK(p) /\ EndedOK(p)
  BY DEF PolledInv
<1>2. ASSUME NEW p \in Partitions, OperatorStep(p) \/ DropPartition(p) \/ DFExitStep(p)
      PROVE  PolledInv'
  <2>1. /\ AdapterTypeOK'
        /\ \A q \in Partitions : q # p => answer'[q] = answer[q] /\ received'[q] = received[q]
    BY <1>1, <1>2, AdapterTypes
  <2>2. PolledOK(p)' /\ EndedOK(p)'
    BY <1>1, <1>2, PolledByOperator
  <2>3. StreamStep(p, {p}, {p})
    BY <1>2, OperatorIsStreamStep
  <2>4. ASSUME NEW q \in Partitions, q # p PROVE PolledOK(q)' /\ EndedOK(q)'
    <3>1. Same(q)
      BY <2>3, <2>4, OthersKept
    <3> QED
      BY <1>1, <2>1, <2>4, <3>1, SamePolled
  <2> QED
    BY <2>1, <2>2, <2>4 DEF PolledInv
<1>3. ASSUME NEW p \in Partitions, DFProducerStep(p) \/ DFBlockingStep(p)
      PROVE  PolledInv'
  <2>1. /\ FileStep(p) \/ RunPartition(p, {p}) \/ \E i \in Files(p) : ThreadStep(p, i)
        /\ UNCHANGED adapterVars
    BY <1>3 DEF DFProducerStep, DFBlockingStep
  <2>2. AdapterTypeOK' /\ UNCHANGED answer
    BY <1>1, <2>1 DEF AdapterTypeOK, adapterVars
  <2>3. PolledOK(p)' /\ EndedOK(p)'
    BY <1>1, <2>1, PolledByProducer
  <2>4. ASSUME NEW q \in Partitions, q # p PROVE PolledOK(q)' /\ EndedOK(q)'
    <3>1. Same(q)
      BY <2>1, <2>4, OthersKept
    <3> QED
      BY <1>1, <2>2, <3>1, SamePolled
  <2> QED
    BY <2>2, <2>3, <2>4 DEF PolledInv
<1>4. CASE UNCHANGED dfVars
  <2>1. AdapterTypeOK' /\ UNCHANGED answer
    BY <1>1, <1>4 DEF AdapterTypeOK, dfVars, adapterVars
  <2>2. \A q \in Partitions : Same(q)
    BY <1>4 DEF dfVars, streamVars, Same
  <2> QED
    BY <1>1, <2>1, <2>2, SamePolled DEF PolledInv
<1> QED
  BY <1>2, <1>3, <1>4 DEF DFNext, AllFinished

DataFusionInv == SchedulingInv /\ ChannelTypeOK /\ PolledInv

\* The streams' invariant holds of a scan run by DataFusion, with the producers'.
THEOREM DataFusionStreams == DFSpec => []DataFusionInv
<1>1. DFInit => PolledInv
  <2> SUFFICES ASSUME DFInit PROVE PolledInv
    OBVIOUS
  <2>1. /\ answer = [p \in Partitions |-> "open"] /\ received = [p \in Partitions |-> <<>>]
        /\ state = [p \in Partitions |-> "NotStarted"] /\ task = [p \in Partitions |-> "none"]
        /\ cancelled = [p \in Partitions |-> FALSE]
    BY DEF DFInit, StreamInit
  <2>2. AdapterTypeOK
    BY <2>1 DEF AdapterTypeOK
  <2>3. \A p \in Partitions : PolledOK(p) /\ EndedOK(p)
    BY <2>1 DEF PolledOK, EndedOK
  <2> QED
    BY <2>2, <2>3 DEF PolledInv
<1>2. SchedulingInv /\ ChannelTypeOK /\ PolledInv /\ [DFNext]_dfVars => PolledInv'
  BY PolledStep
<1>3. DFSpec => []PolledInv
  BY <1>1, <1>2, DataFusionScheduling, PTL DEF DFSpec
<1> QED
  BY <1>3, DataFusionScheduling, PTL DEF DataFusionInv

\* A partition that fails, panics or is dropped cancels only itself: one that is
\* still polled was cancelled by its own error, and one that reported its end
\* was not cancelled.
THEOREM FailuresAreLocal == DFSpec => []FailuresStayLocal
<1>1. PolledInv => FailuresStayLocal
  <2> SUFFICES ASSUME PolledInv, NEW p \in Partitions, cancelled[p]
               PROVE  \/ answer[p] \in {"Failed", "Dropped"}
                      \/ task[p] \in {"failing", "closing", "exited"}
    BY DEF FailuresStayLocal
  <2>1. answer[p] \in {"open", "Failed", "Dropped", "Eof", "Cancelled"}
    BY DEF PolledInv, AdapterTypeOK
  <2> QED
    BY <2>1 DEF PolledInv, PolledOK, EndedOK, Open
<1> QED
  BY <1>1, DataFusionStreams, PTL DEF DataFusionInv

(* ---- what the metrics count -------------------------------------------------- *)

\* Files that ended or were dropped stay so, and none of their batches is read
\* again; a producer that returned stays so.
Over == {"ended", "dropped"}
Kept ==
    /\ \A q \in Partitions : \A i \in Files(q) : fut[q][i] \in Over =>
         fut'[q][i] \in Over /\ yielded'[q][i] = yielded[q][i]
    /\ \A q \in Partitions : task[q] \notin {"none", "running", "failing"} =>
         task'[q] \notin {"none", "running", "failing"}

LEMMA CompletedKept ==
    ASSUME SchedulingInv, CompletedInv, Kept, UNCHANGED <<filesCompleted, partitionsCompleted>>
    PROVE  CompletedInv'
<1>1. ASSUME NEW f \in filesCompleted
      PROVE  /\ f \in AllFiles /\ fut'[f[1]][f[2]] \in Over
             /\ yielded'[f[1]][f[2]] = FileTasks[f[1]][f[2]]
  <2>1. f \in AllFiles /\ fut[f[1]][f[2]] \in Over /\ yielded[f[1]][f[2]] = FileTasks[f[1]][f[2]]
    BY DEF CompletedInv, Over
  <2>2. PICK q \in Partitions : f \in {q} \X Files(q)
    BY <2>1 DEF AllFiles
  <2>3. f[1] = q /\ f[2] \in Files(q)
    BY <2>2
  <2> QED
    BY <2>1, <2>3 DEF Kept
<1>2. ASSUME NEW p \in partitionsCompleted
      PROVE  /\ p \in Partitions /\ task'[p] \notin {"none", "running", "failing"}
             /\ \A i \in Files(p) : <<p, i>> \notin SkippedFiles => yielded'[p][i] = FileTasks[p][i]
  <2>1. /\ p \in Partitions /\ task[p] \notin {"none", "running", "failing"}
        /\ \A i \in Files(p) : <<p, i>> \notin SkippedFiles => yielded[p][i] = FileTasks[p][i]
    BY DEF CompletedInv
  <2>2. \A i \in Files(p) : fut[p][i] \in Over
    BY <2>1 DEF SchedulingInv, ProducerInv, FutureInv, FutureOK, Over
  <2> QED
    BY <2>1, <2>2 DEF Kept
<1> QED
  BY <1>1, <1>2 DEF CompletedInv, Over

LEMMA ReturnKeeps ==
    ASSUME SchedulingInv, NEW p \in Partitions, NEW to \in {"closing", "unwinding"}, ReturnAs(p, to)
    PROVE  Kept /\ UNCHANGED <<yielded, filesCompleted>>
<1>1. OfFiles(fut) /\ task \in [Partitions -> TaskStates]
  BY DEF SchedulingInv, ProducerInv, ProducerTypeOK, StreamTypeOK
<1>2. /\ fut' = [fut EXCEPT ![p] = [i \in Files(p) |-> "dropped"]]
      /\ task' = [task EXCEPT ![p] = to] /\ UNCHANGED <<yielded, filesCompleted>>
  BY DEF ReturnAs, DropProducer
<1>3. /\ \A q \in Partitions : q # p => fut'[q] = fut[q] /\ task'[q] = task[q]
      /\ task'[p] = to /\ \A i \in Files(p) : fut'[p][i] = "dropped"
  BY <1>1, <1>2 DEF OfFiles
<1> QED
  BY <1>2, <1>3 DEF Kept, Over

LEMMA FutureKeeps ==
    ASSUME SchedulingInv, NEW p \in Partitions, NEW i \in Files(p), NEW to, SetFuture(p, i, to),
           fut[p][i] \notin Over \/ to \in Over, UNCHANGED <<yielded, task>>
    PROVE  Kept
<1>1. OfFiles(fut)
  BY DEF SchedulingInv, ProducerInv, ProducerTypeOK
<1>2. /\ \A q \in Partitions : q # p => fut'[q] = fut[q]
      /\ fut'[p][i] = to /\ \A j \in Files(p) : j # i => fut'[p][j] = fut[p][j]
  BY <1>1, FutureSet
<1> QED
  BY <1>2 DEF Kept

LEMMA ProducerKeeps ==
    ASSUME SchedulingInv, NEW p \in Partitions, NEW scope,
           FileStep(p) \/ RunPartition(p, scope) \/ \E i \in Files(p) : ThreadStep(p, i)
    PROVE  Kept
<1>1. ASSUME UNCHANGED <<fut, yielded, task>> PROVE Kept
  BY <1>1 DEF Kept
<1>2. /\ OfFiles(fut) /\ OfFiles(yielded) /\ FutureOK(p) /\ task \in [Partitions -> TaskStates]
  BY DEF SchedulingInv, ProducerInv, FutureInv, ProducerTypeOK, StreamTypeOK
<1>3. CASE FileStep(p)
  <2>1. PICK i \in Files(p) : \/ PollNew(p, i) \/ GetPartitionPermit(p, i) \/ GetScanPermit(p, i)
                              \/ OpenFile(p, i) \/ FutureFails(p, i)
    BY <1>3 DEF FileStep
  <2>2. fut[p][i] \notin Over /\ UNCHANGED <<yielded, task>>
    BY <2>1 DEF PollNew, GetPartitionPermit, GetScanPermit, OpenFile, FutureFails, Over, streamVars
  <2>3. \E to : SetFuture(p, i, to)
    BY <2>1 DEF PollNew, GetPartitionPermit, GetScanPermit, OpenFile, FutureFails
  <2> QED
    BY <2>2, <2>3, FutureKeeps
<1>4. CASE \E i \in Files(p) : ThreadStep(p, i)
  BY <1>1, <1>4 DEF ThreadStep
<1>5. ASSUME NEW failed, SendFirstError(p, failed, scope), task[p] = "running" PROVE Kept
  <2>1. CASE cancelled[p]
    BY <1>5, <2>1, ReturnKeeps DEF SendFirstError
  <2>2. CASE ~cancelled[p]
    <3>1. task' = [task EXCEPT ![p] = "failing"] /\ UNCHANGED <<fut, yielded>>
      BY <1>5, <2>2 DEF SendFirstError
    <3> QED
      BY <1>2, <1>5, <3>1 DEF Kept
  <2> QED
    BY <2>1, <2>2
<1>6. CASE TakeError(p, scope) \/ FileFails(p, scope)
  BY <1>5, <1>6 DEF TakeError, FileFails, Taking, Draining, Polling
<1>7. CASE Refill(p)
  <2> DEFINE new == (next[p] + 1)..(next[p] + Vacancies(p))
  <2>1. /\ task[p] = "running" /\ UNCHANGED <<yielded, task>>
        /\ fut' = [fut EXCEPT ![p] = [i \in Files(p) |-> IF i \in new THEN "unpolled" ELSE @[i]]]
    BY <1>7 DEF Refill, streamVars
  <2>2. ASSUME NEW i \in Files(p), i \in new PROVE fut[p][i] = "planned"
    <3>1. next[p] \in Nat /\ i > next[p]
      BY <2>2, PlanFacts DEF SchedulingInv, ProducerInv, ProducerTypeOK
    <3> QED
      BY <1>2, <2>1, <3>1 DEF FutureOK
  <2> HIDE DEF new
  <2>3. /\ \A q \in Partitions : q # p => fut'[q] = fut[q]
        /\ \A i \in Files(p) : fut'[p][i] = IF i \in new THEN "unpolled" ELSE fut[p][i]
    BY <1>2, <2>1 DEF OfFiles
  <2> QED
    BY <2>1, <2>2, <2>3 DEF Kept, Over
<1>8. CASE NextBatch(p)
  <2>1. /\ task[p] = "running" /\ current[p] # 0 /\ UNCHANGED <<fut, task>>
        /\ yielded' = [yielded EXCEPT ![p][current[p]] = @ + 1]
    BY <1>8 DEF NextBatch, Draining, Polling, streamVars
  <2>2. current[p] \in Files(p) /\ fut[p][current[p]] = "open"
    BY <2>1, CurrentFile
  <2>3. \A q \in Partitions : \A i \in Files(q) : ~(q = p /\ i = current[p]) => yielded'[q][i] = yielded[q][i]
    BY <1>2, <2>1, <2>2 DEF OfFiles
  <2> QED
    BY <2>1, <2>2, <2>3 DEF Kept, Over
<1>9. CASE FileEnds(p)
  <2>1. /\ task[p] = "running" /\ current[p] # 0 /\ SetFuture(p, current[p], "ended")
        /\ UNCHANGED <<yielded, task>>
    BY <1>9 DEF FileEnds, EndFile, Draining, Polling
  <2>2. current[p] \in Files(p)
    BY <2>1, CurrentFile
  <2> QED
    BY <2>1, <2>2, FutureKeeps DEF Over
<1>10. CASE TakeSkipped(p) \/ EmitBatch(p) \/ ParkReady(p) \/ (TakeFile(p) /\ ~cancelled[p])
  BY <1>1, <1>10 DEF TakeSkipped, EmitBatch, ParkReady, TakeFile, streamVars
<1>11. CASE (TakeFile(p) /\ cancelled[p]) \/ TakeCancelled(p) \/ Exhausted(p) \/ EmitUnread(p, scope)
            \/ DrainCancelled(p) \/ ErrorSent(p) \/ ProducerPanics(p)
  <2>1. ReturnAs(p, "closing") \/ ReturnAs(p, "unwinding")
    BY <1>11 DEF TakeFile, TakeCancelled, Exhausted, EmitUnread, DrainCancelled, ErrorSent, ProducerPanics
  <2> QED
    BY <2>1, ReturnKeeps
<1> QED
  BY <1>3, <1>4, <1>6, <1>7, <1>8, <1>9, <1>10, <1>11 DEF RunPartition, PartitionProgress

\* run_partition counts a file when its stream ended, and the partition when
\* there is no file left.
LEMMA CompletedByProducer ==
    ASSUME Backend = "Direct", SchedulingInv, CompletedInv, NEW p \in Partitions, NEW scope,
           FileStep(p) \/ RunPartition(p, scope) \/ \E i \in Files(p) : ThreadStep(p, i)
    PROVE  CompletedInv'
<1>1. Kept
  BY ProducerKeeps
<1>2. CASE UNCHANGED <<filesCompleted, partitionsCompleted>>
  BY <1>1, <1>2, CompletedKept
<1>3. CASE FileEnds(p)
  <2> DEFINE i == current[p]
  <2>1. /\ task[p] = "running" /\ i # 0 /\ SetFuture(p, i, "ended")
        /\ yielded[p][i] = FileTasks[p][i] /\ UNCHANGED <<yielded, partitionsCompleted>>
        /\ filesCompleted' = filesCompleted \cup {<<p, i>>}
    BY <1>3 DEF FileEnds, EndFile, Draining, Polling
  <2>2. i \in Files(p)
    BY <2>1, CurrentFile
  <2>3. OfFiles(fut)
    BY DEF SchedulingInv, ProducerInv, ProducerTypeOK
  <2> HIDE DEF i
  <2>4. fut'[p][i] = "ended" /\ yielded'[p][i] = FileTasks[p][i]
    BY <2>1, <2>2, <2>3, FutureSet
  <2>5. ASSUME NEW f \in filesCompleted
        PROVE  /\ f \in AllFiles /\ fut'[f[1]][f[2]] \in Over
               /\ yielded'[f[1]][f[2]] = FileTasks[f[1]][f[2]]
    <3>1. f \in AllFiles /\ fut[f[1]][f[2]] \in Over /\ yielded[f[1]][f[2]] = FileTasks[f[1]][f[2]]
      BY DEF CompletedInv, Over
    <3>2. PICK q \in Partitions : f \in {q} \X Files(q)
      BY <3>1 DEF AllFiles
    <3>3. f[1] = q /\ f[2] \in Files(q)
      BY <3>2
    <3> QED
      BY <1>1, <3>1, <3>3 DEF Kept
  <2>6. <<p, i>> \in AllFiles
    BY <2>2 DEF AllFiles
  <2>7. ASSUME NEW q \in partitionsCompleted
        PROVE  /\ q \in Partitions /\ task'[q] \notin {"none", "running", "failing"}
               /\ \A j \in Files(q) : <<q, j>> \notin SkippedFiles => yielded'[q][j] = FileTasks[q][j]
    BY <1>1, <2>1 DEF CompletedInv, Kept
  <2> QED
    BY <2>1, <2>4, <2>5, <2>6, <2>7 DEF CompletedInv, Over
<1>4. CASE Exhausted(p)
  <2>1. /\ task[p] = "running" /\ ReturnAs(p, "closing")
        /\ partitionsCompleted' = partitionsCompleted \cup {p}
    BY <1>4 DEF Exhausted, Taking, Polling
  <2>2. UNCHANGED <<yielded, filesCompleted>> /\ task' = [task EXCEPT ![p] = "closing"]
    BY <2>1, ReturnKeeps DEF ReturnAs
  <2>3. task'[p] = "closing"
    BY <2>2 DEF SchedulingInv, ProducerInv, StreamTypeOK
  <2>4. ASSUME NEW i \in Files(p), <<p, i>> \notin SkippedFiles PROVE yielded[p][i] = FileTasks[p][i]
    <3>1. fut[p][i] \in {"ended", "skipped"} /\ ReadOK(p)
      BY <1>4, AllTaken DEF SchedulingInv, DrainOK
    <3> QED
      BY <2>4, <3>1 DEF ReadOK
  <2>5. ASSUME NEW f \in filesCompleted
        PROVE  /\ f \in AllFiles /\ fut'[f[1]][f[2]] \in Over
               /\ yielded'[f[1]][f[2]] = FileTasks[f[1]][f[2]]
    <3>1. f \in AllFiles /\ fut[f[1]][f[2]] \in Over /\ yielded[f[1]][f[2]] = FileTasks[f[1]][f[2]]
      BY DEF CompletedInv, Over
    <3>2. PICK q \in Partitions : f \in {q} \X Files(q)
      BY <3>1 DEF AllFiles
    <3>3. f[1] = q /\ f[2] \in Files(q)
      BY <3>2
    <3> QED
      BY <1>1, <3>1, <3>3 DEF Kept
  <2>6. ASSUME NEW q \in partitionsCompleted
        PROVE  /\ q \in Partitions /\ task'[q] \notin {"none", "running", "failing"}
               /\ \A j \in Files(q) : <<q, j>> \notin SkippedFiles => yielded'[q][j] = FileTasks[q][j]
    BY <1>1, <2>2 DEF CompletedInv, Kept
  <2> QED
    BY <2>1, <2>2, <2>3, <2>4, <2>5, <2>6 DEF CompletedInv, Over
<1>5. ASSUME ~FileEnds(p), ~Exhausted(p) PROVE UNCHANGED <<filesCompleted, partitionsCompleted>>
  <2>1. CASE FileStep(p)
    BY <2>1 DEF FileStep, PollNew, GetPartitionPermit, GetScanPermit, OpenFile, FutureFails
  <2>2. CASE \E i \in Files(p) : ThreadStep(p, i)
    BY <2>2 DEF ThreadStep
  <2>3. CASE TakeError(p, scope) \/ FileFails(p, scope)
    BY <2>3 DEF TakeError, FileFails, SendFirstError, ReturnAs, DropProducer
  <2>4. CASE Refill(p) \/ TakeSkipped(p) \/ NextBatch(p) \/ EmitBatch(p) \/ ParkReady(p)
    BY <2>4 DEF Refill, TakeSkipped, NextBatch, EmitBatch, ParkReady
  <2>5. CASE TakeFile(p) \/ TakeCancelled(p) \/ EmitUnread(p, scope)
             \/ DrainCancelled(p) \/ ErrorSent(p) \/ ProducerPanics(p)
    BY <2>5 DEF TakeFile, TakeCancelled, EmitUnread, DrainCancelled, ErrorSent, ProducerPanics,
       ReturnAs, DropProducer
  <2> QED
    BY <1>5, <2>1, <2>2, <2>3, <2>4, <2>5 DEF RunPartition, PartitionProgress
<1> QED
  BY <1>2, <1>3, <1>4, <1>5

\* A consumer reads no file.
LEMMA CompletedByConsumer ==
    ASSUME SchedulingInv, CompletedInv, UNCHANGED producerVars,
           \/ UNCHANGED streamVars
           \/ \E p \in Partitions : \E ps, scope : StreamStep(p, ps, scope)
    PROVE  CompletedInv'
<1>1. UNCHANGED <<fut, yielded, filesCompleted, partitionsCompleted>>
  BY DEF producerVars
<1>2. ASSUME NEW q \in Partitions, task[q] \notin {"none", "running", "failing"}
      PROVE  task'[q] \notin {"none", "running", "failing"}
  <2>1. task \in [Partitions -> TaskStates] /\ \A p \in Partitions : FutureOK(p)
    BY DEF SchedulingInv, ProducerInv, FutureInv, StreamTypeOK
  <2>2. CASE UNCHANGED task
    BY <1>2, <2>2
  <2>3. ASSUME NEW p \in Partitions, Started(p) PROVE task'[q] \notin {"none", "running", "failing"}
    <3>1. state[p] = "NotStarted" => task[p] = "none"
      BY <2>1 DEF FutureOK
    <3> QED
      BY <1>2, <2>1, <2>3, <3>1 DEF Started, Start
  <2>4. ASSUME NEW p \in Partitions, Exiting(p) PROVE task'[q] \notin {"none", "running", "failing"}
    BY <1>2, <2>1, <2>4 DEF Exiting
  <2> QED
    BY <2>2, <2>3, <2>4 DEF StreamStep, Receive, ReceiveClosed, JoinReportsPanic, Ending, DropStreams,
       streamVars
<1>3. Kept
  BY <1>1, <1>2 DEF Kept
<1> QED
  BY <1>1, <1>3, CompletedKept

LEMMA CompletedInit ==
    ASSUME ProducerInit
    PROVE  CompletedInv
BY DEF ProducerInit, CompletedInv

\* metrics.rs says of a counted file, and of a counted partition, that it
\* "completed normally"; with the Direct reader it did, in a scan ...
THEOREM ScanCompletedMeansRead ==
    ASSUME AllAdmitted, Backend = "Direct"
    PROVE  ScanSpec => []CompletedMeansRead
<1>1. ScanInit => CompletedInv
  BY CompletedInit DEF ScanInit
<1>2. ScanInv /\ CompletedInv /\ [ScanNext]_scanVars => CompletedInv'
  <2> SUFFICES ASSUME ScanInv, CompletedInv, [ScanNext]_scanVars PROVE CompletedInv'
    OBVIOUS
  <2>1. SchedulingInv /\ ReservationInv /\ ChannelTypeOK
    BY DEF ScanInv
  <2>2. CASE (MergerNext \/ UNCHANGED vars) /\ UNCHANGED producerVars
    <3>1. \/ UNCHANGED streamVars
          \/ \E p \in Partitions : StreamStep(p, {q \in Partitions : q > consumed}, Partitions)
      BY <2>1, <2>2, MergerIsStreamStep DEF vars
    <3> QED
      BY <2>1, <2>2, <3>1, CompletedByConsumer
  <2>3. CASE PollMerger \/ MergerStep
    BY <2>2, <2>3 DEF PollMerger, MergerStep, MergerNext
  <2>4. CASE ReturnBatch \/ FinalizeFails \/ ReturnError \/ ReturnEnd \/ DropStream
    <3>1. (Clear \/ UNCHANGED vars) /\ UNCHANGED producerVars
      BY <2>4 DEF ReturnBatch, FinalizeFails, ReturnError, ReturnEnd, DropStream, Finish
    <3> QED
      BY <2>2, <3>1 DEF MergerNext
  <2>5. ASSUME NEW p \in Partitions, ProducerStep(p) \/ BlockingStep(p) PROVE CompletedInv'
    <3>1. FileStep(p) \/ RunPartition(p, Partitions) \/ \E i \in Files(p) : ThreadStep(p, i)
      BY <2>5 DEF ProducerStep, BlockingStep
    <3> QED
      BY <2>1, <3>1, CompletedByProducer
  <2>6. ASSUME NEW p \in Partitions, ExitStep(p) PROVE CompletedInv'
    <3>1. StreamStep(p, {p}, {p}) /\ UNCHANGED producerVars
      BY <2>6 DEF ExitStep, Exit, StreamStep, Exiting
    <3> QED
      BY <2>1, <3>1, CompletedByConsumer
  <2>7. CASE ScanFinished \/ UNCHANGED scanVars
    BY <2>2, <2>7 DEF ScanFinished, scanVars
  <2> QED
    BY <2>3, <2>4, <2>5, <2>6, <2>7 DEF ScanNext, CallerStep
<1>3. CompletedInv => CompletedMeansRead
  BY DEF CompletedInv, CompletedMeansRead
<1> QED
  BY <1>1, <1>2, <1>3, ScanInvariant, PTL DEF ScanSpec

\* ... and in a scan run by DataFusion, where files may be skipped.
THEOREM DataFusionCompletedMeansRead ==
    ASSUME Backend = "Direct"
    PROVE  DFSpec => []CompletedMeansRead
<1>1. DFInit => CompletedInv
  BY CompletedInit DEF DFInit
<1>2. SchedulingInv /\ CompletedInv /\ [DFNext]_dfVars => CompletedInv'
  <2> SUFFICES ASSUME SchedulingInv, CompletedInv, [DFNext]_dfVars PROVE CompletedInv'
    OBVIOUS
  <2>1. ASSUME NEW p \in Partitions, OperatorStep(p) \/ DropPartition(p) \/ DFExitStep(p)
        PROVE  CompletedInv'
    BY <2>1, OperatorIsStreamStep, CompletedByConsumer
  <2>2. ASSUME NEW p \in Partitions, DFProducerStep(p) \/ DFBlockingStep(p) PROVE CompletedInv'
    <3>1. FileStep(p) \/ RunPartition(p, {p}) \/ \E i \in Files(p) : ThreadStep(p, i)
      BY <2>2 DEF DFProducerStep, DFBlockingStep
    <3> QED
      BY <3>1, CompletedByProducer
  <2>3. CASE UNCHANGED dfVars
    BY <2>3, CompletedByConsumer DEF dfVars
  <2> QED
    BY <2>1, <2>2, <2>3 DEF DFNext, AllFinished
<1>3. CompletedInv => CompletedMeansRead
  BY DEF CompletedInv, CompletedMeansRead
<1> QED
  BY <1>1, <1>2, <1>3, DataFusionScheduling, PTL DEF DFSpec

(* ---- batches arrive in order and none is missing ----------------------------- *)

LEMMA Joined ==
    ASSUME NEW S, NEW r \in Seq(S), NEW o \in Seq(S)
    PROVE  /\ r \o o \in Seq(S) /\ Len(r) \in Nat /\ Len(o) \in Nat /\ Len(r \o o) = Len(r) + Len(o)
           /\ \A k \in 1..Len(r) : (r \o o)[k] = r[k]
           /\ \A k \in 1..Len(o) : (r \o o)[Len(r) + k] = o[k]
           /\ \A k \in 1..Len(r \o o) : (r \o o)[k] \in S
OBVIOUS

\* Taking the first waiting item moves it, and leaves the whole as it is.
LEMMA Moved ==
    ASSUME NEW S, NEW r \in Seq(S), NEW o \in Seq(S), o # <<>>
    PROVE  /\ Append(r, Head(o)) \o Tail(o) = r \o o
           /\ Len(Append(r, Head(o))) = Len(r) + 1
<1>1. /\ Append(r, Head(o)) \in Seq(S) /\ Tail(o) \in Seq(S) /\ Head(o) \in S
      /\ Len(Append(r, Head(o))) = Len(r) + 1 /\ Len(Tail(o)) = Len(o) - 1
      /\ Len(r) \in Nat /\ Len(o) \in Nat \ {0}
  OBVIOUS
<1>2. Len(Append(r, Head(o)) \o Tail(o)) = Len(r \o o)
  BY <1>1
<1>3. ASSUME NEW k \in 1..Len(r \o o) PROVE (Append(r, Head(o)) \o Tail(o))[k] = (r \o o)[k]
  BY <1>1, <1>3
<1> QED
  BY <1>1, <1>2, <1>3

\* What is sent joins the items at the end.
LEMMA Grown ==
    ASSUME NEW S, NEW r \in Seq(S), NEW o \in Seq(S), NEW x \in S
    PROVE  /\ Len(r \o Append(o, x)) = Len(r \o o) + 1
           /\ \A k \in 1..Len(r \o o) : (r \o Append(o, x))[k] = (r \o o)[k]
           /\ (r \o Append(o, x))[Len(r \o o) + 1] = x
<1>1. /\ Append(o, x) \in Seq(S) /\ Len(Append(o, x)) = Len(o) + 1
      /\ Len(r) \in Nat /\ Len(o) \in Nat /\ Len(r \o o) = Len(r) + Len(o)
      /\ \A k \in 1..Len(o) : Append(o, x)[k] = o[k]
      /\ Append(o, x)[Len(o) + 1] = x
  OBVIOUS
<1>2. Len(r \o Append(o, x)) = Len(r \o o) + 1
  BY <1>1
<1>3. (r \o Append(o, x))[Len(r \o o) + 1] = x
  BY <1>1
<1>4. ASSUME NEW k \in 1..Len(r \o o) PROVE (r \o Append(o, x))[k] = (r \o o)[k]
  BY <1>1, <1>4
<1> QED
  BY <1>2, <1>3, <1>4

LEMMA BatchTypes ==
    ASSUME NEW p \in Partitions, NEW b \in Batches(p)
    PROVE  /\ b \in Nat \X Nat /\ b \notin Errors
           /\ b[1] \in Files(p) /\ b[2] \in Nat /\ b[2] <= FileTasks[p][b[1]]
<1>1. PICK i \in Files(p) : b \in {i} \X (1..FileTasks[p][i])
  BY DEF Batches, Files
<1>2. i \in Nat /\ FileTasks[p][i] \in Nat
  BY PlanFacts
<1>3. b \in Nat \X Nat /\ b[1] = i /\ b[2] \in 1..FileTasks[p][i]
  BY <1>1, <1>2
<1> QED
  BY <1>2, <1>3, ItemAssumption

\* Nothing arrives at q: its task may start, unwind or exit.
LEMMA NothingArrives ==
    ASSUME NEW q \in Partitions, ArrivalOK(q),
           received'[q] = received[q], out'[q] = out[q], sent'[q] = sent[q],
           cancelled'[q] = cancelled[q], answer'[q] = answer[q],
           task[q] \in {"closing", "exited"} <=> task'[q] \in {"closing", "exited"},
           task'[q] = "failing" => task[q] = "failing"
    PROVE  ArrivalOK(q)'
<1>1. Streamed(q)' = Streamed(q) /\ (Open(q)' <=> Open(q))
  BY DEF Streamed, Open
<1> QED
  BY <1>1 DEF ArrivalOK

\* An item is sent: it comes last.
LEMMA StreamGrows ==
    ASSUME ChannelTypeOK, AdapterTypeOK, NEW p \in Partitions, NEW x \in (Nat \X Nat) \cup Errors,
           received'[p] = received[p], out'[p] = Append(out[p], x)
    PROVE  /\ Len(Streamed(p)) \in Nat /\ Len(Streamed(p)') = Len(Streamed(p)) + 1
           /\ Streamed(p)'[Len(Streamed(p)) + 1] = x
           /\ \A k \in 1..Len(Streamed(p)) :
                Streamed(p)'[k] = Streamed(p)[k] /\ Streamed(p)[k] \in (Nat \X Nat) \cup Errors
           /\ Len(received[p]) \in Nat /\ Len(received[p]) <= Len(Streamed(p))
<1> DEFINE Items == (Nat \X Nat) \cup Errors
           r == received[p]
           o == out[p]
           s == Streamed(p)
           t == Streamed(p)'
<1>1. r \in Seq(Items) /\ o \in Seq(Items) /\ s = r \o o /\ t = r \o Append(o, x)
  BY DEF AdapterTypeOK, ChannelTypeOK, Streamed
<1>2. x \in Items
  OBVIOUS
<1> HIDE DEF r, o, s, t, Items
<1>3. /\ Len(r) \in Nat /\ Len(o) \in Nat /\ Len(r \o o) = Len(r) + Len(o)
      /\ \A k \in 1..Len(r \o o) : (r \o o)[k] \in Items
  BY <1>1, Joined
<1>4. /\ Len(r \o Append(o, x)) = Len(r \o o) + 1
      /\ \A k \in 1..Len(r \o o) : (r \o Append(o, x))[k] = (r \o o)[k]
      /\ (r \o Append(o, x))[Len(r \o o) + 1] = x
  BY <1>1, <1>2, Grown
<1>5. /\ Len(s) \in Nat /\ Len(t) = Len(s) + 1 /\ t[Len(s) + 1] = x
      /\ \A k \in 1..Len(s) : t[k] = s[k] /\ s[k] \in Items
      /\ Len(r) \in Nat /\ Len(r) <= Len(s)
  BY <1>1, <1>3, <1>4
<1> QED
  BY <1>5 DEF r, s, t, Items

\* A batch is sent: it is the next one of the partition.
LEMMA BatchArrives ==
    ASSUME SchedulingInv, ChannelTypeOK, AdapterTypeOK, NEW p \in Partitions, Open(p), ArrivalOK(p),
           EmitBatch(p), UNCHANGED adapterVars
    PROVE  ArrivalOK(p)'
<1> DEFINE Items == (Nat \X Nat) \cup Errors
           b0 == <<current[p], yielded[p][current[p]]>>
           s == Streamed(p)
           t == Streamed(p)'
           n == Len(s)
<1>1. /\ task[p] = "running" /\ current[p] # 0 /\ hand[p]
      /\ sent' = [sent EXCEPT ![p] = b0] /\ out' = [out EXCEPT ![p] = Append(@, b0)]
      /\ UNCHANGED <<cancelled, task, received>>
  BY DEF EmitBatch, Draining, Polling, adapterVars
<1>2. /\ b0 \in Batches(p) /\ Before(sent[p], b0)
      /\ \A b \in Batches(p) : fut[p][b[1]] # "skipped" =>
           (Before(b0, b) <=> (Before(sent[p], b) /\ b # b0))
  BY <1>1, EmitIsNext
<1> HIDE DEF b0
<1>3. b0 \in Nat \X Nat /\ b0 \notin Errors /\ sent[p] \in Nat \X Nat
  BY <1>2, BatchTypes DEF ChannelTypeOK
<1>4. received[p] \in Seq(Items) /\ out[p] \in Seq(Items) /\ b0 \in Items
  BY <1>3 DEF AdapterTypeOK, ChannelTypeOK
<1>5. out'[p] = Append(out[p], b0) /\ sent'[p] = b0
  BY <1>1 DEF ChannelTypeOK
<1> HIDE DEF Items
<1>6. /\ n \in Nat /\ Len(t) = n + 1 /\ t[n + 1] = b0
      /\ \A k \in 1..n : t[k] = s[k] /\ s[k] \in Items
  BY <1>1, <1>4, <1>5, StreamGrows DEF Items
<1>7. \A k \in 1..n :
         /\ s[k] \notin Errors /\ ~Before(sent[p], s[k])
         /\ \A j \in 1..(k - 1) : Before(s[j], s[k])
  <2>1. \A k \in 1..n :
           /\ s[k] \in Errors => task[p] \in {"closing", "exited"}
           /\ s[k] \notin Errors => /\ ~Before(sent[p], s[k])
                                    /\ \A j \in 1..(k - 1) : Before(s[j], s[k])
    BY DEF ArrivalOK
  <2> QED
    BY <1>1, <2>1
<1>8. \A b \in Batches(p) : ~Before(sent[p], b) /\ <<p, b[1]>> \notin SkippedFiles =>
         \E k \in 1..n : s[k] = b
  BY DEF ArrivalOK
<1> HIDE DEF s, t, n
<1>9. \A k \in 1..n : s[k] \in Nat \X Nat
  BY <1>6, <1>7 DEF Items
<1>10. ASSUME NEW k \in 1..(n + 1)
       PROVE  /\ t[k] \notin Errors /\ ~Before(b0, t[k])
              /\ \A j \in 1..(k - 1) : Before(t[j], t[k])
  <2>1. CASE k \in 1..n
    <3>1. t[k] = s[k] /\ \A j \in 1..(k - 1) : j \in 1..n /\ t[j] = s[j]
      BY <1>6, <2>1
    <3>2. ~Before(b0, s[k])
      BY <1>2, <1>3, <1>7, <1>9, <2>1, BeforeOrder
    <3> QED
      BY <1>7, <2>1, <3>1, <3>2
  <2>2. CASE k = n + 1
    <3>1. t[k] = b0 /\ \A j \in 1..(k - 1) : j \in 1..n /\ t[j] = s[j]
      BY <1>6, <2>2
    <3>2. \A j \in 1..n : Before(s[j], b0)
      BY <1>2, <1>3, <1>7, <1>9, BeforeOrder
    <3>3. ~Before(b0, b0)
      BY <1>3, BeforeOrder
    <3> QED
      BY <1>3, <3>1, <3>2, <3>3
  <2> QED
    BY <1>6, <2>1, <2>2
<1>11. ASSUME NEW b \in Batches(p), ~Before(b0, b), <<p, b[1]>> \notin SkippedFiles
       PROVE  \E k \in 1..(n + 1) : t[k] = b
  <2>1. fut[p][b[1]] # "skipped"
    <3>1. b[1] \in Files(p) /\ ReadOK(p)
      BY BatchTypes DEF SchedulingInv, DrainOK
    <3> QED
      BY <1>11, <3>1 DEF ReadOK
  <2>2. ~Before(sent[p], b) \/ b = b0
    BY <1>2, <1>11, <2>1
  <2>3. CASE b = b0
    <3>1. n + 1 \in 1..(n + 1)
      BY <1>6
    <3> QED
      BY <1>6, <2>3, <3>1
  <2>4. CASE ~Before(sent[p], b)
    <3>1. PICK k \in 1..n : s[k] = b
      BY <1>8, <1>11, <2>4
    <3>2. k \in 1..(n + 1) /\ t[k] = b
      BY <1>6, <3>1
    <3> QED
      BY <3>2
  <2> QED
    BY <2>2, <2>3, <2>4
<1>12. task'[p] = "running"
  BY <1>1
<1> QED
  BY <1>5, <1>6, <1>10, <1>11, <1>12 DEF ArrivalOK, t

\* The producer's error is sent: it comes last, and the scan was cancelled.
LEMMA ErrorArrives ==
    ASSUME SchedulingInv, ChannelTypeOK, AdapterTypeOK, NEW p \in Partitions, Open(p), ArrivalOK(p),
           task[p] = "failing", out' = [out EXCEPT ![p] = Append(@, "file_failed")],
           task' = [task EXCEPT ![p] = "closing"], UNCHANGED <<cancelled, sent, adapterVars>>
    PROVE  ArrivalOK(p)'
<1> DEFINE s == Streamed(p)
           t == Streamed(p)'
           n == Len(s)
<1>1. /\ task'[p] = "closing" /\ out'[p] = Append(out[p], "file_failed")
      /\ UNCHANGED <<received, answer>> /\ "file_failed" \in Errors
  BY DEF SchedulingInv, ProducerInv, StreamTypeOK, ChannelTypeOK, adapterVars, Errors
<1>2. /\ n \in Nat /\ Len(t) = n + 1 /\ t[n + 1] = "file_failed"
      /\ \A k \in 1..n : t[k] = s[k]
      /\ Len(received[p]) \in Nat /\ Len(received[p]) <= n
  BY <1>1, StreamGrows
<1>3. /\ \A k \in 1..n :
           /\ s[k] \notin Errors /\ ~Before(sent[p], s[k])
           /\ \A j \in 1..(k - 1) : Before(s[j], s[k])
      /\ cancelled[p]
  <2>1. \A k \in 1..n :
           /\ s[k] \in Errors => task[p] \in {"closing", "exited"}
           /\ s[k] \notin Errors => /\ ~Before(sent[p], s[k])
                                    /\ \A j \in 1..(k - 1) : Before(s[j], s[k])
    BY DEF ArrivalOK
  <2>2. cancelled[p]
    BY DEF ArrivalOK
  <2> QED
    BY <2>1, <2>2
<1>4. \A b \in Batches(p) : ~Before(sent[p], b) /\ <<p, b[1]>> \notin SkippedFiles =>
         \E k \in 1..n : s[k] = b
  BY DEF ArrivalOK
<1> HIDE DEF s, t, n
<1>5. ASSUME NEW k \in 1..(n + 1)
      PROVE  /\ t[k] \in Errors => k > Len(received[p]) /\ k = n + 1
             /\ t[k] \notin Errors => /\ ~Before(sent[p], t[k])
                                      /\ \A j \in 1..(k - 1) : Before(t[j], t[k])
  <2>1. CASE k \in 1..n
    <3>1. t[k] = s[k] /\ \A j \in 1..(k - 1) : j \in 1..n /\ t[j] = s[j]
      BY <1>2, <2>1
    <3> QED
      BY <1>3, <2>1, <3>1
  <2>2. CASE k = n + 1
    BY <1>1, <1>2, <2>2
  <2> QED
    BY <1>2, <2>1, <2>2
<1>6. \A b \in Batches(p) : ~Before(sent[p], b) /\ <<p, b[1]>> \notin SkippedFiles =>
         \E k \in 1..(n + 1) : t[k] = b
  <2>1. \A k \in 1..n : k \in 1..(n + 1)
    BY <1>2
  <2> QED
    BY <1>2, <1>4, <2>1
<1> QED
  BY <1>1, <1>2, <1>3, <1>5, <1>6 DEF ArrivalOK, t

\* A producer that is out of files has sent every batch.
LEMMA EverythingSent ==
    ASSUME SchedulingInv, NEW p \in Partitions, Exhausted(p), ~cancelled[p], NEW b \in Batches(p),
           <<p, b[1]>> \notin SkippedFiles
    PROVE  ~Before(sent[p], b)
<1>1. task[p] = "running" /\ current[p] = 0
  BY DEF Exhausted, Taking, Polling
<1>2. ReadOK(p) /\ SentOK(p)
  BY DEF SchedulingInv, DrainOK
<1>3. b[1] \in Files(p) /\ b[2] \in Nat /\ b[2] <= FileTasks[p][b[1]] /\ FileTasks[p][b[1]] \in Nat
  BY BatchTypes, PlanFacts
<1>4. fut[p][b[1]] = "ended"
  BY <1>2, <1>3, AllTaken DEF ReadOK
<1>5. yielded[p][b[1]] = FileTasks[p][b[1]] /\ ~hand[p]
  BY <1>1, <1>2, <1>3, <1>4 DEF ReadOK
<1>6. ~(Handed(p, b[1]) < b[2])
  BY <1>3, <1>5 DEF Handed
<1> QED
  BY <1>1, <1>2, <1>4, <1>6 DEF SentOK

LEMMA ArrivalByProducer ==
    ASSUME SchedulingInv, ChannelTypeOK, AdapterTypeOK, NEW p \in Partitions, PolledOK(p), ArrivalOK(p),
           FileStep(p) \/ RunPartition(p, {p}) \/ \E i \in Files(p) : ThreadStep(p, i),
           UNCHANGED adapterVars
    PROVE  ArrivalOK(p)'
<1>1. CASE ~Open(p)
  BY <1>1 DEF ArrivalOK, Open, adapterVars
<1>2. CASE Open(p)
  <2>1. /\ Shown(p) /\ UNCHANGED <<received, answer>>
        /\ task \in [Partitions -> TaskStates] /\ cancelled \in [Partitions -> BOOLEAN]
    BY <1>2, ProducerShown DEF adapterVars, SchedulingInv, ProducerInv, StreamTypeOK
  <2>2. CASE UNCHANGED <<cancelled, task, out, sent>>
    BY <2>1, <2>2, NothingArrives
  <2>3. CASE EmitBatch(p)
    BY <1>2, <2>3, BatchArrives
  <2>4. CASE /\ task[p] = "running" /\ ~cancelled[p]
             /\ Cancel({p}) /\ task' = [task EXCEPT ![p] = "failing"] /\ UNCHANGED <<out, sent>>
    <3>1. task'[p] = "failing" /\ Streamed(p)' = Streamed(p)
      BY <2>1, <2>4 DEF Streamed
    <3>2. cancelled'[p]
      BY <2>4, Zenon DEF Cancel
    <3>3. \A k \in 1..Len(Streamed(p)) : Streamed(p)[k] \notin Errors
      BY <1>2, <2>4 DEF ArrivalOK
    <3> QED
      BY <1>2, <2>4, <3>1, <3>2, <3>3 DEF ArrivalOK
  <2>5. CASE /\ task[p] = "failing"
             /\ out' = [out EXCEPT ![p] = Append(@, "file_failed")]
             /\ task' = [task EXCEPT ![p] = "closing"] /\ UNCHANGED <<cancelled, sent>>
    BY <1>2, <2>5, ErrorArrives
  <2>6. CASE Exhausted(p) /\ ~cancelled[p]
    <3>1. /\ task[p] = "running" /\ task' = [task EXCEPT ![p] = "closing"]
          /\ UNCHANGED <<cancelled, out, sent>>
      BY <2>6 DEF Exhausted, Taking, Polling, ReturnAs
    <3>2. task'[p] = "closing" /\ Streamed(p)' = Streamed(p)
      BY <2>1, <3>1 DEF Streamed
    <3>3. \A k \in 1..Len(Streamed(p)) : Streamed(p)[k] \notin Errors
      BY <1>2, <3>1 DEF ArrivalOK
    <3>4. \A b \in Batches(p) : <<p, b[1]>> \in SkippedFiles \/ ~Before(sent[p], b)
      BY <2>6, EverythingSent
    <3> QED
      BY <1>2, <3>1, <3>2, <3>3, <3>4 DEF ArrivalOK
  <2>7. CASE ProducerPanics(p)
    <3>1. /\ task[p] = "running" /\ task' = [task EXCEPT ![p] = "unwinding"]
          /\ UNCHANGED <<cancelled, out, sent>>
      BY <2>7 DEF ProducerPanics, ReturnAs
    <3>2. task'[p] = "unwinding"
      BY <2>1, <3>1
    <3> QED
      BY <2>1, <3>1, <3>2, NothingArrives
  <2> QED
    BY <2>1, <2>2, <2>3, <2>4, <2>5, <2>6, <2>7 DEF Shown
<1> QED
  BY <1>1, <1>2

\* What PartitionComplete says of partition p.
ReceivedOK(p) ==
    /\ \A i, j \in 1..Len(received[p]) :
         i < j => /\ received[p][i] \notin Errors
                  /\ received[p][j] \notin Errors => Before(received[p][i], received[p][j])
    /\ answer[p] \in {"Eof", "Cancelled"} =>
         \A b \in Batches(p) : \/ <<p, b[1]>> \in SkippedFiles
                               \/ \E i \in 1..Len(received[p]) : received[p][i] = b

LEMMA RestInOrder ==
    ASSUME NEW S, NEW r \in Seq(S), NEW o \in Seq(S), NEW s, s = r \o o,
           \A l \in 1..Len(s) :
             /\ s[l] \in Errors => l > Len(r)
             /\ s[l] \notin Errors => \A j \in 1..(l - 1) : Before(s[j], s[l]),
           NEW k \in 1..Len(r)
    PROVE  r[k] \notin Errors /\ \A j \in 1..(k - 1) : Before(r[j], r[k])
<1>1. /\ Len(r) \in Nat /\ Len(o) \in Nat /\ Len(r \o o) = Len(r) + Len(o)
      /\ \A l \in 1..Len(r) : (r \o o)[l] = r[l]
  BY Joined
<1>2. /\ Len(r) \in Nat /\ \A l \in 1..Len(r) : l \in 1..Len(s) /\ s[l] = r[l]
  BY <1>1
<1>3. k \in 1..Len(s) /\ ~(k > Len(r)) /\ \A j \in 1..(k - 1) : j \in 1..Len(r)
  BY <1>2
<1>4. r[k] \notin Errors
  BY <1>2, <1>3
<1> QED
  BY <1>2, <1>3, <1>4

\* What an open stream's operator has got is in order, and no error is in it.
LEMMA OrderedSoFar ==
    ASSUME ChannelTypeOK, AdapterTypeOK, NEW p \in Partitions, Open(p), ArrivalOK(p),
           NEW k \in 1..Len(received[p])
    PROVE  /\ received[p][k] \notin Errors
           /\ \A j \in 1..(k - 1) : Before(received[p][j], received[p][k])
<1> DEFINE Items == (Nat \X Nat) \cup Errors
           r == received[p]
           o == out[p]
           s == Streamed(p)
<1>1. r \in Seq(Items) /\ o \in Seq(Items) /\ s = r \o o /\ k \in 1..Len(r)
  BY DEF AdapterTypeOK, ChannelTypeOK, Streamed
<1>2. \A l \in 1..Len(s) :
         /\ s[l] \in Errors => l > Len(r)
         /\ s[l] \notin Errors => \A j \in 1..(l - 1) : Before(s[j], s[l])
  BY DEF ArrivalOK
<1> HIDE DEF r, o, s, Items
<1>3. r[k] \notin Errors /\ \A j \in 1..(k - 1) : Before(r[j], r[k])
  BY <1>1, <1>2, RestInOrder
<1> QED
  BY <1>3 DEF r

LEMMA ArrivalByOperator ==
    ASSUME SchedulingInv, ChannelTypeOK, AdapterTypeOK, NEW p \in Partitions, PolledOK(p), ArrivalOK(p),
           ChannelTypeOK', AdapterTypeOK', ReceivedOK(p),
           OperatorStep(p) \/ DropPartition(p) \/ DFExitStep(p)
    PROVE  ArrivalOK(p)' /\ ReceivedOK(p)'
<1> DEFINE Items == (Nat \X Nat) \cup Errors
           r == received[p]
           o == out[p]
<1>1. /\ task \in [Partitions -> TaskStates] /\ r \in Seq(Items) /\ o \in Seq(Items)
      /\ out \in [Partitions -> Seq(Items)] /\ received \in [Partitions -> Seq(Items)]
      /\ answer \in [Partitions -> {"open", "Failed", "Dropped", "Eof", "Cancelled"}]
  BY DEF SchedulingInv, ProducerInv, StreamTypeOK, ChannelTypeOK, AdapterTypeOK
<1>2. CASE FirstPoll(p) \/ PollClosed(p)
  <2>1. /\ Open(p) /\ UNCHANGED <<cancelled, out, sent, received, answer>>
        /\ task'[p] = task[p] \/ (task[p] = "none" /\ task'[p] = "running")
    <3>1. state[p] = "NotStarted" /\ Open(p) => task[p] = "none"
      BY DEF PolledOK
    <3> QED
      BY <1>1, <1>2, <3>1 DEF FirstPoll, PollClosed, Start, ReceiveClosed, adapterVars
  <2>2. ArrivalOK(p)'
    BY <2>1, NothingArrives
  <2> QED
    BY <2>1, <2>2 DEF ReceivedOK
<1>3. CASE DFExitStep(p)
  <2>1. /\ UNCHANGED <<cancelled, out, sent, received, answer>> /\ task[p] \in {"closing", "unwinding"}
        /\ task'[p] = IF task[p] = "closing" THEN "exited" ELSE "panicked"
    BY <1>1, <1>3 DEF DFExitStep, adapterVars
  <2>2. ArrivalOK(p)'
    BY <2>1, NothingArrives
  <2> QED
    BY <2>1, <2>2 DEF ReceivedOK
<1>4. CASE PollBatch(p)
  <2>1. /\ Open(p) /\ o # <<>> /\ Head(o) \notin Errors /\ UNCHANGED <<cancelled, task, sent, answer>>
        /\ out'[p] = Tail(o) /\ received'[p] = Append(r, Head(o))
    BY <1>1, <1>4 DEF PollBatch, Receive, Got
  <2>2. Open(p)' /\ Streamed(p) = r \o o /\ Streamed(p)' = Append(r, Head(o)) \o Tail(o)
    BY <2>1 DEF Open, Streamed
  <2>3. \A k \in 1..Len(Streamed(p)) : Streamed(p)[k] \in Errors => k > Len(r)
    BY <2>1 DEF ArrivalOK
  <2> HIDE DEF r, o, Items
  <2>4. Streamed(p)' = Streamed(p) /\ Len(received'[p]) = Len(r) + 1
    BY <1>1, <2>1, <2>2, Moved
  <2>5. Streamed(p)[Len(r) + 1] = Head(o) /\ Len(r) \in Nat
    <3>1. /\ Len(r) \in Nat /\ \A k \in 1..Len(o) : (r \o o)[Len(r) + k] = o[k]
      BY <1>1, Joined
    <3>2. 1 \in 1..Len(o) /\ Head(o) = o[1]
      BY <1>1, <2>1, TailFacts
    <3> QED
      BY <2>2, <3>1, <3>2
  <2>6. Len(Streamed(p)) \in Nat
    BY <1>1, <2>2, Joined
  <2>7. ASSUME NEW k \in 1..Len(Streamed(p)), Streamed(p)[k] \in Errors PROVE k > Len(received'[p])
    <3>1. k > Len(r) /\ k # Len(r) + 1
      BY <2>1, <2>3, <2>5, <2>7
    <3> QED
      BY <2>4, <2>5, <2>6, <3>1
  <2>8. ArrivalOK(p)'
    BY <2>1, <2>4, <2>7 DEF ArrivalOK
  <2>9. ReceivedOK(p)'
    <3> DEFINE r1 == received'[p]
               o1 == out'[p]
               s1 == Streamed(p)'
    <3>1. r1 \in Seq(Items) /\ o1 \in Seq(Items) /\ s1 = r1 \o o1 /\ Len(r1) \in Nat
      BY DEF AdapterTypeOK, ChannelTypeOK, Streamed, Items
    <3>2. \A l \in 1..Len(s1) :
             /\ s1[l] \in Errors => l > Len(r1)
             /\ s1[l] \notin Errors => \A j \in 1..(l - 1) : Before(s1[j], s1[l])
      BY <2>2, <2>8 DEF ArrivalOK
    <3> HIDE DEF r1, o1, s1
    <3>3. \A k \in 1..Len(r1) : r1[k] \notin Errors /\ \A j \in 1..(k - 1) : Before(r1[j], r1[k])
      BY <3>1, <3>2, RestInOrder
    <3>4. \A i, j \in 1..Len(r1) : i < j => i \in 1..(j - 1)
      BY <3>1
    <3> QED
      BY <2>2, <3>3, <3>4 DEF ReceivedOK, Open, r1
  <2> QED
    BY <2>8, <2>9
<1>5. CASE PollError(p) \/ PollPanic(p)
  <2>1. /\ Open(p) /\ answer'[p] = "Failed"
        /\ \E e \in Errors : received'[p] = Append(r, e)
    BY <1>1, <1>5 DEF PollError, PollPanic, Got, Ended, Errors
  <2>2. PICK e \in Errors : received'[p] = Append(r, e)
    BY <2>1
  <2>3. \A k \in 1..Len(r) : r[k] \notin Errors /\ \A j \in 1..(k - 1) : Before(r[j], r[k])
    BY <2>1, OrderedSoFar
  <2>4. e \in Items
    OBVIOUS
  <2> HIDE DEF r, Items
  <2>5. /\ Len(r) \in Nat /\ Len(Append(r, e)) = Len(r) + 1 /\ Append(r, e)[Len(r) + 1] = e
        /\ \A k \in 1..Len(r) : Append(r, e)[k] = r[k]
    BY <1>1, <2>4
  <2>6. ASSUME NEW i \in 1..(Len(r) + 1), NEW j \in 1..(Len(r) + 1), i < j
        PROVE  /\ received'[p][i] \notin Errors
               /\ received'[p][j] \notin Errors => Before(received'[p][i], received'[p][j])
    <3>1. i \in 1..Len(r) /\ i \in 1..(j - 1) /\ (j \in 1..Len(r) \/ j = Len(r) + 1)
      BY <2>5, <2>6
    <3> QED
      BY <2>2, <2>3, <2>5, <3>1
  <2>7. ReceivedOK(p)'
    BY <2>1, <2>2, <2>5, <2>6 DEF ReceivedOK
  <2>8. ArrivalOK(p)'
    BY <2>1 DEF ArrivalOK, Open
  <2> QED
    BY <2>7, <2>8
<1>6. CASE DropPartition(p)
  <2>1. Open(p) /\ answer'[p] = "Dropped" /\ UNCHANGED received
    BY <1>1, <1>6 DEF DropPartition, Ended
  <2> QED
    BY <2>1 DEF ArrivalOK, ReceivedOK, Open
<1>7. CASE PollEnd(p)
  <2>1. /\ Open(p) /\ AtEnd(p) /\ answer'[p] \in {"Eof", "Cancelled"} /\ UNCHANGED received
    BY <1>1, <1>7 DEF PollEnd, Ended
  <2>2. ~cancelled[p] /\ task[p] = "exited" /\ o = <<>>
    BY <2>1 DEF AtEnd, PolledOK, SenderLive
  <2>3. ASSUME NEW b \in Batches(p), <<p, b[1]>> \notin SkippedFiles
        PROVE  \E k \in 1..Len(Streamed(p)) : Streamed(p)[k] = b
    BY <2>1, <2>2, <2>3 DEF ArrivalOK
  <2>4. Streamed(p) = r
    <3>1. Streamed(p) = r \o o
      BY DEF Streamed
    <3> HIDE DEF r, o, Items
    <3> QED
      BY <1>1, <2>2, <3>1
  <2> QED
    BY <2>1, <2>3, <2>4 DEF ArrivalOK, ReceivedOK, Open
<1> QED
  BY <1>2, <1>3, <1>4, <1>5, <1>6, <1>7 DEF OperatorStep, PollStep

LEMMA SameArrival ==
    ASSUME NEW q \in Partitions, Same(q), answer'[q] = answer[q], received'[q] = received[q],
           ArrivalOK(q), ReceivedOK(q)
    PROVE  ArrivalOK(q)' /\ ReceivedOK(q)'
<1>1. ArrivalOK(q)'
  BY NothingArrives DEF Same
<1>2. ReceivedOK(q)'
  BY DEF ReceivedOK
<1> QED
  BY <1>1, <1>2

ReceivedInv == \A p \in Partitions : ReceivedOK(p)

LEMMA ArrivalStep ==
    ASSUME DataFusionInv, ArrivalInv, ReceivedInv, ChannelTypeOK', AdapterTypeOK', [DFNext]_dfVars
    PROVE  ArrivalInv' /\ ReceivedInv'
<1>1. /\ SchedulingInv /\ ChannelTypeOK /\ AdapterTypeOK
      /\ \A p \in Partitions : PolledOK(p) /\ ArrivalOK(p) /\ ReceivedOK(p)
  BY DEF DataFusionInv, PolledInv, ArrivalInv, ReceivedInv
<1>2. ASSUME NEW p \in Partitions, OperatorStep(p) \/ DropPartition(p) \/ DFExitStep(p)
      PROVE  ArrivalInv' /\ ReceivedInv'
  <2>1. ArrivalOK(p)' /\ ReceivedOK(p)'
    BY <1>1, <1>2, ArrivalByOperator
  <2>2. StreamStep(p, {p}, {p})
    BY <1>1, <1>2, OperatorIsStreamStep
  <2>3. ASSUME NEW q \in Partitions, q # p PROVE ArrivalOK(q)' /\ ReceivedOK(q)'
    <3>1. Same(q)
      BY <1>1, <2>2, <2>3, OthersKept
    <3>2. answer'[q] = answer[q] /\ received'[q] = received[q]
      BY <1>1, <1>2, <2>3, AdapterTypes
    <3> QED
      BY <1>1, <3>1, <3>2, SameArrival
  <2> QED
    BY <2>1, <2>3 DEF ArrivalInv, ReceivedInv
<1>3. ASSUME NEW p \in Partitions, DFProducerStep(p) \/ DFBlockingStep(p)
      PROVE  ArrivalInv' /\ ReceivedInv'
  <2>1. /\ FileStep(p) \/ RunPartition(p, {p}) \/ \E i \in Files(p) : ThreadStep(p, i)
        /\ UNCHANGED adapterVars /\ UNCHANGED <<answer, received>>
    BY <1>3 DEF DFProducerStep, DFBlockingStep, adapterVars
  <2>2. ArrivalOK(p)' /\ ReceivedOK(p)'
    <3>1. ReceivedOK(p)'
      BY <1>1, <2>1 DEF ReceivedOK
    <3> QED
      BY <1>1, <2>1, <3>1, ArrivalByProducer
  <2>3. ASSUME NEW q \in Partitions, q # p PROVE ArrivalOK(q)' /\ ReceivedOK(q)'
    <3>1. Same(q)
      BY <1>1, <2>1, <2>3, OthersKept
    <3> QED
      BY <1>1, <2>1, <3>1, SameArrival
  <2> QED
    BY <2>2, <2>3 DEF ArrivalInv, ReceivedInv
<1>4. CASE UNCHANGED dfVars
  <2>1. \A q \in Partitions : Same(q) /\ answer'[q] = answer[q] /\ received'[q] = received[q]
    BY <1>4 DEF dfVars, streamVars, adapterVars, Same
  <2> QED
    BY <1>1, <2>1, SameArrival DEF ArrivalInv, ReceivedInv
<1> QED
  BY <1>2, <1>3, <1>4 DEF DFNext, AllFinished

\* Every operator gets its partition's batches in planned order although the
\* files are set up ahead and read concurrently, and one that is told of the end
\* has got every batch of every file that was not skipped.
THEOREM PartitionsAreComplete == DFSpec => []PartitionComplete
<1>1. DFInit => ArrivalInv /\ ReceivedInv
  <2> SUFFICES ASSUME DFInit, NEW p \in Partitions PROVE ArrivalOK(p) /\ ReceivedOK(p)
    BY DEF ArrivalInv, ReceivedInv
  <2>1. /\ answer[p] = "open" /\ received[p] = <<>> /\ out[p] = <<>> /\ task[p] = "none"
        /\ sent[p] = <<0, 0>>
    BY DEF DFInit, StreamInit
  <2>2. Len(received[p]) = 0 /\ Len(Streamed(p)) = 0
    BY <2>1 DEF Streamed
  <2>3. ASSUME NEW b \in Batches(p) PROVE Before(sent[p], b)
    <3>1. b[1] \in Files(p)
      BY BatchTypes
    <3>2. b[1] \in Nat /\ b[1] # 0
      BY <3>1, PlanFacts DEF Files
    <3> QED
      BY <2>1, <3>2 DEF Before
  <2>4. ReceivedOK(p)
    BY <2>1, <2>2 DEF ReceivedOK
  <2>5. ArrivalOK(p)
    BY <2>1, <2>2, <2>3 DEF ArrivalOK
  <2> QED
    BY <2>4, <2>5
<1>2. DataFusionInv /\ DataFusionInv' /\ ArrivalInv /\ ReceivedInv /\ [DFNext]_dfVars
        => ArrivalInv' /\ ReceivedInv'
  BY ArrivalStep DEF DataFusionInv, PolledInv
<1>3. DataFusionInv /\ ReceivedInv => PartitionComplete
  <2> SUFFICES ASSUME DataFusionInv, ReceivedInv PROVE PartitionComplete
    OBVIOUS
  <2>1. \A p \in Partitions : EndedOK(p) /\ ReceivedOK(p)
    BY DEF DataFusionInv, PolledInv, ReceivedInv
  <2> QED
    BY <2>1 DEF ReceivedOK, EndedOK, PartitionComplete
<1> QED
  BY <1>1, <1>2, <1>3, DataFusionStreams, PTL DEF DFSpec

=============================================================================
