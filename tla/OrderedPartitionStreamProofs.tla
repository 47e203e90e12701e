-------------------- MODULE OrderedPartitionStreamProofs --------------------
(***************************************************************************)
(* Proofs about the ordered merger, for every plan and every option value: *)
(* its reservations are conserved, the reads of live producers fit into    *)
(* the scan's capacity, the partition it polls has been admitted, no slot  *)
(* idles that could be used, and what it hands over is in planned order.   *)
(***************************************************************************)
EXTENDS OrderedPartitionStream, FiniteSetTheorems, TLAPS

\* What the plan and the options are: partition indices, and capacities as
\* ScanReadLimiter::new and PartitionStream::new compute them.
LEMMA ConstantFacts ==
    /\ N \in Nat /\ Partitions = 1..N
    /\ ScanCapacity \in Nat \ {0}
    /\ PartitionCapacity \in Nat \ {0}
    /\ \A p \in Partitions :
         /\ MaxFileReads(p) \in 0..PartitionCapacity
         /\ FileTasks[p] # <<>> => MaxFileReads(p) >= 1
<1>1. N \in Nat /\ Partitions = 1..N
  BY PlanAssumption DEF N, Partitions
<1>2. TargetPartitions * PartitionCapacity \in Nat
  BY OptionsAssumption DEF ValidCapacity
<1>3. ScanCapacity \in Nat \ {0}
  BY <1>2, OptionsAssumption DEF ScanCapacity, Smaller, ValidCapacity
<1>4. PartitionCapacity \in Nat \ {0}
  BY OptionsAssumption DEF ValidCapacity
<1>5. ASSUME NEW p \in Partitions
      PROVE  /\ MaxFileReads(p) \in 0..PartitionCapacity
             /\ FileTasks[p] # <<>> => MaxFileReads(p) >= 1
  <2>1. FileTasks[p] \in Seq(Nat)
    BY PlanAssumption DEF Partitions
  <2>2. Len(FileTasks[p]) \in Nat /\ (FileTasks[p] # <<>> => Len(FileTasks[p]) >= 1)
    BY <2>1
  <2>3. Prefetch \in Nat
    BY OptionsAssumption DEF Prefetch, ValidCapacity
  <2> QED
    BY <2>2, <2>3, <1>4 DEF MaxFileReads, Smaller
<1> QED
  BY <1>1, <1>3, <1>4, <1>5

-----------------------------------------------------------------------------
(* Counting slots.                                                          *)

\* Slots m+1 .. n of one partition are n - m slots.
LEMMA BlockCardinality ==
    ASSUME NEW p, NEW m \in Nat, NEW n \in Nat, m <= n
    PROVE  /\ IsFiniteSet({p} \X ((m + 1)..n))
           /\ Cardinality({p} \X ((m + 1)..n)) = n - m
<1>1. IsFiniteSet({p}) /\ Cardinality({p}) = 1
  BY FS_Singleton
<1>2. IsFiniteSet((m + 1)..n) /\ Cardinality((m + 1)..n) = n - m
  <2>1. m + 1 \in Int /\ n \in Int
    OBVIOUS
  <2>2. /\ IsFiniteSet((m + 1)..n)
        /\ Cardinality((m + 1)..n) = IF m + 1 > n THEN 0 ELSE n - (m + 1) + 1
    BY <2>1, FS_Interval
  <2> QED
    BY <2>2
<1>3. /\ IsFiniteSet({p} \X ((m + 1)..n))
      /\ Cardinality({p} \X ((m + 1)..n)) = Cardinality({p}) * Cardinality((m + 1)..n)
  BY <1>1, <1>2, FS_Product
<1> QED
  BY <1>1, <1>2, <1>3

\* Slots of partitions above c, counted by r.
Counted(r, c) == {s \in Partitions \X (1..PartitionCapacity) : s[2] <= r[s[1]] /\ s[1] > c}

LEMMA ReservedSlotsCounted ==
    ReservedSlots = Counted(reserved, consumed)
  BY DEF ReservedSlots, Slots, Counted

LEMMA CountedFinite ==
    ASSUME NEW r, NEW c
    PROVE  IsFiniteSet(Counted(r, c)) /\ Cardinality(Counted(r, c)) \in Nat
<1>1. IsFiniteSet(Partitions) /\ IsFiniteSet(1..PartitionCapacity)
  <2>1. 1 \in Int /\ N \in Int /\ PartitionCapacity \in Int
    BY ConstantFacts
  <2>2. IsFiniteSet(1..N) /\ IsFiniteSet(1..PartitionCapacity)
    BY <2>1, FS_Interval
  <2> QED
    BY <2>2, ConstantFacts
<1>2. IsFiniteSet(Partitions \X (1..PartitionCapacity))
  BY <1>1, FS_Product
<1>3. Counted(r, c) \in SUBSET (Partitions \X (1..PartitionCapacity))
  BY DEF Counted
<1>4. IsFiniteSet(Counted(r, c))
  BY <1>2, <1>3, FS_Subset
<1> QED
  BY <1>4, FS_CardinalityType

\* Two disjoint finite sets.
LEMMA DisjointUnion ==
    ASSUME NEW S, NEW T, IsFiniteSet(S), IsFiniteSet(T), S \cap T = {}
    PROVE  Cardinality(S \cup T) = Cardinality(S) + Cardinality(T)
<1>1. Cardinality(S \cup T) = Cardinality(S) + Cardinality(T) - Cardinality(S \cap T)
  BY FS_Union
<1>2. Cardinality(S \cap T) = 0
  BY FS_EmptySet
<1>3. Cardinality(S) \in Nat /\ Cardinality(T) \in Nat
  BY FS_CardinalityType
<1> QED
  BY <1>1, <1>2, <1>3

\* Raising one partition's count from m to n adds n - m slots.
LEMMA CountRaised ==
    ASSUME NEW r \in [Partitions -> Nat], NEW c \in Nat, NEW p \in Partitions, p > c,
           NEW n \in Nat, r[p] <= n, n <= PartitionCapacity
    PROVE  Cardinality(Counted([r EXCEPT ![p] = n], c))
             = Cardinality(Counted(r, c)) + (n - r[p])
<1> DEFINE block == {p} \X ((r[p] + 1)..n)
<1>1. r[p] \in Nat
  OBVIOUS
<1>2. IsFiniteSet(block) /\ Cardinality(block) = n - r[p]
  BY <1>1, BlockCardinality
<1>3. Counted([r EXCEPT ![p] = n], c) = Counted(r, c) \cup block
  <2>1. ASSUME NEW s \in Counted([r EXCEPT ![p] = n], c) PROVE s \in Counted(r, c) \cup block
    BY <2>1, ConstantFacts, SMTT(20) DEF Counted
  <2>2. ASSUME NEW s \in Counted(r, c) PROVE s \in Counted([r EXCEPT ![p] = n], c)
    BY <2>2, ConstantFacts, SMTT(20) DEF Counted
  <2>3. ASSUME NEW s \in block PROVE s \in Counted([r EXCEPT ![p] = n], c)
    BY <2>3, ConstantFacts, SMTT(20) DEF Counted
  <2> QED
    BY <2>1, <2>2, <2>3
<1>4. Counted(r, c) \cap block = {}
  BY ConstantFacts DEF Counted
<1>5. IsFiniteSet(Counted(r, c))
  BY CountedFinite
<1> HIDE DEF block
<1> QED
  BY <1>2, <1>3, <1>4, <1>5, DisjointUnion

\* Taking back everything partition p counts removes r[p] slots.
LEMMA CountCleared ==
    ASSUME NEW r \in [Partitions -> Nat], NEW c \in Nat, NEW p \in Partitions, p > c,
           r[p] <= PartitionCapacity
    PROVE  Cardinality(Counted(r, c)) = Cardinality(Counted([r EXCEPT ![p] = 0], c)) + r[p]
<1> DEFINE top == r[p]
           block == {p} \X ((0 + 1)..top)
           rest == Counted([r EXCEPT ![p] = 0], c)
<1>1. top \in Nat /\ 0 \in Nat /\ 0 <= top
  OBVIOUS
<1>2. IsFiniteSet(block) /\ Cardinality(block) = top - 0
  <2> HIDE DEF top
  <2> QED
    BY <1>1, BlockCardinality
<1>3. Counted(r, c) = rest \cup block
  <2>1. ASSUME NEW s \in Counted(r, c) PROVE s \in rest \cup block
    BY <2>1, ConstantFacts, SMTT(20) DEF Counted
  <2>2. ASSUME NEW s \in rest PROVE s \in Counted(r, c)
    BY <2>2, ConstantFacts, SMTT(20) DEF Counted
  <2>3. ASSUME NEW s \in block PROVE s \in Counted(r, c)
    BY <2>3, ConstantFacts, SMTT(20) DEF Counted
  <2> QED
    BY <2>1, <2>2, <2>3
<1>4. rest \cap block = {}
  BY ConstantFacts DEF Counted
<1>5. IsFiniteSet(rest) /\ Cardinality(rest) \in Nat
  BY CountedFinite
<1> HIDE DEF block, rest
<1>6. Cardinality(Counted(r, c)) = Cardinality(rest) + Cardinality(block)
  BY <1>2, <1>3, <1>4, <1>5, DisjointUnion
<1>7. Cardinality(Counted(r, c)) = Cardinality(rest) + r[p]
  BY <1>1, <1>2, <1>5, <1>6
<1> QED
  BY <1>7 DEF rest

\* Moving past partition p = c + 1 removes its slots.
LEMMA CountPopped ==
    ASSUME NEW r \in [Partitions -> Nat], NEW c \in Nat, c + 1 \in Partitions,
           r[c + 1] <= PartitionCapacity
    PROVE  Cardinality(Counted(r, c)) = Cardinality(Counted(r, c + 1)) + r[c + 1]
<1> DEFINE top == r[c + 1]
           block == {c + 1} \X ((0 + 1)..top)
<1>1. top \in Nat /\ 0 \in Nat /\ 0 <= top
  OBVIOUS
<1>2. IsFiniteSet(block) /\ Cardinality(block) = top - 0
  <2> HIDE DEF top
  <2> QED
    BY <1>1, BlockCardinality
<1>3. Counted(r, c) = Counted(r, c + 1) \cup block
  <2>1. ASSUME NEW s \in Counted(r, c) PROVE s \in Counted(r, c + 1) \cup block
    <3>1. PICK q \in Partitions, k \in 1..PartitionCapacity :
            s = <<q, k>> /\ k <= r[q] /\ q > c
      BY <2>1 DEF Counted
    <3>2. q \in Int /\ (q = c + 1 \/ q > c + 1)
      BY <3>1, ConstantFacts
    <3>3. CASE q = c + 1
      BY <3>1, <3>3, ConstantFacts
    <3>4. CASE q > c + 1
      BY <3>1, <3>4 DEF Counted
    <3> QED
      BY <3>2, <3>3, <3>4
  <2>2. ASSUME NEW s \in Counted(r, c + 1) PROVE s \in Counted(r, c)
    BY <2>2, ConstantFacts, SMTT(20) DEF Counted
  <2>3. ASSUME NEW s \in block PROVE s \in Counted(r, c)
    BY <2>3, ConstantFacts, SMTT(20) DEF Counted
  <2> QED
    BY <2>1, <2>2, <2>3
<1>4. Counted(r, c + 1) \cap block = {}
  BY ConstantFacts DEF Counted
<1>5. IsFiniteSet(Counted(r, c + 1))
  BY CountedFinite
<1>6. Cardinality(Counted(r, c + 1)) \in Nat
  BY CountedFinite
<1>7. Cardinality(Counted(r, c)) = Cardinality(Counted(r, c + 1)) + Cardinality(block)
  <2> HIDE DEF block
  <2> QED
    BY <1>2, <1>3, <1>4, <1>5, DisjointUnion
<1> QED
  BY <1>1, <1>2, <1>6, <1>7

-----------------------------------------------------------------------------
(* The inductive invariant.                                                 *)

LEMMA InitReservationInv == Init => ReservationInv
<1> SUFFICES ASSUME Init PROVE ReservationInv
  OBVIOUS
<1> USE DEF Init, OrderedStreamInit, MergerInit
<1>1. TypeOK
  BY ConstantFacts DEF TypeOK, StreamTypeOK, StreamStates, TaskStates
<1>2. WindowInv
  BY ConstantFacts DEF WindowInv
<1>3. LifecycleInv
  BY ConstantFacts DEF LifecycleInv, SenderLive, InWindow, Beyond
<1>4. CoverageInv
  BY ConstantFacts DEF CoverageInv, SenderLive, InWindow
<1>5. CapacityInv
  <2>1. ReservedSlots = {}
    BY ConstantFacts DEF ReservedSlots, Slots
  <2>2. Cardinality(ReservedSlots) = 0
    BY <2>1, FS_EmptySet
  <2> QED
    BY <2>2, ConstantFacts DEF CapacityInv, ReservationsConserved
<1> QED
  BY <1>1, <1>2, <1>3, <1>4, <1>5 DEF ReservationInv

\* A step that moves no slot keeps CapacityInv.
LEMMA CapacityFrame ==
    ASSUME CapacityInv, UNCHANGED <<reserved, consumed, available>>,
           pc' = "cleared" <=> pc = "cleared"
    PROVE  CapacityInv'
  BY DEF CapacityInv, ReservationsConserved, ReservedSlots, Slots

\* A live producer moves to task state t and gives up file reads.
LEMMA TaskStep ==
    ASSUME ReservationInv, NEW p \in Partitions, SenderLive(p),
           NEW t \in TaskStates, NEW kept \in 0..reads[p],
           task' = [task EXCEPT ![p] = t],
           reads' = [reads EXCEPT ![p] = kept],
           cancelled' \in [Partitions -> BOOLEAN],
           UNCHANGED <<state, permits, mergerVars>>
    PROVE  TypeOK' /\ LifecycleInv' /\ CoverageInv'
<1> USE DEF ReservationInv, mergerVars
<1>1. kept \in Nat /\ kept <= reads[p]
  BY DEF TypeOK, StreamTypeOK
<1>2. TypeOK'
  BY <1>1 DEF TypeOK, StreamTypeOK
<1>3. /\ \A q \in Partitions : q # p => task'[q] = task[q] /\ reads'[q] = reads[q]
      /\ task'[p] = t /\ reads'[p] = kept
  BY DEF TypeOK, StreamTypeOK
<1>4. \A q \in Partitions : SenderLive(q)' => SenderLive(q)
  BY <1>3 DEF SenderLive
<1>5. state[p] # "NotStarted" /\ state[p] \notin {"Finishing", "Done"}
  BY DEF LifecycleInv, SenderLive
<1>6. \A k \in 1..Len(completions) : completions[k] \in Partitions
  BY DEF TypeOK
<1>7. LifecycleInv'
  <2>1. ASSUME NEW q \in Partitions
        PROVE  /\ q <= consumed => state[q] = "Done"
               /\ InWindow(q) => state[q] # "NotStarted"
               /\ Beyond(q) => state[q] = "NotStarted" /\ reserved[q] = 0 /\ permits[q] = 0
               /\ state[q] = "NotStarted" =>
                    task'[q] = "none" /\ reads'[q] = 0 /\ maxReads[q] = MaxFileReads(q)
               /\ state[q] \in {"Finishing", "Done"} => ~SenderLive(q)'
    BY <1>3, <1>4, <1>5 DEF LifecycleInv
  <2>2. ASSUME NEW k \in 1..Len(completions)
        PROVE  ~SenderLive(completions[k])' /\ state[completions[k]] # "NotStarted"
    BY <1>4, <1>6 DEF LifecycleInv
  <2> QED
    BY <2>1, <2>2 DEF LifecycleInv, SenderLive, InWindow, Beyond
<1>8. CoverageInv'
  <2>1. ASSUME NEW q \in Partitions, SenderLive(q)'
        PROVE  permits[q] = reserved[q] /\ reads'[q] <= permits[q]
               /\ maxReads[q] = MaxFileReads(q)
    BY <2>1, <1>1, <1>3, <1>4 DEF CoverageInv, TypeOK, StreamTypeOK
  <2> QED
    BY <2>1 DEF CoverageInv, SenderLive, InWindow
<1> QED
  BY <1>2, <1>7, <1>8

\* A notification names a stream that was started and whose producer is over.
LEMMA CompletionAppended ==
    ASSUME NEW p \in Partitions, completions \in Seq(Partitions), SendCompletion(p)
    PROVE  /\ completions' \in Seq(Partitions)
           /\ \A k \in 1..Len(completions') :
                \/ completions'[k] = p
                \/ k \in 1..Len(completions) /\ completions'[k] = completions[k]
  BY DEF SendCompletion

\* A producer task exits and notifies the merger.
LEMMA ExitInv ==
    ASSUME ReservationInv, NEW p \in Partitions, Exit(p)
    PROVE  TypeOK' /\ LifecycleInv' /\ CoverageInv'
<1>1. /\ TypeOK /\ LifecycleInv /\ CoverageInv
      /\ completions \in Seq(Partitions)
  BY DEF ReservationInv, TypeOK
<1>2. /\ completions' \in Seq(Partitions)
      /\ \A k \in 1..Len(completions') :
           \/ completions'[k] = p
           \/ k \in 1..Len(completions) /\ completions'[k] = completions[k]
  BY <1>1, CompletionAppended DEF Exit
<1>3. UNCHANGED <<cancelled, state, out, permits, reads, sent, pc, after, cursor,
                  admitted, available, consumed, reserved, maxReads, delivered>>
  BY DEF Exit
<1>4. /\ task' \in [Partitions -> TaskStates]
      /\ task'[p] \in {"exited", "panicked"}
      /\ \A q \in Partitions : q # p => task'[q] = task[q]
  BY <1>1 DEF Exit, TypeOK, StreamTypeOK, TaskStates
<1>5. ~SenderLive(p)' /\ \A q \in Partitions : SenderLive(q)' => SenderLive(q)
  BY <1>4 DEF SenderLive
<1>6. state[p] # "NotStarted"
  BY <1>1 DEF Exit, LifecycleInv
<1>7. TypeOK'
  BY <1>1, <1>2, <1>3, <1>4 DEF TypeOK, StreamTypeOK
<1>8. LifecycleInv'
  <2>1. ASSUME NEW q \in Partitions
        PROVE  /\ q <= consumed => state[q] = "Done"
               /\ InWindow(q) => state[q] # "NotStarted"
               /\ Beyond(q) => state[q] = "NotStarted" /\ reserved[q] = 0 /\ permits[q] = 0
               /\ state[q] = "NotStarted" =>
                    task'[q] = "none" /\ reads'[q] = 0 /\ maxReads[q] = MaxFileReads(q)
               /\ state[q] \in {"Finishing", "Done"} => ~SenderLive(q)'
    BY <1>1, <1>3, <1>4, <1>5, <1>6 DEF LifecycleInv
  <2>2. ASSUME NEW k \in 1..Len(completions')
        PROVE  ~SenderLive(completions[k])' /\ state[completions'[k]] # "NotStarted"
    <3>1. CASE completions'[k] = p
      BY <3>1, <1>5, <1>6 DEF SenderLive
    <3>2. CASE k \in 1..Len(completions) /\ completions'[k] = completions[k]
      <4>1. completions[k] \in Partitions /\ ~SenderLive(completions[k])
            /\ state[completions[k]] # "NotStarted"
        BY <3>2, <1>1 DEF LifecycleInv
      <4>2. SenderLive(completions[k])' => SenderLive(completions[k])
        BY <3>2, <4>1, <1>5 DEF SenderLive
      <4> QED
        BY <3>2, <4>1, <4>2
    <3> QED
      BY <3>1, <3>2, <1>2
  <2> QED
    BY <2>1, <2>2, <1>3 DEF LifecycleInv, SenderLive, InWindow, Beyond
<1>9. CoverageInv'
  BY <1>1, <1>3, <1>5 DEF CoverageInv, SenderLive, InWindow
<1> QED
  BY <1>7, <1>8, <1>9

\* The steps of a producer.
LEMMA ProducerStepInv ==
    ASSUME ReservationInv, NEW p \in Partitions, ProducerNext(p)
    PROVE  ReservationInv'
<1>1. CapacityInv'
  BY CapacityFrame
     DEF ReservationInv, ProducerNext, AcquireRead, ReleaseRead, SendBatch, FailFirst,
         SendError, Return, ReturnUnread, Panic, Exit, mergerVars
<1>2. WindowInv'
  BY DEF ReservationInv, WindowInv, N, Partitions, ProducerNext, AcquireRead,
         ReleaseRead, SendBatch, FailFirst, SendError, Return, ReturnUnread, Panic,
         Exit, mergerVars
<1>3. reads \in [Partitions -> Nat] /\ cancelled \in [Partitions -> BOOLEAN]
  BY DEF ReservationInv, TypeOK, StreamTypeOK
<1>4. \A scope : Cancel(scope) => cancelled' \in [Partitions -> BOOLEAN]
  BY <1>3, Zenon DEF Cancel
<1>5. TypeOK' /\ LifecycleInv' /\ CoverageInv'
  <2>1. CASE AcquireRead(p)
    BY <2>1 DEF AcquireRead, ReservationInv, TypeOK, StreamTypeOK, LifecycleInv,
                CoverageInv, InWindow, Beyond, SenderLive, mergerVars
  <2>2. CASE ReleaseRead(p)
    <3>1. TypeOK'
      BY <2>2 DEF ReleaseRead, ReservationInv, TypeOK, StreamTypeOK, mergerVars
    <3>2. LifecycleInv'
      BY <2>2 DEF ReleaseRead, ReservationInv, TypeOK, StreamTypeOK, LifecycleInv,
                  InWindow, Beyond, SenderLive, mergerVars
    <3>3. CoverageInv'
      BY <2>2 DEF ReleaseRead, ReservationInv, TypeOK, StreamTypeOK, CoverageInv,
                  LifecycleInv, InWindow, SenderLive, mergerVars
    <3> QED
      BY <3>1, <3>2, <3>3
  <2>3. CASE SendBatch(p)
    BY <2>3 DEF SendBatch, ReservationInv, TypeOK, StreamTypeOK, LifecycleInv,
                CoverageInv, InWindow, Beyond, SenderLive, mergerVars
  <2>4. CASE FailFirst(p)
    <3>1. PICK kept \in 0..reads[p] : reads' = [reads EXCEPT ![p] = kept]
      BY <2>4 DEF FailFirst
    <3>2. SenderLive(p) /\ "failing" \in TaskStates
      BY <2>4 DEF FailFirst, SenderLive, TaskStates
    <3> QED
      BY <2>4, <3>1, <3>2, <1>4, TaskStep DEF FailFirst
  <2>5. CASE SendError(p)
    <3>1. PICK kept \in 0..reads[p] : reads' = [reads EXCEPT ![p] = kept]
      BY <2>5 DEF SendError
    <3>2. SenderLive(p) /\ "closing" \in TaskStates
      BY <2>5 DEF SendError, SenderLive, TaskStates
    <3> QED
      BY <2>5, <3>1, <3>2, <1>3, TaskStep DEF SendError
  <2>6. CASE Return(p)
    <3>1. PICK kept \in 0..reads[p] : reads' = [reads EXCEPT ![p] = kept]
      <4>1. 0 \in 0..reads[p]
        BY <1>3
      <4> QED
        BY <2>6, <4>1 DEF Return
    <3>2. SenderLive(p) /\ "closing" \in TaskStates
      BY <2>6 DEF Return, SenderLive, TaskStates
    <3> QED
      BY <2>6, <3>1, <3>2, <1>3, TaskStep DEF Return
  <2>7. CASE ReturnUnread(p)
    <3>1. PICK kept \in 0..reads[p] : reads' = [reads EXCEPT ![p] = kept]
      BY <2>7 DEF ReturnUnread
    <3>2. SenderLive(p) /\ "closing" \in TaskStates
      BY <2>7 DEF ReturnUnread, SenderLive, TaskStates
    <3> QED
      BY <2>7, <3>1, <3>2, <1>4, TaskStep DEF ReturnUnread
  <2>8. CASE Panic(p)
    <3>1. PICK kept \in 0..reads[p] : reads' = [reads EXCEPT ![p] = kept]
      BY <2>8 DEF Panic
    <3>2. SenderLive(p) /\ "unwinding" \in TaskStates
      BY <2>8 DEF Panic, SenderLive, TaskStates
    <3> QED
      BY <2>8, <3>1, <3>2, <1>3, TaskStep DEF Panic
  <2>9. CASE Exit(p)
    BY <2>9, ExitInv
  <2> QED
    BY <2>1, <2>2, <2>3, <2>4, <2>5, <2>6, <2>7, <2>8, <2>9 DEF ProducerNext
<1> QED
  BY <1>1, <1>2, <1>5 DEF ReservationInv

\* A step that only moves poll_next's control state.
LEMMA ControlStep ==
    ASSUME ReservationInv, WindowInv',
           pc' \in {"idle", "pending", "admit", "reclaim", "front", "ended"},
           pc # "cleared", after' \in {"reclaim", "front"}, cursor' \in Nat,
           UNCHANGED <<cancelled, state, task, permits, reads, admitted, available,
                       consumed, reserved, maxReads, completions>>
    PROVE  ReservationInv'
<1>1. CapacityInv'
  BY CapacityFrame DEF ReservationInv
<1>2. TypeOK'
  BY DEF ReservationInv, TypeOK, StreamTypeOK
<1>3. LifecycleInv' /\ CoverageInv'
  BY DEF ReservationInv, LifecycleInv, CoverageInv, SenderLive, InWindow, Beyond
<1> QED
  BY <1>1, <1>2, <1>3 DEF ReservationInv

\* The front stream moves to state s of a producer that is over.
LEMMA FrontStateStep ==
    ASSUME ReservationInv, WindowInv', consumed < N, state[FrontPartition] # "NotStarted",
           ~SenderLive(FrontPartition), NEW s \in {"Finishing", "Done"},
           state' = [state EXCEPT ![FrontPartition] = s],
           cancelled' \in [Partitions -> BOOLEAN],
           pc \in {"front"}, pc' \in {"front", "idle"},
           UNCHANGED <<task, permits, reads, after, cursor, admitted, available,
                       consumed, reserved, maxReads, completions>>
    PROVE  ReservationInv'
<1>1. CapacityInv'
  BY CapacityFrame DEF ReservationInv
<1>2. FrontPartition \in Partitions /\ FrontPartition > consumed
  BY ConstantFacts DEF ReservationInv, TypeOK, FrontPartition
<1>3. TypeOK'
  BY <1>2 DEF ReservationInv, TypeOK, StreamTypeOK, StreamStates
<1>4. /\ state'[FrontPartition] = s
      /\ \A q \in Partitions : q # FrontPartition => state'[q] = state[q]
  BY <1>2 DEF ReservationInv, TypeOK, StreamTypeOK
<1>5. \A k \in 1..Len(completions) : completions[k] \in Partitions
  BY DEF ReservationInv, TypeOK
<1>6. LifecycleInv'
  <2>1. ASSUME NEW q \in Partitions
        PROVE  /\ q <= consumed => state'[q] = "Done"
               /\ InWindow(q) => state'[q] # "NotStarted"
               /\ Beyond(q) =>
                    state'[q] = "NotStarted" /\ reserved[q] = 0 /\ permits[q] = 0
               /\ state'[q] = "NotStarted" =>
                    task[q] = "none" /\ reads[q] = 0 /\ maxReads[q] = MaxFileReads(q)
               /\ state'[q] \in {"Finishing", "Done"} => ~SenderLive(q)
    <3>1. CASE q = FrontPartition
      <4>1. ~(q <= consumed) /\ ~Beyond(q)
        BY <3>1, <1>2, ConstantFacts DEF ReservationInv, LifecycleInv, TypeOK, FrontPartition
      <4>2. state'[q] = s /\ s # "NotStarted" /\ ~SenderLive(q)
        BY <3>1, <1>4
      <4> QED
        BY <4>1, <4>2
    <3>2. CASE q # FrontPartition
      BY <3>2, <1>4 DEF ReservationInv, LifecycleInv
    <3> QED
      BY <3>1, <3>2
  <2>2. ASSUME NEW k \in 1..Len(completions)
        PROVE  ~SenderLive(completions[k]) /\ state'[completions[k]] # "NotStarted"
    BY <1>4, <1>5 DEF ReservationInv, LifecycleInv
  <2> QED
    BY <2>1, <2>2 DEF LifecycleInv, SenderLive, InWindow, Beyond
<1>7. CoverageInv'
  BY DEF ReservationInv, CoverageInv, SenderLive, InWindow
<1> QED
  BY <1>1, <1>3, <1>6, <1>7 DEF ReservationInv

\* While the queue is not empty and no partition is admitted, a slot is free.
LEMMA AdmitsWhenEmpty ==
    ASSUME ReservationInv, pc # "cleared", admitted = 0
    PROVE  available > 0
<1>1. ReservedSlots = {}
  <2>1. ASSUME NEW s \in ReservedSlots PROVE FALSE
    <3>1. /\ s[1] \in Partitions /\ s[1] > consumed
          /\ s[2] \in 1..PartitionCapacity /\ s[2] <= reserved[s[1]]
      BY DEF ReservedSlots, Slots
    <3>2. Beyond(s[1])
      BY <3>1, ConstantFacts DEF Beyond, ReservationInv, TypeOK
    <3>3. reserved[s[1]] = 0
      BY <3>1, <3>2 DEF ReservationInv, LifecycleInv
    <3> QED
      BY <3>1, <3>3, ConstantFacts
  <2> QED
    BY <2>1
<1>2. Cardinality(ReservedSlots) = 0
  BY <1>1, FS_EmptySet
<1> QED
  BY <1>2, ConstantFacts DEF ReservationInv, CapacityInv, ReservationsConserved, TypeOK

\* One iteration of admit_partitions: p is topped up or started.
LEMMA AdmitOneInv ==
    ASSUME ReservationInv, AdmitOne
    PROVE  ReservationInv'
<1> DEFINE p == FrontPartition + cursor
           additional == Smaller(maxReads[p] - reserved[p], available)
<1>1. TypeOK /\ WindowInv /\ LifecycleInv /\ CoverageInv /\ CapacityInv
  BY DEF ReservationInv
<1>2. /\ cursor \in Nat /\ admitted \in Nat /\ consumed \in Nat /\ available \in Nat
      /\ available > 0 /\ consumed + cursor + 1 <= N /\ pc = "admit"
      /\ cursor = admitted \/ cursor = admitted - 1
  BY <1>1, ConstantFacts DEF AdmitOne, TypeOK, WindowInv, Remaining, FrontPartition
<1>3. p \in Partitions /\ p = consumed + cursor + 1 /\ p > consumed
  BY <1>2, ConstantFacts DEF FrontPartition
<1>4. /\ reserved[p] \in Nat /\ maxReads[p] \in Nat /\ permits[p] \in Nat
      /\ reserved[p] <= maxReads[p] /\ maxReads[p] <= PartitionCapacity
  BY <1>1, <1>3, ConstantFacts DEF TypeOK, StreamTypeOK, CoverageInv
<1>5. /\ additional \in Nat /\ additional <= available
      /\ reserved[p] + additional <= maxReads[p]
      /\ reserved[p] + additional >= 1 \/ maxReads[p] = 0
  BY <1>2, <1>4 DEF Smaller
<1>6. /\ permits' = [permits EXCEPT ![p] = permits[p] + additional]
      /\ reserved' = [reserved EXCEPT ![p] = reserved[p] + additional]
      /\ available' = available - additional
      /\ cursor' = cursor + 1 /\ admitted' = cursor + 1
      /\ UNCHANGED <<cancelled, out, reads, sent, pc, after, consumed, maxReads>>
      /\ Start(p)
      /\ IF state[p] = "NotStarted" /\ cancelled[p]
         THEN SendCompletion(p)
         ELSE UNCHANGED completions
  BY DEF AdmitOne, Admit
<1> HIDE DEF p, additional
<1>7. /\ state' \in [Partitions -> StreamStates] /\ task' \in [Partitions -> TaskStates]
      /\ \A q \in Partitions : q # p => state'[q] = state[q] /\ task'[q] = task[q]
      /\ \/ /\ state[p] # "NotStarted"
            /\ state'[p] = state[p] /\ task'[p] = task[p] /\ completions' = completions
         \/ /\ state[p] = "NotStarted" /\ state'[p] = "Done" /\ task'[p] = task[p]
            /\ SendCompletion(p)
         \/ /\ state[p] = "NotStarted" /\ state'[p] = "Running" /\ task'[p] = "running"
            /\ completions' = completions
  <2>1. state \in [Partitions -> StreamStates] /\ task \in [Partitions -> TaskStates]
    BY <1>1 DEF TypeOK, StreamTypeOK
  <2>2. CASE state[p] # "NotStarted"
    BY <2>1, <2>2, <1>6 DEF Start
  <2>3. CASE state[p] = "NotStarted" /\ cancelled[p]
    BY <2>1, <2>3, <1>3, <1>6 DEF Start, StreamStates
  <2>4. CASE state[p] = "NotStarted" /\ ~cancelled[p]
    BY <2>1, <2>4, <1>3, <1>6 DEF Start, StreamStates, TaskStates
  <2> QED
    BY <2>2, <2>3, <2>4
<1>8. /\ completions' \in Seq(Partitions)
      /\ \A k \in 1..Len(completions') :
           \/ completions'[k] = p /\ state[p] = "NotStarted" /\ state'[p] = "Done"
              /\ task'[p] = task[p]
           \/ k \in 1..Len(completions) /\ completions'[k] = completions[k]
  <2>1. completions \in Seq(Partitions)
    BY <1>1 DEF TypeOK
  <2>2. CASE completions' = completions
    BY <2>1, <2>2
  <2>3. CASE SendCompletion(p) /\ state[p] = "NotStarted" /\ state'[p] = "Done"
             /\ task'[p] = task[p]
    BY <2>1, <2>3, <1>3, CompletionAppended
  <2> QED
    BY <1>7, <2>2, <2>3
<1>9. /\ permits'[p] = permits[p] + additional /\ reserved'[p] = reserved[p] + additional
      /\ \A q \in Partitions : q # p => permits'[q] = permits[q] /\ reserved'[q] = reserved[q]
      /\ permits' \in [Partitions -> Nat] /\ reserved' \in [Partitions -> Nat]
  BY <1>1, <1>3, <1>4, <1>5, <1>6 DEF TypeOK, StreamTypeOK
<1>10. state[p] = "NotStarted" =>
         /\ task[p] = "none" /\ reads[p] = 0 /\ maxReads[p] = MaxFileReads(p)
         /\ reserved[p] = 0 /\ permits[p] = 0
  <2>1. SUFFICES ASSUME state[p] = "NotStarted" PROVE Beyond(p)
    BY <1>1, <1>3 DEF LifecycleInv
  <2>2. ~InWindow(p)
    BY <2>1, <1>1, <1>3 DEF LifecycleInv
  <2> QED
    BY <2>2, <1>2, <1>3 DEF InWindow, Beyond
<1>11. TypeOK'
  BY <1>1, <1>2, <1>5, <1>6, <1>7, <1>8, <1>9 DEF TypeOK, StreamTypeOK
<1>12. WindowInv'
  BY <1>2, <1>6, ConstantFacts DEF WindowInv
<1>13. LifecycleInv'
  <2>1. ASSUME NEW q \in Partitions
        PROVE  /\ q <= consumed => state'[q] = "Done"
               /\ InWindow(q)' => state'[q] # "NotStarted"
               /\ Beyond(q)' =>
                    state'[q] = "NotStarted" /\ reserved'[q] = 0 /\ permits'[q] = 0
               /\ state'[q] = "NotStarted" =>
                    task'[q] = "none" /\ reads[q] = 0 /\ maxReads[q] = MaxFileReads(q)
               /\ state'[q] \in {"Finishing", "Done"} => ~SenderLive(q)'
    <3>1. CASE q = p
      <4>1. ~(q <= consumed) /\ ~Beyond(q)'
        BY <3>1, <1>2, <1>3, <1>6, ConstantFacts DEF Beyond
      <4>2. state'[q] # "NotStarted"
        BY <3>1, <1>7
      <4>3. state'[q] \in {"Finishing", "Done"} => ~SenderLive(q)'
        BY <3>1, <1>1, <1>3, <1>7, <1>10 DEF LifecycleInv, SenderLive
      <4> QED
        BY <4>1, <4>2, <4>3
    <3>2. CASE q # p
      <4>1. InWindow(q)' => InWindow(q)
        BY <3>2, <1>2, <1>3, <1>6, ConstantFacts DEF InWindow
      <4>2. Beyond(q)' => Beyond(q)
        BY <3>2, <1>2, <1>3, <1>6, ConstantFacts DEF Beyond
      <4> QED
        BY <3>2, <4>1, <4>2, <1>1, <1>7, <1>9 DEF LifecycleInv, SenderLive
    <3> QED
      BY <3>1, <3>2
  <2>2. ASSUME NEW k \in 1..Len(completions')
        PROVE  ~SenderLive(completions[k])' /\ state'[completions'[k]] # "NotStarted"
    <3>1. CASE completions'[k] = p /\ state[p] = "NotStarted" /\ state'[p] = "Done"
               /\ task'[p] = task[p]
      BY <3>1, <1>10 DEF SenderLive
    <3>2. CASE k \in 1..Len(completions) /\ completions'[k] = completions[k]
      <4>1. completions[k] \in Partitions /\ ~SenderLive(completions[k])
            /\ state[completions[k]] # "NotStarted"
        BY <3>2, <1>1 DEF LifecycleInv, TypeOK
      <4> QED
        BY <3>2, <4>1, <1>7 DEF SenderLive
    <3> QED
      BY <3>1, <3>2, <1>8
  <2> QED
    BY <2>1, <2>2, <1>6 DEF LifecycleInv, SenderLive, InWindow, Beyond
<1>14. CoverageInv'
  <2>1. ASSUME NEW q \in Partitions
        PROVE  /\ reserved'[q] <= maxReads[q] /\ maxReads[q] <= MaxFileReads(q)
               /\ SenderLive(q)' => /\ permits'[q] = reserved'[q] /\ reads[q] <= permits'[q]
                                    /\ maxReads[q] = MaxFileReads(q)
               /\ InWindow(q)' => reserved'[q] >= 1 \/ maxReads[q] = 0
    <3>1. CASE q = p
      <4>1. SenderLive(q)' => /\ permits[q] = reserved[q] /\ reads[q] <= permits[q]
                              /\ maxReads[q] = MaxFileReads(q)
        BY <3>1, <1>1, <1>3, <1>7, <1>10 DEF CoverageInv, SenderLive
      <4>2. reads[q] \in Nat
        BY <1>1 DEF TypeOK, StreamTypeOK
      <4> QED
        BY <3>1, <4>1, <4>2, <1>1, <1>3, <1>4, <1>5, <1>9 DEF CoverageInv
    <3>2. CASE q # p
      <4>1. InWindow(q)' => InWindow(q)
        BY <3>2, <1>2, <1>3, <1>6, ConstantFacts DEF InWindow
      <4> QED
        BY <3>2, <4>1, <1>1, <1>7, <1>9 DEF CoverageInv, SenderLive
    <3> QED
      BY <3>1, <3>2
  <2> QED
    BY <2>1, <1>6 DEF CoverageInv, SenderLive, InWindow
<1>15. CapacityInv'
  <2>1. reserved \in [Partitions -> Nat]
    BY <1>1 DEF TypeOK
  <2> DEFINE n == reserved[p] + additional
  <2>2. /\ n \in Nat /\ reserved[p] <= n /\ n <= PartitionCapacity
        /\ n - reserved[p] = additional
    BY <1>4, <1>5, ConstantFacts
  <2>3. reserved' = [reserved EXCEPT ![p] = n]
    BY <1>6
  <2> HIDE DEF n
  <2>4. Cardinality(Counted([reserved EXCEPT ![p] = n], consumed))
          = Cardinality(Counted(reserved, consumed)) + (n - reserved[p])
    <3>1. consumed \in Nat /\ p \in Partitions /\ p > consumed
      BY <1>2, <1>3
    <3> QED
      BY <2>1, <2>2, <3>1, CountRaised, Zenon
  <2>5. ReservedSlots' = Counted(reserved', consumed)
    BY <1>6 DEF ReservedSlots, Slots, Counted
  <2>6. /\ Cardinality(ReservedSlots') = Cardinality(ReservedSlots) + additional
        /\ Cardinality(ReservedSlots) \in Nat
    BY <2>2, <2>3, <2>4, <2>5, CountedFinite, ReservedSlotsCounted
  <2>7. Cardinality(ReservedSlots') + available' = Cardinality(ReservedSlots) + available
    BY <2>6, <1>2, <1>5, <1>6
  <2> QED
    BY <2>7, <1>1, <1>6 DEF CapacityInv, ReservationsConserved
<1> QED
  BY <1>11, <1>12, <1>13, <1>14, <1>15 DEF ReservationInv

\* One iteration of reclaim_completed.
LEMMA ReclaimOneInv ==
    ASSUME ReservationInv, ReclaimOne
    PROVE  ReservationInv'
<1> DEFINE p == Head(completions)
<1>1. TypeOK /\ WindowInv /\ LifecycleInv /\ CoverageInv /\ CapacityInv
  BY DEF ReservationInv
<1>2. /\ completions \in Seq(Partitions) /\ completions # <<>>
      /\ completions' = Tail(completions) /\ pc = "reclaim"
      /\ UNCHANGED <<streamVars, pc, after, cursor, admitted, consumed>>
      /\ IF p > consumed
         THEN /\ available' = available + reserved[p]
              /\ reserved' = [reserved EXCEPT ![p] = 0]
              /\ maxReads' = [maxReads EXCEPT ![p] = 0]
         ELSE UNCHANGED <<available, reserved, maxReads>>
  BY <1>1 DEF ReclaimOne, TypeOK
<1>3. /\ p \in Partitions /\ 1 \in 1..Len(completions) /\ p = completions[1]
      /\ completions' \in Seq(Partitions)
      /\ \A k \in 1..Len(completions') :
           k + 1 \in 1..Len(completions) /\ completions'[k] = completions[k + 1]
  BY <1>2
<1>4. ~SenderLive(p) /\ state[p] # "NotStarted"
  BY <1>1, <1>3 DEF LifecycleInv
<1> HIDE DEF p
<1>5. reserved \in [Partitions -> Nat] /\ maxReads \in [Partitions -> Nat] /\ available \in Nat
  BY <1>1 DEF TypeOK
<1>6. /\ reserved' \in [Partitions -> Nat] /\ maxReads' \in [Partitions -> Nat]
      /\ available' \in Nat
      /\ \A q \in Partitions :
           \/ reserved'[q] = reserved[q] /\ maxReads'[q] = maxReads[q]
           \/ q = p /\ reserved'[q] = 0 /\ maxReads'[q] = 0
  <2>1. CASE p > consumed
    <3>1. /\ available' = available + reserved[p] /\ reserved[p] \in Nat
          /\ reserved' = [reserved EXCEPT ![p] = 0]
          /\ maxReads' = [maxReads EXCEPT ![p] = 0]
      BY <2>1, <1>2, <1>3, <1>5
    <3> QED
      BY <3>1, <1>3, <1>5
  <2>2. CASE ~(p > consumed)
    BY <2>2, <1>2, <1>5
  <2> QED
    BY <2>1, <2>2
<1>7. TypeOK'
  BY <1>1, <1>2, <1>3, <1>6 DEF TypeOK, StreamTypeOK, streamVars
<1>8. WindowInv'
  BY <1>1, <1>2 DEF WindowInv
<1>9. LifecycleInv'
  <2>1. ASSUME NEW q \in Partitions
        PROVE  /\ q <= consumed => state[q] = "Done"
               /\ InWindow(q) => state[q] # "NotStarted"
               /\ Beyond(q) => state[q] = "NotStarted" /\ reserved'[q] = 0 /\ permits[q] = 0
               /\ state[q] = "NotStarted" =>
                    task[q] = "none" /\ reads[q] = 0 /\ maxReads'[q] = MaxFileReads(q)
               /\ state[q] \in {"Finishing", "Done"} => ~SenderLive(q)
    BY <1>1, <1>4, <1>6 DEF LifecycleInv
  <2>2. ASSUME NEW k \in 1..Len(completions')
        PROVE  ~SenderLive(completions[k])' /\ state[completions'[k]] # "NotStarted"
    <3>1. ~SenderLive(completions[k + 1]) /\ state[completions[k + 1]] # "NotStarted"
      BY <1>1, <1>3 DEF LifecycleInv
    <3> QED
      BY <3>1, <1>2, <1>3 DEF SenderLive, streamVars
  <2> QED
    BY <2>1, <2>2, <1>2 DEF LifecycleInv, SenderLive, InWindow, Beyond, streamVars
<1>10. CoverageInv'
  <2>1. ASSUME NEW q \in Partitions
        PROVE  /\ reserved'[q] <= maxReads'[q] /\ maxReads'[q] <= MaxFileReads(q)
               /\ SenderLive(q) => /\ permits[q] = reserved'[q] /\ reads[q] <= permits[q]
                                   /\ maxReads'[q] = MaxFileReads(q)
               /\ InWindow(q) => reserved'[q] >= 1 \/ maxReads'[q] = 0
    <3>1. MaxFileReads(q) \in Nat
      BY ConstantFacts
    <3> QED
      BY <3>1, <1>1, <1>4, <1>6 DEF CoverageInv
  <2> QED
    BY <2>1, <1>2 DEF CoverageInv, SenderLive, InWindow, streamVars
<1>11. CapacityInv'
  <2>1. CASE p > consumed
    <3>1. reserved' \in [Partitions -> Nat] /\ reserved' = [reserved EXCEPT ![p] = 0]
          /\ available' = available + reserved[p]
      BY <2>1, <1>2, <1>6
    <3>2. reserved[p] \in Nat /\ reserved[p] <= PartitionCapacity /\ consumed \in Nat
      <4>1. /\ reserved[p] \in Nat /\ maxReads[p] \in Nat /\ MaxFileReads(p) \in 0..PartitionCapacity
            /\ reserved[p] <= maxReads[p] /\ maxReads[p] <= MaxFileReads(p)
        BY <1>1, <1>3, <1>5, ConstantFacts DEF CoverageInv
      <4>2. consumed \in Nat
        BY <1>1, ConstantFacts DEF TypeOK
      <4> QED
        BY <4>1, <4>2, ConstantFacts
    <3>3. Cardinality(Counted(reserved, consumed))
            = Cardinality(Counted([reserved EXCEPT ![p] = 0], consumed)) + reserved[p]
      BY <2>1, <3>2, <1>3, <1>5, CountCleared, Zenon
    <3>4. ReservedSlots' = Counted(reserved', consumed)
      BY <1>2 DEF ReservedSlots, Slots, Counted
    <3>5. Cardinality(ReservedSlots) = Cardinality(ReservedSlots') + reserved[p]
          /\ Cardinality(ReservedSlots') \in Nat
      BY <3>1, <3>3, <3>4, CountedFinite, ReservedSlotsCounted
    <3>6. Cardinality(ReservedSlots') + available' = Cardinality(ReservedSlots) + available
      BY <3>1, <3>2, <3>5, <1>5
    <3> QED
      BY <3>6, <1>1, <1>2 DEF CapacityInv, ReservationsConserved
  <2>2. CASE ~(p > consumed)
    BY <2>2, <1>1, <1>2, CapacityFrame
  <2> QED
    BY <2>1, <2>2
<1> QED
  BY <1>7, <1>8, <1>9, <1>10, <1>11 DEF ReservationInv

\* The front partition is popped and its reservation returned.
LEMMA PopFrontInv ==
    ASSUME ReservationInv, PopFront
    PROVE  ReservationInv'
<1>1. TypeOK /\ WindowInv /\ LifecycleInv /\ CoverageInv /\ CapacityInv
  BY DEF ReservationInv
<1>2. /\ consumed \in Nat /\ admitted \in Nat /\ available \in Nat /\ consumed < N
      /\ pc = "front" /\ admitted >= 1 /\ consumed + admitted <= N
      /\ FrontPartition = consumed + 1 /\ FrontPartition \in Partitions /\ FrontPartition > consumed
  BY <1>1, ConstantFacts DEF PopFront, TypeOK, WindowInv, FrontPartition
<1>3. /\ state' = [state EXCEPT ![FrontPartition] = "Done"]
      /\ consumed' = consumed + 1 /\ admitted' = admitted - 1
      /\ available' = available + reserved[FrontPartition]
      /\ pc' = "admit" /\ after' = "reclaim"
      /\ cursor' = IF admitted - 1 = 0 THEN 0 ELSE admitted - 1 - 1
      /\ UNCHANGED <<cancelled, task, out, permits, reads, sent, reserved, maxReads,
                     completions>>
  BY DEF PopFront, EnterAdmit
<1>4. /\ state'[FrontPartition] = "Done"
      /\ \A q \in Partitions : q # FrontPartition => state'[q] = state[q]
      /\ state' \in [Partitions -> StreamStates]
  BY <1>1, <1>2, <1>3 DEF TypeOK, StreamTypeOK, StreamStates
<1>5. ~SenderLive(FrontPartition)
  BY <1>1, <1>2 DEF PopFront, AtEnd, LifecycleInv
<1>6. reserved[FrontPartition] \in Nat /\ reserved[FrontPartition] <= PartitionCapacity
  BY <1>1, <1>2, ConstantFacts DEF TypeOK, CoverageInv
<1>7. TypeOK'
  <2>1. available' \in Nat /\ consumed' \in 0..N /\ admitted' \in Nat /\ cursor' \in Nat
    <3>1. admitted - 1 \in Nat /\ (admitted - 1 # 0 => admitted - 1 - 1 \in Nat)
      BY <1>2
    <3> QED
      BY <3>1, <1>2, <1>3, <1>6, ConstantFacts
  <2> QED
    BY <2>1, <1>1, <1>3, <1>4 DEF TypeOK, StreamTypeOK
<1>8. WindowInv'
  BY <1>2, <1>3 DEF WindowInv
<1>9. \A q \in Partitions : /\ InWindow(q)' => InWindow(q) /\ q # FrontPartition
                            /\ Beyond(q)' => Beyond(q) /\ q # FrontPartition
  <2>1. \A q \in Partitions : q \in Int
    BY ConstantFacts
  <2>2. (consumed + 1) + (admitted - 1) = consumed + admitted
    BY <1>2
  <2> QED
    BY <2>1, <2>2, <1>2, <1>3, SMTT(20) DEF InWindow, Beyond
<1>10. LifecycleInv'
  <2>1. ASSUME NEW q \in Partitions
        PROVE  /\ q <= consumed + 1 => state'[q] = "Done"
               /\ InWindow(q)' => state'[q] # "NotStarted"
               /\ Beyond(q)' => state'[q] = "NotStarted" /\ reserved[q] = 0 /\ permits[q] = 0
               /\ state'[q] = "NotStarted" =>
                    task[q] = "none" /\ reads[q] = 0 /\ maxReads[q] = MaxFileReads(q)
               /\ state'[q] \in {"Finishing", "Done"} => ~SenderLive(q)
    <3>1. CASE q = FrontPartition
      BY <3>1, <1>4, <1>5, <1>9
    <3>2. CASE q # FrontPartition
      <4>1. q <= consumed + 1 => q <= consumed
        BY <3>2, <1>2, ConstantFacts
      <4> QED
        BY <3>2, <4>1, <1>1, <1>4, <1>9 DEF LifecycleInv
    <3> QED
      BY <3>1, <3>2
  <2>2. ASSUME NEW k \in 1..Len(completions)
        PROVE  ~SenderLive(completions[k]) /\ state'[completions[k]] # "NotStarted"
    <3>1. completions[k] \in Partitions
      BY <1>1 DEF TypeOK
    <3> QED
      BY <3>1, <1>1, <1>4 DEF LifecycleInv
  <2> QED
    BY <2>1, <2>2, <1>3 DEF LifecycleInv, SenderLive, InWindow, Beyond
<1>11. CoverageInv'
  BY <1>1, <1>3, <1>9 DEF CoverageInv, SenderLive
<1>12. CapacityInv'
  <2>1. reserved \in [Partitions -> Nat] /\ consumed + 1 \in Partitions
        /\ reserved[consumed + 1] <= PartitionCapacity
    BY <1>1, <1>2, <1>6 DEF TypeOK
  <2>2. Cardinality(Counted(reserved, consumed))
          = Cardinality(Counted(reserved, consumed + 1)) + reserved[consumed + 1]
    BY <2>1, <1>2, CountPopped
  <2>3. ReservedSlots' = Counted(reserved, consumed + 1)
    BY <1>3 DEF ReservedSlots, Slots, Counted
  <2>4. /\ Cardinality(ReservedSlots) = Cardinality(ReservedSlots') + reserved[FrontPartition]
        /\ Cardinality(ReservedSlots') \in Nat
    BY <2>2, <2>3, <1>2, CountedFinite, ReservedSlotsCounted
  <2>5. Cardinality(ReservedSlots') + available' = Cardinality(ReservedSlots) + available
    BY <2>4, <1>2, <1>3, <1>6
  <2> QED
    BY <2>5, <1>1, <1>2, <1>3 DEF CapacityInv, ReservationsConserved
<1> QED
  BY <1>7, <1>8, <1>10, <1>11, <1>12 DEF ReservationInv

\* clear() drops every queued stream.
LEMMA ClearInv ==
    ASSUME ReservationInv, Clear
    PROVE  ReservationInv'
<1>1. TypeOK /\ WindowInv /\ LifecycleInv /\ CoverageInv /\ CapacityInv
  BY DEF ReservationInv
<1>2. /\ pc' = "cleared" /\ admitted' = 0 /\ available' = 0 /\ completions' = <<>>
      /\ UNCHANGED <<after, cursor, consumed, reserved, maxReads, task, permits, reads>>
  BY DEF Clear, DropStreams
<1>3. state' = [q \in Partitions |->
                  IF q \in {p \in Partitions : p > consumed} /\ state[q] # "Done"
                  THEN "Dropped" ELSE state[q]]
  BY DEF Clear, DropStreams
<1>4. cancelled' \in [Partitions -> BOOLEAN]
  <2>1. cancelled \in [Partitions -> BOOLEAN]
    BY <1>1 DEF TypeOK, StreamTypeOK
  <2> QED
    BY <2>1, Zenon DEF Clear, DropStreams, Cancel
<1>5. consumed \in Nat
  BY <1>1, ConstantFacts DEF TypeOK
<1>6. /\ \A q \in Partitions : /\ q <= consumed => state'[q] = "Done"
                               /\ state'[q] # "NotStarted"
                               /\ state'[q] \in {"Finishing", "Done"} => state[q] = "Done"
      /\ state' \in [Partitions -> StreamStates]
  BY <1>1, <1>3, <1>5, ConstantFacts DEF LifecycleInv, TypeOK, StreamTypeOK, StreamStates
<1>7. TypeOK'
  BY <1>1, <1>2, <1>4, <1>6 DEF TypeOK, StreamTypeOK
<1>8. WindowInv'
  BY <1>1, <1>2, <1>5 DEF WindowInv, TypeOK
<1>9. LifecycleInv'
  BY <1>1, <1>2, <1>6 DEF LifecycleInv, SenderLive, InWindow, Beyond
<1>10. CoverageInv'
  BY <1>1, <1>2 DEF CoverageInv, SenderLive, InWindow
<1>11. CapacityInv'
  <2>1. ReservedSlots' = ReservedSlots
    BY <1>2 DEF ReservedSlots, Slots
  <2>2. Cardinality(ReservedSlots) \in Nat /\ available \in Nat
    BY <1>1, CountedFinite, ReservedSlotsCounted DEF TypeOK
  <2> QED
    BY <2>1, <2>2, <1>1, <1>2, ConstantFacts DEF CapacityInv, ReservationsConserved
<1> QED
  BY <1>7, <1>8, <1>9, <1>10, <1>11 DEF ReservationInv

\* The steps of the merger.
LEMMA MergerStepInv ==
    ASSUME ReservationInv, MergerNext
    PROVE  ReservationInv'
<1>1. TypeOK /\ WindowInv /\ LifecycleInv
  BY DEF ReservationInv
<1>2. /\ consumed \in Nat /\ admitted \in Nat /\ cursor \in Nat /\ N \in Nat
      /\ after \in {"reclaim", "front"} /\ consumed + admitted <= N
  BY <1>1, ConstantFacts DEF TypeOK, WindowInv
<1>3. CASE PollNext
  <2>1. CASE admitted = 0
    <3>1. pc' = "admit" /\ cursor' = 0 /\ after' = "reclaim"
      BY <1>3, <2>1 DEF PollNext, EnterAdmit
    <3>2. WindowInv'
      BY <1>2, <1>3, <2>1, <3>1 DEF PollNext, WindowInv
    <3> QED
      BY <1>3, <3>1, <3>2, ControlStep DEF PollNext, streamVars
  <2>2. CASE admitted # 0
    <3>1. pc' = "reclaim" /\ UNCHANGED <<after, cursor>>
      BY <1>3, <2>2 DEF PollNext
    <3>2. WindowInv'
      BY <1>2, <1>3, <2>2, <3>1 DEF PollNext, WindowInv
    <3> QED
      BY <1>2, <1>3, <3>1, <3>2, ControlStep DEF PollNext, streamVars
  <2> QED
    BY <2>1, <2>2
<1>4. CASE AdmitOne
  BY <1>4, AdmitOneInv
<1>5. CASE AdmitDone
  <2>1. consumed < N => admitted >= 1
    <3>1. SUFFICES ASSUME consumed < N, admitted = 0 PROVE FALSE
      BY <1>2
    <3>2. available > 0 /\ available \in Nat
      BY <1>5, <3>1, <1>1, AdmitsWhenEmpty DEF AdmitDone, TypeOK
    <3>3. cursor = 0
      BY <1>1, <1>2, <1>5, <3>1 DEF AdmitDone, WindowInv
    <3> QED
      BY <1>2, <1>5, <3>1, <3>2, <3>3 DEF AdmitDone, Remaining
  <2>2. WindowInv'
    BY <2>1, <1>2, <1>5 DEF AdmitDone, WindowInv
  <2> QED
    BY <1>2, <1>5, <2>2, ControlStep DEF AdmitDone, streamVars
<1>6. CASE ReclaimOne
  BY <1>6, ReclaimOneInv
<1>7. CASE ReclaimDone
  <2>1. consumed < N => admitted >= 1
    BY <1>1, <1>7 DEF ReclaimDone, WindowInv
  <2>2. /\ pc' \in {"admit", "front"} /\ after' \in {"reclaim", "front"} /\ cursor' \in Nat
        /\ pc' = "admit" => cursor' = IF admitted = 0 THEN 0 ELSE admitted - 1
    BY <1>2, <1>7 DEF ReclaimDone, EnterAdmit
  <2>3. WindowInv'
    BY <2>1, <2>2, <1>2, <1>7 DEF ReclaimDone, WindowInv
  <2> QED
    BY <1>7, <2>2, <2>3, ControlStep DEF ReclaimDone, streamVars
<1>8. CASE YieldItem
  <2>1. WindowInv'
    BY <1>2, <1>8 DEF YieldItem, WindowInv
  <2> QED
    BY <1>2, <1>8, <2>1, ControlStep DEF YieldItem, Receive
<1>9. CASE FrontClosed
  <2>1. WindowInv'
    BY <1>1, <1>9 DEF FrontClosed, WindowInv, mergerVars
  <2>2. cancelled' \in [Partitions -> BOOLEAN]
    BY <1>1, <1>9 DEF FrontClosed, ReceiveClosed, TypeOK, StreamTypeOK
  <2> QED
    BY <1>9, <2>1, <2>2, FrontStateStep DEF FrontClosed, ReceiveClosed, mergerVars
<1>10. CASE YieldPanic
  <2>1. WindowInv'
    BY <1>2, <1>10 DEF YieldPanic, WindowInv
  <2>2. cancelled' \in [Partitions -> BOOLEAN]
    <3>1. cancelled \in [Partitions -> BOOLEAN]
      BY <1>1 DEF TypeOK, StreamTypeOK
    <3> QED
      BY <1>10, <3>1, Zenon DEF YieldPanic, JoinReportsPanic, Cancel
  <2>3. ~SenderLive(FrontPartition) /\ state[FrontPartition] # "NotStarted"
    BY <1>10 DEF YieldPanic, JoinReportsPanic, SenderLive
  <2> QED
    BY <1>10, <2>1, <2>2, <2>3, FrontStateStep DEF YieldPanic, JoinReportsPanic
<1>11. CASE YieldPending
  <2>1. WindowInv'
    BY <1>1, <1>11 DEF YieldPending, WindowInv
  <2> QED
    BY <1>2, <1>11, <2>1, ControlStep DEF YieldPending, streamVars
<1>12. CASE PopFront
  BY <1>12, PopFrontInv
<1>13. CASE YieldEnd
  <2>1. WindowInv'
    BY <1>2, <1>13 DEF YieldEnd, WindowInv
  <2> QED
    BY <1>2, <1>13, <2>1, ControlStep DEF YieldEnd, streamVars
<1>14. CASE Clear
  BY <1>14, ClearInv
<1> QED
  BY <1>3, <1>4, <1>5, <1>6, <1>7, <1>8, <1>9, <1>10, <1>11, <1>12, <1>13, <1>14
     DEF MergerNext

LEMMA StutterInv ==
    ASSUME ReservationInv, UNCHANGED vars
    PROVE  ReservationInv'
<1> USE DEF vars, streamVars, mergerVars
<1>1. CapacityInv'
  BY CapacityFrame DEF ReservationInv
<1>2. TypeOK' /\ WindowInv'
  BY DEF ReservationInv, TypeOK, StreamTypeOK, WindowInv
<1>3. LifecycleInv' /\ CoverageInv'
  BY DEF ReservationInv, LifecycleInv, CoverageInv, SenderLive, InWindow, Beyond
<1> QED
  BY <1>1, <1>2, <1>3 DEF ReservationInv

-----------------------------------------------------------------------------
(* The theorems.                                                            *)

\* The merger's inductive invariant holds for every plan, every partition
\* count and every legal combination of limits: every step of poll_next,
\* reclaim_completed, admit_partitions, clear and of the producers keeps it.
THEOREM ReservationInvariant == Spec => []ReservationInv
<1>1. Init => ReservationInv
  BY InitReservationInv
<1>2. ReservationInv /\ [Next]_vars => ReservationInv'
  <2> SUFFICES ASSUME ReservationInv, [Next]_vars PROVE ReservationInv'
    OBVIOUS
  <2>1. CASE MergerNext
    BY <2>1, MergerStepInv
  <2>2. CASE \E p \in Partitions : ProducerNext(p)
    BY <2>2, ProducerStepInv
  <2>3. CASE Finished \/ UNCHANGED vars
    BY <2>3, StutterInv DEF Finished
  <2> QED
    BY <2>1, <2>2, <2>3 DEF Next
<1> QED
  BY <1>1, <1>2, PTL DEF Spec

\* Type correctness: in particular available_file_reads, admitted and the
\* admission cursor, which the code decrements as usize, never go below zero.
THEOREM TypeCorrect == Spec => []TypeOK
<1>1. ReservationInv => TypeOK
  BY DEF ReservationInv
<1> QED
  BY <1>1, ReservationInvariant, PTL

\* The free slots and the reservations of the queued partitions add up to the
\* scan's capacity at every step of admission, reclamation and consumption.
THEOREM ReservationsNeverLeak == Spec => []ReservationsConserved
<1>1. ReservationInv => ReservationsConserved
  BY DEF ReservationInv, CapacityInv
<1> QED
  BY <1>1, ReservationInvariant, PTL

\* The reads of live producers never exceed the scan's capacity, so a file
\* read that holds its partition permit is never left waiting for a scan
\* permit that a later, backpressured partition holds.
THEOREM ReadsFitCapacity == Spec => []ScanPermitsSuffice
<1>1. ReservationInv => ScanPermitsSuffice
  <2> SUFFICES ASSUME ReservationInv PROVE ScanPermitsSuffice
    OBVIOUS
  <2>1. LiveReads \subseteq ReservedSlots
    <3>1. ASSUME NEW s \in LiveReads PROVE s \in ReservedSlots
      <4>1. /\ s \in Partitions \X (1..PartitionCapacity) /\ s[1] \in Partitions
            /\ s[2] \in 1..PartitionCapacity
            /\ s[2] <= reads[s[1]] /\ SenderLive(s[1])
        BY DEF LiveReads, Slots
      <4>2. reads[s[1]] <= reserved[s[1]]
        BY <4>1 DEF ReservationInv, CoverageInv
      <4>3. s[1] > consumed
        <5>1. state[s[1]] # "Done"
          BY <4>1 DEF ReservationInv, LifecycleInv
        <5>2. ~(s[1] <= consumed)
          BY <5>1, <4>1 DEF ReservationInv, LifecycleInv
        <5> QED
          BY <5>2, <4>1, ConstantFacts DEF ReservationInv, TypeOK
      <4>4. reads[s[1]] \in Nat /\ reserved[s[1]] \in Nat
        BY <4>1 DEF ReservationInv, TypeOK, StreamTypeOK
      <4>5. s[2] <= reserved[s[1]]
        BY <4>1, <4>2, <4>4, ConstantFacts
      <4> QED
        BY <4>1, <4>3, <4>5 DEF ReservedSlots, Slots
    <3> QED
      BY <3>1
  <2>2. IsFiniteSet(ReservedSlots) /\ Cardinality(ReservedSlots) \in Nat
    BY CountedFinite, ReservedSlotsCounted
  <2>3. /\ Cardinality(LiveReads) <= Cardinality(ReservedSlots)
        /\ Cardinality(LiveReads) \in Nat
    BY <2>1, <2>2, FS_Subset, FS_CardinalityType
  <2> QED
    BY <2>2, <2>3, ConstantFacts
       DEF ReservationInv, CapacityInv, TypeOK, ScanPermitsSuffice
<1> QED
  BY <1>1, ReservationInvariant, PTL

\* Whenever poll_next polls its front partition, that partition has been
\* admitted: `admitted -= 1` cannot wrap, and a producer with files to read
\* has been issued a permit, so the consumer never waits for a partition that
\* cannot start reading.
THEOREM PolledPartitionAdmitted == Spec => []FrontAdmitted
<1>1. ReservationInv => FrontAdmitted
  <2> SUFFICES ASSUME ReservationInv, pc \in {"front", "pending"}, consumed < N
               PROVE  /\ admitted >= 1 /\ state[FrontPartition] # "NotStarted"
                      /\ task[FrontPartition] = "running" /\ FileTasks[FrontPartition] # <<>> =>
                           permits[FrontPartition] >= 1
    BY DEF FrontAdmitted
  <2>1. /\ consumed \in Nat /\ admitted \in Nat /\ admitted >= 1
        /\ FrontPartition \in Partitions /\ InWindow(FrontPartition)
    BY ConstantFacts DEF ReservationInv, TypeOK, WindowInv, InWindow, FrontPartition
  <2>2. state[FrontPartition] # "NotStarted"
    BY <2>1 DEF ReservationInv, LifecycleInv
  <2>3. ASSUME task[FrontPartition] = "running", FileTasks[FrontPartition] # <<>>
        PROVE  permits[FrontPartition] >= 1
    <3>1. SenderLive(FrontPartition)
      BY <2>3 DEF SenderLive
    <3>2. MaxFileReads(FrontPartition) >= 1
      BY <2>1, <2>3, ConstantFacts
    <3> QED
      BY <2>1, <3>1, <3>2 DEF ReservationInv, CoverageInv
  <2> QED
    BY <2>1, <2>2, <2>3
<1> QED
  BY <1>1, ReservationInvariant, PTL

-----------------------------------------------------------------------------
(* No slot idles.                                                           *)

\* A step of a producer tells the merger of a completion or nothing at all.
LEMMA ProducerKeepsUse ==
    ASSUME UseInv, NEW p \in Partitions, ProducerNext(p)
    PROVE  UseInv'
<1>1. /\ UNCHANGED <<pc, cursor, admitted, available, consumed, reserved, maxReads>>
      /\ ~NotifiesCompletion => completions' = completions
  BY DEF ProducerNext, AcquireRead, ReleaseRead, SendBatch, FailFirst, SendError, Return,
         ReturnUnread, Panic, Exit, SendCompletion, mergerVars
<1>2. Settled' <=> Settled
  BY <1>1 DEF Settled, Remaining, FrontPartition
<1> QED
  BY <1>1, <1>2 DEF UseInv, SlotsInUse

\* One admission: the partition that was last before had all its slots, and the
\* one that is last now takes what it lacks of what is left.
LEMMA AdmitOneKeepsUse ==
    ASSUME ReservationInv, UseInv, AdmitOne
    PROVE  UseInv'
<1> DEFINE p == FrontPartition + cursor
           additional == Smaller(maxReads[p] - reserved[p], available)
<1>1. TypeOK /\ WindowInv /\ CoverageInv
  BY DEF ReservationInv
<1>2. /\ cursor \in Nat /\ admitted \in Nat /\ consumed \in Nat /\ available \in Nat
      /\ available > 0 /\ consumed + cursor + 1 <= N /\ pc = "admit"
      /\ cursor = admitted \/ cursor = admitted - 1
  BY <1>1, ConstantFacts DEF AdmitOne, TypeOK, WindowInv, Remaining, FrontPartition
<1>3. p \in Partitions /\ p = consumed + cursor + 1
  BY <1>2, ConstantFacts DEF FrontPartition
<1>4. reserved[p] \in Nat /\ maxReads[p] \in Nat /\ reserved[p] <= maxReads[p]
  BY <1>1, <1>3 DEF TypeOK, CoverageInv
<1>5. /\ additional \in Nat
      /\ additional = available \/ reserved[p] + additional = maxReads[p]
  BY <1>2, <1>4 DEF Smaller
<1>6. /\ reserved' = [reserved EXCEPT ![p] = reserved[p] + additional]
      /\ available' = available - additional
      /\ cursor' = cursor + 1 /\ admitted' = cursor + 1
      /\ UNCHANGED <<pc, consumed, maxReads>>
      /\ ~NotifiesCompletion => completions' = completions
  BY DEF AdmitOne, Admit, SendCompletion
<1> HIDE DEF p, additional
<1>7. ASSUME NEW q \in Partitions, consumed < q, q < consumed' + admitted'
      PROVE  reserved'[q] = maxReads'[q]
  <2>1. q < p /\ q \in Nat
    BY <1>2, <1>3, <1>6, <1>7, ConstantFacts, SMTT(20)
  <2>2. reserved'[q] = reserved[q] /\ maxReads'[q] = maxReads[q]
    BY <1>1, <1>3, <1>6, <2>1 DEF TypeOK
  <2>3. CASE q < consumed + admitted
    BY <1>7, <2>2, <2>3 DEF UseInv
  <2>4. CASE q = consumed + admitted
    BY <1>2, <1>3, <1>7, <2>1, <2>2, <2>4 DEF UseInv
  <2> QED
    BY <1>2, <1>3, <2>1, <2>3, <2>4
<1>8. reserved'[consumed' + admitted'] = maxReads'[consumed' + admitted'] \/ available' = 0
  <2>1. consumed' + admitted' = p
    BY <1>2, <1>3, <1>6
  <2>2. reserved'[p] = reserved[p] + additional /\ maxReads'[p] = maxReads[p]
    BY <1>1, <1>3, <1>6 DEF TypeOK
  <2> QED
    BY <1>2, <1>5, <1>6, <2>1, <2>2
<1> QED
  BY <1>2, <1>6, <1>7, <1>8 DEF UseInv, SlotsInUse

\* When admit_partitions returns, every slot that could be used is reserved.
LEMMA AdmitDoneKeepsUse ==
    ASSUME ReservationInv, UseInv, AdmitDone
    PROVE  UseInv'
<1>1. /\ UNCHANGED <<cursor, admitted, available, consumed, reserved, maxReads, completions>>
      /\ pc = "admit" /\ (available = 0 \/ cursor >= Remaining)
  BY DEF AdmitDone
<1>2. /\ cursor \in Nat /\ admitted \in Nat /\ consumed \in Nat /\ available \in Nat
      /\ N \in Nat /\ consumed + admitted <= N
      /\ cursor = admitted \/ cursor = admitted - 1
      /\ \A p \in Partitions : reserved[p] \in Nat /\ maxReads[p] \in Nat
  BY <1>1, ConstantFacts DEF ReservationInv, TypeOK, WindowInv
<1>3. available > 0 => cursor = admitted /\ admitted = Remaining
  BY <1>1, <1>2 DEF Remaining
<1>4. ASSUME NEW p \in FrontPartition..(consumed + admitted), reserved[p] < maxReads[p]
      PROVE  p = consumed + admitted /\ available = 0
  <2>1. p \in Partitions /\ consumed < p /\ p <= consumed + admitted /\ admitted >= 1
    BY <1>2, ConstantFacts DEF FrontPartition
  <2>2. p = consumed + admitted
    BY <1>2, <1>4, <2>1 DEF UseInv
  <2>3. available = 0
    <3>1. SUFFICES ASSUME available > 0 PROVE FALSE
      BY <1>2
    <3>2. reserved[consumed + admitted] = maxReads[consumed + admitted]
      BY <1>1, <1>3, <2>1, <3>1 DEF UseInv
    <3> QED
      BY <1>2, <1>4, <2>1, <2>2, <3>2
  <2> QED
    BY <2>2, <2>3
<1>5. Settled
  BY <1>3, <1>4 DEF Settled
<1>6. Settled'
  BY <1>1, <1>5 DEF Settled, Remaining, FrontPartition
<1>7. pc' # "admit"
  BY DEF AdmitDone, ReservationInv, TypeOK
<1> QED
  BY <1>1, <1>6, <1>7 DEF UseInv, SlotsInUse

\* The steps between admissions.
LEMMA PollKeepsUse ==
    ASSUME ReservationInv, UseInv,
           \/ PollNext \/ ReclaimDone \/ YieldItem \/ FrontClosed \/ YieldPanic
           \/ YieldPending \/ YieldEnd
    PROVE  UseInv'
<1>1. UNCHANGED <<admitted, available, consumed, reserved, maxReads, completions>>
  BY DEF PollNext, ReclaimDone, YieldItem, FrontClosed, YieldPanic, YieldPending, YieldEnd,
         mergerVars
<1>2. Settled' <=> Settled
  BY <1>1 DEF Settled, Remaining, FrontPartition
<1>3. admitted \in Nat
  BY DEF ReservationInv, TypeOK
<1>4. CASE PollNext
  <2>1. pc' = "admit" => cursor' = 0 /\ admitted = 0
    BY <1>4 DEF PollNext, EnterAdmit
  <2>2. pc' = "admit" \/ (pc' = "reclaim" /\ admitted > 0 /\ pc \in {"idle", "pending"})
    BY <1>3, <1>4 DEF PollNext, EnterAdmit
  <2> QED
    BY <1>1, <1>2, <1>3, <2>1, <2>2 DEF UseInv, SlotsInUse
<1>5. CASE ReclaimDone
  <2>1. NotifiesCompletion => pc' = "admit" /\ (admitted >= 1 => cursor' = admitted - 1)
    BY <1>5 DEF ReclaimDone, EnterAdmit
  <2>2. ~NotifiesCompletion => pc = "reclaim" /\ pc' = "front"
    BY <1>5 DEF ReclaimDone
  <2> QED
    BY <1>1, <1>2, <1>3, <2>1, <2>2 DEF UseInv, SlotsInUse
<1>6. CASE YieldItem \/ FrontClosed \/ YieldPanic \/ YieldPending \/ YieldEnd
  <2>1. pc = "front" /\ pc' \in {"idle", "front", "pending", "ended"}
    BY <1>6 DEF YieldItem, FrontClosed, YieldPanic, YieldPending, YieldEnd, mergerVars
  <2> QED
    BY <1>1, <1>2, <2>1 DEF UseInv, SlotsInUse
<1> QED
  BY <1>4, <1>5, <1>6

\* A completion that is reclaimed, a partition that is popped and a cleared
\* queue leave only partitions with all their slots before the last one.
LEMMA ReleaseKeepsUse ==
    ASSUME ReservationInv, UseInv, ReclaimOne \/ PopFront \/ Clear
    PROVE  UseInv'
<1>1. /\ admitted \in Nat /\ consumed \in Nat
      /\ reserved \in [Partitions -> Nat] /\ maxReads \in [Partitions -> Nat]
      /\ N \in Nat /\ Partitions = 1..N
  BY ConstantFacts DEF ReservationInv, TypeOK
<1>2. CASE ReclaimOne
  <2>1. /\ UNCHANGED <<pc, cursor, admitted, consumed>> /\ pc = "reclaim"
        /\ NotifiesCompletion
    BY <1>2 DEF ReclaimOne, UseInv
  <2>2. \A q \in Partitions : reserved[q] = maxReads[q] => reserved'[q] = maxReads'[q]
    BY <1>1, <1>2 DEF ReclaimOne
  <2> QED
    BY <2>1, <2>2 DEF UseInv, SlotsInUse
<1>3. CASE PopFront
  <2>1. /\ consumed' = consumed + 1 /\ admitted' = admitted - 1 /\ pc' = "admit"
        /\ cursor' = IF admitted - 1 = 0 THEN 0 ELSE admitted - 2
        /\ UNCHANGED <<reserved, maxReads, completions>>
    BY <1>1, <1>3 DEF PopFront, EnterAdmit
  <2>2. admitted >= 1
    BY <1>3 DEF PopFront, ReservationInv, WindowInv
  <2>3. \A q \in Partitions : consumed' < q /\ q < consumed' + admitted' =>
                               reserved'[q] = maxReads'[q]
    BY <1>1, <2>1, <2>2 DEF UseInv
  <2>4. cursor' # admitted' \/ ~(admitted' >= 1)
    BY <1>1, <2>1, <2>2
  <2> QED
    BY <2>1, <2>3, <2>4 DEF UseInv, SlotsInUse
<1>4. CASE Clear
  <2>1. /\ pc' = "cleared" /\ admitted' = 0 /\ completions' = <<>>
        /\ UNCHANGED <<consumed, reserved, maxReads>>
    BY <1>4 DEF Clear
  <2> QED
    BY <1>1, <2>1 DEF UseInv, SlotsInUse
<1> QED
  BY <1>2, <1>3, <1>4

\* Whenever poll_next is about to poll its front partition or has gone to sleep,
\* every free slot that a queued partition could use has been handed out, and
\* only the last admitted partition may be waiting for more.
THEOREM SlotsAreInUse == Spec => []SlotsInUse
<1>1. Init => UseInv
  BY ConstantFacts DEF Init, MergerInit, UseInv, SlotsInUse
<1>2. ReservationInv /\ UseInv /\ [Next]_vars => UseInv'
  <2> SUFFICES ASSUME ReservationInv, UseInv, [Next]_vars PROVE UseInv'
    OBVIOUS
  <2>1. CASE MergerNext
    BY <2>1, AdmitOneKeepsUse, AdmitDoneKeepsUse, PollKeepsUse, ReleaseKeepsUse DEF MergerNext
  <2>2. CASE \E p \in Partitions : ProducerNext(p)
    BY <2>2, ProducerKeepsUse
  <2>3. CASE Finished \/ UNCHANGED vars
    <3>1. UNCHANGED mergerVars
      BY <2>3 DEF Finished, vars
    <3>2. Settled' <=> Settled
      BY <3>1 DEF Settled, Remaining, FrontPartition, mergerVars
    <3> QED
      BY <3>1, <3>2 DEF UseInv, SlotsInUse, mergerVars
  <2> QED
    BY <2>1, <2>2, <2>3 DEF Next
<1>3. UseInv => SlotsInUse
  BY DEF UseInv
<1> QED
  BY <1>1, <1>2, <1>3, ReservationInvariant, PTL DEF Spec

-----------------------------------------------------------------------------
(* What reaches the caller.                                                 *)

\* A batch is a pair of numbers, and none of them is a mark of the channels.
LEMMA BatchShape ==
    ASSUME NEW p \in Partitions, NEW b \in Batches(p)
    PROVE  b \in Nat \X Nat /\ b \notin Errors /\ Before(<<0, 0>>, b)
<1>1. PICK i \in 1..Len(FileTasks[p]) : b \in {i} \X (1..FileTasks[p][i])
  BY DEF Batches
<1>2. FileTasks[p] \in Seq(Nat)
  BY PlanAssumption DEF Partitions
<1>3. i \in Nat \ {0} /\ FileTasks[p][i] \in Nat
  BY <1>2
<1>4. b \in Nat \X Nat /\ b[1] = i
  BY <1>1, <1>3
<1> QED
  BY <1>3, <1>4, ItemAssumption DEF Before

\* Before is a strict total order on batches.
LEMMA BeforeOrder ==
    ASSUME NEW a \in Nat \X Nat, NEW b \in Nat \X Nat, NEW c \in Nat \X Nat
    PROVE  /\ ~Before(a, a)
           /\ Before(a, b) /\ Before(b, c) => Before(a, c)
           /\ ~Before(a, b) /\ Before(a, c) => Before(b, c)
<1>1. /\ a[1] \in Nat /\ a[2] \in Nat /\ b[1] \in Nat /\ b[2] \in Nat /\ c[1] \in Nat /\ c[2] \in Nat
  OBVIOUS
<1> QED
  BY <1>1 DEF Before

LEMMA InitDelivery ==
    ASSUME Init
    PROVE  DeliveryInv
<1> USE DEF Init, OrderedStreamInit, MergerInit
<1>1. OrderInv
  BY DEF OrderInv, ChannelTypeOK
<1>2. CompleteInv
  BY BatchShape DEF CompleteInv, CompleteOK
<1>3. ErrorInv
  BY DEF ErrorInv
<1> QED
  BY <1>1, <1>2, <1>3 DEF DeliveryInv

\* Items that stay where they are stay in order, also when partitions are popped.
LEMMA OrderFrame ==
    ASSUME ReservationInv, OrderInv, UNCHANGED <<out, sent, delivered>>,
           consumed' = consumed \/ consumed' = consumed + 1
    PROVE  OrderInv'
<1>1. \A k \in 1..Len(delivered) :
        delivered[k][1] \in Nat /\ delivered[k][1] <= FrontPartition /\ FrontPartition \in Nat /\ FrontPartition' \in Nat /\ FrontPartition <= FrontPartition'
  <2>1. consumed \in Nat /\ FrontPartition = consumed + 1 /\ FrontPartition' = consumed' + 1
    BY ConstantFacts DEF FrontPartition, ReservationInv, TypeOK
  <2>2. \A k \in 1..Len(delivered) : delivered[k][1] \in Partitions /\ delivered[k][1] <= FrontPartition
    BY DEF OrderInv
  <2>3. \A k \in 1..Len(delivered) : delivered[k][1] \in Nat
    BY <2>2, ConstantFacts
  <2>4. FrontPartition \in Nat /\ FrontPartition' \in Nat /\ FrontPartition <= FrontPartition'
    BY <2>1
  <2> QED
    BY <2>2, <2>3, <2>4
<1>2. \A k \in 1..Len(delivered) : delivered[k][1] <= FrontPartition'
  BY <1>1
<1> QED
  BY <1>2 DEF OrderInv, ChannelTypeOK, IsError

\* A step that tells the streams apart as before.
LEMMA StillDelivery ==
    ASSUME ReservationInv, DeliveryInv, UNCHANGED <<cancelled, state, task, out, sent, delivered, consumed>>,
           pc' = "cleared" => pc = "cleared", pc = "cleared" => pc' = "cleared"
    PROVE  DeliveryInv'
<1>1. OrderInv'
  <2>1. consumed \in Nat
    BY ConstantFacts DEF ReservationInv, TypeOK
  <2> QED
    BY <2>1, OrderFrame DEF DeliveryInv
<1>2. CompleteInv'
  BY DEF DeliveryInv, CompleteInv, CompleteOK
<1>3. ErrorInv'
  BY DEF DeliveryInv, ErrorInv, IsError
<1> QED
  BY <1>1, <1>2, <1>3 DEF DeliveryInv

\* admit_partitions starts a stream, or finds it cancelled.
LEMMA AdmitOneDelivery ==
    ASSUME ReservationInv, DeliveryInv, AdmitOne
    PROVE  DeliveryInv'
<1> DEFINE p == FrontPartition + cursor
<1>1. p \in Partitions
  <2>1. consumed \in 0..N /\ cursor \in Nat /\ cursor < N - consumed
    BY DEF AdmitOne, Remaining, ReservationInv, TypeOK
  <2> QED
    BY <2>1, ConstantFacts DEF FrontPartition
<1>2. UNCHANGED <<cancelled, out, sent, pc, consumed, delivered>> /\ Start(p)
  BY DEF AdmitOne, Admit
<1>3. /\ \A q \in Partitions : q # p \/ state[p] # "NotStarted" =>
           state'[q] = state[q] /\ task'[q] = task[q]
      /\ state[p] = "NotStarted" =>
           \/ cancelled[p] /\ state'[p] = "Done" /\ task'[p] = task[p]
           \/ state'[p] = "Running" /\ task'[p] = "running"
      /\ state[p] = "NotStarted" => task[p] = "none"
  BY <1>1, <1>2 DEF Start, ReservationInv, TypeOK, StreamTypeOK, LifecycleInv
<1> HIDE DEF p
<1>4. OrderInv'
  BY <1>2, OrderFrame, ConstantFacts DEF DeliveryInv, ReservationInv, TypeOK
<1>5. ASSUME NEW q \in Partitions
      PROVE  /\ state'[q] # "Running" => out[q] = <<>>
             /\ task'[q] \in {"closing", "exited"} /\ ~cancelled[q] =>
                  \A b \in Batches(q) : ~Before(sent[q], b)
             /\ state'[q] = "Done" /\ ~cancelled[q] => task'[q] = "exited"
             /\ task'[q] = "failing" => cancelled[q]
             /\ state'[q] = "Dropped" => pc = "cleared"
             /\ state[q] = "Running" => state'[q] = "Running" /\ (task[q] = "failing" => task'[q] = "failing")
  BY <1>3 DEF DeliveryInv, CompleteInv, CompleteOK, ErrorInv
<1>6. CompleteInv'
  BY <1>2, <1>5 DEF DeliveryInv, CompleteInv, CompleteOK
<1>7. ErrorInv'
  BY <1>2, <1>5 DEF DeliveryInv, ErrorInv, IsError
<1> QED
  BY <1>4, <1>6, <1>7 DEF DeliveryInv

\* The front partition's channel is empty and closed, or its task was joined
\* and it is popped: the streams of the others are as they were.
LEMMA FrontMoves ==
    ASSUME ReservationInv, DeliveryInv, FrontClosed \/ PopFront
    PROVE  DeliveryInv'
<1> DEFINE p == FrontPartition
<1>1. p \in Partitions /\ state[p] \in {"Running", "Finishing", "Done"}
  <2>1. consumed \in 0..N /\ consumed < N /\ FrontPartition = consumed + 1
    BY DEF FrontClosed, PopFront, ReservationInv, TypeOK, FrontPartition
  <2>2. p \in Partitions
    BY <2>1, ConstantFacts
  <2>3. state[FrontPartition] \in {"Running", "Finishing", "Done"}
    BY DEF FrontClosed, PopFront, ReceiveClosed, AtEnd
  <2> QED
    BY <2>2, <2>3
<1>2. /\ UNCHANGED <<cancelled, task, out, sent, delivered>>
      /\ consumed' = consumed \/ consumed' = consumed + 1
      /\ pc = "front" /\ pc' # "cleared"
      /\ \A q \in Partitions : q # p => state'[q] = state[q]
      /\ state'[p] \in {"Finishing", "Done"} /\ out[p] = <<>>
      /\ ~cancelled[p] /\ state'[p] = "Done" => task[p] = "exited"
      /\ state[p] = "Running" => task[p] # "failing"
  <2>1. CASE FrontClosed
    BY <2>1, <1>1 DEF FrontClosed, ReceiveClosed, mergerVars, SenderLive, ReservationInv, TypeOK, StreamTypeOK
  <2>2. CASE PopFront
    BY <2>2, <1>1 DEF PopFront, EnterAdmit, AtEnd, DeliveryInv, CompleteInv, CompleteOK, ReservationInv, TypeOK, StreamTypeOK
  <2> QED
    BY <2>1, <2>2
<1> HIDE DEF p
<1>3. OrderInv'
  BY <1>2, OrderFrame DEF DeliveryInv
<1>4. CompleteInv'
  <2>1. \A q \in Partitions :
          /\ state'[q] # "Running" => out[q] = <<>>
          /\ state'[q] = "Done" /\ ~cancelled[q] => task[q] = "exited"
    BY <1>1, <1>2 DEF DeliveryInv, CompleteInv, CompleteOK
  <2>2. UNCHANGED <<cancelled, task, out, sent, delivered>> /\ pc # "cleared"
    BY <1>2
  <2> QED
    BY <2>1, <2>2 DEF DeliveryInv, CompleteInv, CompleteOK
<1>5. \A q \in Partitions :
        /\ state[q] = "Running" /\ (task[q] = "failing" \/ \E k \in 1..Len(out[q]) : out[q][k] = "file_failed")
             => state'[q] = "Running"
        /\ state'[q] # "Dropped"
  BY <1>1, <1>2 DEF DeliveryInv, ErrorInv
<1>6. ErrorInv'
  BY <1>2, <1>5 DEF DeliveryInv, ErrorInv, IsError
<1> QED
  BY <1>3, <1>4, <1>6 DEF DeliveryInv

\* finish() and drop empty the channels.
LEMMA ClearDelivery ==
    ASSUME ReservationInv, DeliveryInv, Clear
    PROVE  DeliveryInv'
<1>1. /\ UNCHANGED <<task, sent, delivered, consumed>> /\ pc' = "cleared"
      /\ \A q \in Partitions : cancelled[q] => cancelled'[q]
      /\ \A q, r \in Partitions : cancelled'[q] => cancelled'[r]
      /\ \A q \in Partitions :
           /\ out'[q] = IF q > consumed THEN <<>> ELSE out[q]
           /\ state'[q] = IF q > consumed /\ state[q] # "Done" THEN "Dropped" ELSE state[q]
      /\ out' = [q \in Partitions |-> IF q > consumed THEN <<>> ELSE out[q]]
  <2>1. /\ UNCHANGED <<task, sent, delivered, consumed>> /\ pc' = "cleared"
        /\ cancelled' = [q \in Partitions |-> cancelled[q] \/ q \in Partitions] \/ UNCHANGED cancelled
        /\ state' = [q \in Partitions |-> IF q \in {r \in Partitions : r > consumed} /\ state[q] # "Done"
                                         THEN "Dropped" ELSE state[q]]
        /\ out' = [q \in Partitions |-> IF q \in {r \in Partitions : r > consumed} THEN <<>> ELSE out[q]]
    BY DEF Clear, DropStreams, Cancel
  <2>2. /\ \A q \in Partitions : cancelled[q] => cancelled'[q]
        /\ \A q, r \in Partitions : cancelled'[q] => cancelled'[r]
    BY <2>1, Zenon DEF DeliveryInv, ErrorInv
  <2> QED
    BY <2>1, <2>2
<1>2. \A q \in Partitions : q <= consumed => state[q] = "Done" /\ out[q] = <<>>
  BY DEF ReservationInv, LifecycleInv, DeliveryInv, CompleteInv, CompleteOK
<1>3. \A q \in Partitions : out'[q] = <<>>
  BY <1>1, <1>2, ConstantFacts DEF ReservationInv, TypeOK
<1>4. OrderInv'
  <2>1. ChannelTypeOK'
    BY <1>1 DEF DeliveryInv, OrderInv, ChannelTypeOK
  <2> QED
    BY <1>1, <1>3, <2>1 DEF DeliveryInv, OrderInv, IsError, FrontPartition
<1>5. CompleteInv'
  BY <1>1, <1>3 DEF DeliveryInv, CompleteInv, CompleteOK
<1>6. ErrorInv'
  BY <1>1 DEF DeliveryInv, ErrorInv
<1> QED
  BY <1>4, <1>5, <1>6 DEF DeliveryInv

\* poll_next hands over the front partition's first item.
LEMMA YieldItemDelivery ==
    ASSUME ReservationInv, DeliveryInv, YieldItem
    PROVE  DeliveryInv'
<1> DEFINE p == FrontPartition
           item == <<p, Head(out[p])>>
           Item == (Nat \X Nat) \cup Errors
<1>1. /\ p \in Partitions /\ p \in Nat /\ state[p] = "Running" /\ out[p] \in Seq(Item)
      /\ out[p] # <<>> /\ delivered \in Seq(Partitions \X Item) /\ out \in [Partitions -> Seq(Item)]
      /\ \A k \in 1..Len(delivered) : delivered[k][1] \in Nat
  <2>1. consumed \in 0..N /\ consumed < N /\ FrontPartition = consumed + 1
    BY DEF YieldItem, ReservationInv, TypeOK, FrontPartition
  <2>2. p \in Partitions /\ p \in Nat
    BY <2>1, ConstantFacts
  <2>3. state[p] = "Running" /\ out[p] # <<>>
    BY DEF YieldItem, Receive
  <2>4. delivered \in Seq(Partitions \X Item) /\ out \in [Partitions -> Seq(Item)]
    BY DEF DeliveryInv, OrderInv, ChannelTypeOK
  <2>5. \A k \in 1..Len(delivered) : delivered[k][1] \in Partitions
    BY <2>4
  <2>6. \A k \in 1..Len(delivered) : delivered[k][1] \in Nat
    <3>1. Partitions \subseteq Nat
      BY ConstantFacts
    <3> QED
      BY <2>5, <3>1
  <2>7. out[p] \in Seq(Item)
    BY <2>2, <2>4
  <2> HIDE DEF p, Item
  <2> QED
    BY <2>2, <2>3, <2>4, <2>6, <2>7
<1>2. /\ UNCHANGED <<cancelled, state, task, sent, consumed>> /\ pc # "cleared" /\ pc' # "cleared"
      /\ out' = [out EXCEPT ![p] = Tail(@)] /\ delivered' = Append(delivered, item)
  BY DEF YieldItem, Receive
<1>3. /\ \A q \in Partitions : q # p => out'[q] = out[q]
      /\ out'[p] \in Seq(Item) /\ Len(out[p]) \in Nat \ {0} /\ Len(out'[p]) = Len(out[p]) - 1
      /\ \A k \in 1..Len(out'[p]) : out'[p][k] = out[p][k + 1]
      /\ item = <<p, out[p][1]>> /\ out[p][1] \in Item
  BY <1>1, <1>2
<1>4. /\ delivered' \in Seq(Partitions \X Item) /\ Len(delivered) \in Nat
      /\ Len(delivered') = Len(delivered) + 1
      /\ \A k \in 1..Len(delivered) : delivered'[k] = delivered[k]
      /\ delivered'[Len(delivered) + 1] = item
  BY <1>1, <1>2, <1>3
<1>5. item[1] = p /\ item[2] = out[p][1]
  BY <1>3
<1>6. FrontPartition' = FrontPartition
  BY <1>2 DEF FrontPartition
<1> HIDE DEF p, item, Item
<1>7. ChannelTypeOK'
  BY <1>1, <1>2, <1>3 DEF DeliveryInv, OrderInv, ChannelTypeOK, Item
<1>8. ASSUME NEW k \in 1..Len(delivered')
      PROVE  /\ delivered'[k][1] <= FrontPartition
             /\ ~IsError(delivered'[k]) =>
                  /\ delivered'[k][2] \in Batches(delivered'[k][1])
                  /\ ~Before(sent[delivered'[k][1]], delivered'[k][2])
                  /\ \A j \in 1..(k - 1) : ~IsError(delivered'[j]) => Precedes(delivered'[j], delivered'[k])
  <2>1. CASE k <= Len(delivered)
    <3>1. k \in 1..Len(delivered) /\ \A j \in 1..(k - 1) : j \in 1..Len(delivered)
      BY <2>1, <1>4
    <3> QED
      BY <3>1, <1>4 DEF DeliveryInv, OrderInv
  <2>2. CASE k = Len(delivered) + 1
    <3>1. delivered'[k] = item /\ item[1] = FrontPartition
      BY <2>2, <1>4, <1>5 DEF p
    <3>2. ASSUME ~IsError(item)
          PROVE  /\ out[p][1] \notin Errors /\ out[p][1] \in Batches(p) /\ ~Before(sent[p], out[p][1])
                 /\ \A j \in 1..Len(delivered) :
                      delivered[j][1] = p /\ ~IsError(delivered[j]) => Before(delivered[j][2], out[p][1])
      <4>1. 1 \in 1..Len(out[p]) /\ out[p][1] \notin Errors
        BY <3>2, <1>3, <1>5 DEF IsError
      <4> QED
        BY <4>1, <1>1 DEF DeliveryInv, OrderInv
    <3>3. ASSUME ~IsError(item), NEW j \in 1..(k - 1), ~IsError(delivered'[j])
          PROVE  Precedes(delivered'[j], item)
      <4>1. j \in 1..Len(delivered) /\ delivered'[j] = delivered[j]
        BY <2>2, <1>4
      <4>2. delivered[j][1] <= p
        BY <4>1 DEF DeliveryInv, OrderInv, p
      <4>3. delivered[j][1] \in Nat /\ p \in Nat
        BY <4>1, <1>1
      <4>4. delivered[j][1] < p \/ delivered[j][1] = p
        BY <4>2, <4>3
      <4>5. delivered[j][1] = p => Before(delivered[j][2], item[2])
        BY <3>2, <3>3, <4>1, <1>5
      <4> QED
        BY <4>1, <4>4, <4>5, <1>5 DEF Precedes
    <3> QED
      BY <3>1, <3>2, <3>3, <1>1, <1>5 DEF p
  <2> QED
    BY <2>1, <2>2, <1>4
<1>9. ASSUME NEW q \in Partitions, NEW k \in 1..Len(out'[q]), out'[q][k] \notin Errors
      PROVE  /\ out'[q][k] \in Batches(q) /\ ~Before(sent[q], out'[q][k])
             /\ \A j \in 1..(k - 1) : out'[q][j] \notin Errors => Before(out'[q][j], out'[q][k])
             /\ \A j \in 1..Len(delivered') :
                  delivered'[j][1] = q /\ ~IsError(delivered'[j]) => Before(delivered'[j][2], out'[q][k])
  <2>1. CASE q # p
    <3>1. out'[q] = out[q]
      BY <2>1, <1>3
    <3>2. \A j \in 1..Len(delivered') : delivered'[j][1] = q =>
             j \in 1..Len(delivered) /\ delivered'[j] = delivered[j]
      BY <2>1, <1>4, <1>5
    <3> QED
      BY <3>1, <3>2, <1>9 DEF DeliveryInv, OrderInv
  <2>2. CASE q = p
    <3>1. /\ k + 1 \in 1..Len(out[p]) /\ out'[p][k] = out[p][k + 1] /\ 1 \in 1..((k + 1) - 1)
          /\ \A j \in 1..(k - 1) : j + 1 \in 1..((k + 1) - 1) /\ out'[p][j] = out[p][j + 1]
      <4>1. k \in Nat \ {0} /\ k <= Len(out[p]) - 1
        BY <2>2, <1>3
      <4>2. \A j \in 1..(k - 1) : j \in 1..Len(out'[p])
        BY <2>2, <4>1, <1>3
      <4>3. k \in 1..Len(out'[p]) /\ \A j \in 1..(k - 1) : out'[p][j] = out[p][j + 1]
        BY <2>2, <4>2, <1>3
      <4>4. Len(out[p]) \in Nat /\ out'[p][k] = out[p][k + 1]
        BY <4>3, <1>3
      <4>5. k + 1 \in 1..Len(out[p]) /\ 1 \in 1..((k + 1) - 1)
        BY <4>1, <4>4
      <4>6. \A j \in 1..(k - 1) : j + 1 \in 1..((k + 1) - 1)
        BY <4>1
      <4> QED
        BY <4>3, <4>4, <4>5, <4>6
    <3>2. /\ out[p][k + 1] \in Batches(p) /\ ~Before(sent[p], out[p][k + 1])
          /\ \A j \in 1..((k + 1) - 1) : out[p][j] \notin Errors => Before(out[p][j], out[p][k + 1])
          /\ \A j \in 1..Len(delivered) :
                  delivered[j][1] = p /\ ~IsError(delivered[j]) => Before(delivered[j][2], out[p][k + 1])
      BY <3>1, <2>2, <1>9, <1>1 DEF DeliveryInv, OrderInv
    <3>3. ASSUME NEW j \in 1..Len(delivered'), delivered'[j][1] = p, ~IsError(delivered'[j])
          PROVE  Before(delivered'[j][2], out[p][k + 1])
      <4>1. CASE j = Len(delivered) + 1
        BY <4>1, <3>3, <3>1, <3>2, <1>4, <1>5 DEF IsError
      <4>2. CASE j # Len(delivered) + 1
        BY <4>2, <3>3, <3>2, <1>4
      <4> QED
        BY <4>1, <4>2
    <3> QED
      BY <2>2, <3>1, <3>2, <3>3
  <2> QED
    BY <2>1, <2>2
<1>10. OrderInv'
  BY <1>2, <1>4, <1>6, <1>7, <1>8, <1>9 DEF OrderInv, IsError, Item
<1>11. ASSUME NEW q \in Partitions, NEW x, \E k \in 1..Len(out[q]) : out[q][k] = x
       PROVE  delivered'[Len(delivered')] = <<q, x>> \/ \E k \in 1..Len(out'[q]) : out'[q][k] = x
  <2>1. PICK k \in 1..Len(out[q]) : out[q][k] = x
    BY <1>11
  <2>2. CASE q # p
    BY <2>1, <2>2, <1>3
  <2>3. CASE q = p /\ k = 1
    BY <2>1, <2>3, <1>3, <1>4 DEF item
  <2>4. CASE q = p /\ k # 1
    <3>1. k - 1 \in 1..Len(out'[p]) /\ out'[p][k - 1] = out[p][(k - 1) + 1] /\ (k - 1) + 1 = k
      <4>1. k \in Nat /\ k > 1 /\ k <= Len(out[p])
        BY <2>4, <1>3
      <4>2. k - 1 \in 1..Len(out'[p]) /\ (k - 1) + 1 = k
        BY <4>1, <1>3
      <4> QED
        BY <4>2, <1>3
    <3> QED
      BY <3>1, <2>4, <2>1
  <2> QED
    BY <2>2, <2>3, <2>4
<1>12. CompleteInv'
  <2>1. ASSUME NEW q \in Partitions, NEW b \in Batches(q), ~Before(sent[q], b)
        PROVE  \/ \E k \in 1..Len(delivered') : delivered'[k] = <<q, b>>
               \/ \E k \in 1..Len(out'[q]) : out'[q][k] = b
    <3>1. CASE \E k \in 1..Len(delivered) : delivered[k] = <<q, b>>
      BY <3>1, <1>4
    <3>2. CASE \E k \in 1..Len(out[q]) : out[q][k] = b
      <4>1. delivered'[Len(delivered')] = <<q, b>> \/ \E k \in 1..Len(out'[q]) : out'[q][k] = b
        BY <3>2, <1>11
      <4>2. Len(delivered') \in 1..Len(delivered')
        BY <1>4
      <4> QED
        BY <4>1, <4>2
    <3> QED
      BY <2>1, <3>1, <3>2, <1>2 DEF DeliveryInv, CompleteInv, CompleteOK
  <2>2. \A q \in Partitions : state[q] # "Running" => out'[q] = <<>>
    BY <1>1, <1>3 DEF DeliveryInv, CompleteInv, CompleteOK
  <2> QED
    BY <2>1, <2>2, <1>2 DEF DeliveryInv, CompleteInv, CompleteOK
<1>13. ErrorInv'
  <2>1. ASSUME \E k \in 1..Len(delivered) : IsError(delivered[k])
        PROVE  \E k \in 1..Len(delivered') : IsError(delivered'[k])
    BY <2>1, <1>4
  <2>2. ASSUME NEW q \in Partitions, \E k \in 1..Len(out[q]) : out[q][k] = "file_failed"
        PROVE  \/ \E k \in 1..Len(delivered') : IsError(delivered'[k])
               \/ \E k \in 1..Len(out'[q]) : out'[q][k] = "file_failed"
    <3>1. CASE delivered'[Len(delivered')] = <<q, "file_failed">>
      BY <3>1, <1>4 DEF IsError, Errors
    <3> QED
      BY <3>1, <2>2, <1>11
  <2> QED
    BY <2>1, <2>2, <1>2 DEF DeliveryInv, ErrorInv, IsError
<1> QED
  BY <1>10, <1>12, <1>13 DEF DeliveryInv

\* The joined producer panicked: that is the error.
LEMMA YieldPanicDelivery ==
    ASSUME ReservationInv, DeliveryInv, YieldPanic
    PROVE  DeliveryInv'
<1> DEFINE p == FrontPartition
           item == <<p, "producer_panicked">>
           Item == (Nat \X Nat) \cup Errors
<1>1. p \in Partitions /\ delivered \in Seq(Partitions \X Item) /\ item \in Partitions \X Item
  <2>1. consumed \in 0..N /\ consumed < N /\ FrontPartition = consumed + 1
    BY DEF YieldPanic, ReservationInv, TypeOK, FrontPartition
  <2>2. p \in Partitions
    BY <2>1, ConstantFacts
  <2> QED
    BY <2>2 DEF DeliveryInv, OrderInv, Errors
<1>2. /\ UNCHANGED <<task, out, sent, consumed>> /\ pc' # "cleared" /\ pc # "cleared"
      /\ delivered' = Append(delivered, item)
      /\ \A q \in Partitions : q # p => state'[q] = state[q]
      /\ state[p] = "Finishing" /\ state'[p] = "Done"
  BY <1>1 DEF YieldPanic, JoinReportsPanic, ReservationInv, TypeOK, StreamTypeOK
<1>3. \A q \in Partitions : cancelled'[q]
  BY DEF YieldPanic, JoinReportsPanic, Cancel
<1>4. /\ delivered' \in Seq(Partitions \X Item) /\ Len(delivered) \in Nat
      /\ Len(delivered') = Len(delivered) + 1
      /\ \A k \in 1..Len(delivered) : delivered'[k] = delivered[k]
      /\ delivered'[Len(delivered) + 1] = item
  BY <1>1, <1>2
<1>5. item[1] = FrontPartition /\ FrontPartition' = FrontPartition /\ FrontPartition <= FrontPartition /\ IsError(item)
  BY <1>2, ConstantFacts DEF IsError, Errors, FrontPartition, ReservationInv, TypeOK
<1> HIDE DEF p, item, Item
<1>6. \A k \in 1..Len(delivered') :
        (k \in 1..Len(delivered) /\ delivered'[k] = delivered[k]) \/ delivered'[k] = item
  BY <1>4
<1>7. OrderInv'
  <2>1. ASSUME NEW k \in 1..Len(delivered')
        PROVE  /\ delivered'[k][1] <= FrontPartition
               /\ ~IsError(delivered'[k]) =>
                    /\ delivered'[k][2] \in Batches(delivered'[k][1])
                    /\ ~Before(sent[delivered'[k][1]], delivered'[k][2])
                    /\ \A j \in 1..(k - 1) : ~IsError(delivered'[j]) => Precedes(delivered'[j], delivered'[k])
    <3>1. CASE delivered'[k] = item
      BY <3>1, <1>5
    <3>2. CASE k \in 1..Len(delivered) /\ delivered'[k] = delivered[k]
      <4>1. \A j \in 1..(k - 1) : delivered'[j] = delivered[j]
        BY <3>2, <1>4
      <4> QED
        BY <3>2, <4>1 DEF DeliveryInv, OrderInv
    <3> QED
      BY <3>1, <3>2, <1>6
  <2>2. ASSUME NEW q \in Partitions, NEW k \in 1..Len(out[q]), out[q][k] \notin Errors,
               NEW j \in 1..Len(delivered'), delivered'[j][1] = q, ~IsError(delivered'[j])
        PROVE  Before(delivered'[j][2], out[q][k])
    BY <2>2, <1>5, <1>6 DEF DeliveryInv, OrderInv
  <2> QED
    BY <1>2, <1>4, <1>5, <2>1, <2>2 DEF DeliveryInv, OrderInv, ChannelTypeOK, IsError, Item
<1>8. CompleteInv'
  <2>1. \A q \in Partitions : \A b \in Batches(q) : ~Before(sent[q], b) =>
           \/ \E k \in 1..Len(delivered') : delivered'[k] = <<q, b>>
           \/ \E k \in 1..Len(out[q]) : out[q][k] = b
    <3>1. ASSUME NEW x, \E k \in 1..Len(delivered) : delivered[k] = x
          PROVE  \E k \in 1..Len(delivered') : delivered'[k] = x
      BY <3>1, <1>4
    <3>2. \A q \in Partitions : CompleteOK(q)
      BY DEF DeliveryInv, CompleteInv
    <3> QED
      BY <3>1, <3>2, <1>2 DEF CompleteOK
  <2>2. \A q \in Partitions : state'[q] # "Running" => out[q] = <<>>
    BY <1>1, <1>2 DEF DeliveryInv, CompleteInv, CompleteOK
  <2> QED
    BY <2>1, <2>2, <1>2, <1>3, ZenonT(30) DEF CompleteInv, CompleteOK
<1>9. ErrorInv'
  <2>1. IsError(delivered'[Len(delivered')]) /\ Len(delivered') \in 1..Len(delivered')
    BY <1>4, <1>5
  <2>2. \A q \in Partitions : state'[q] # "Dropped"
    BY <1>2 DEF DeliveryInv, ErrorInv
  <2> QED
    BY <2>1, <2>2, <1>3 DEF ErrorInv, IsError
<1> QED
  BY <1>7, <1>8, <1>9 DEF DeliveryInv

\* A producer task changes: what it leaves unsent, and why it was cancelled.
LEMMA TaskDelivery ==
    ASSUME ReservationInv, DeliveryInv, NEW p \in Partitions, NEW t,
           task' = [task EXCEPT ![p] = t], task[p] # "failing",
           UNCHANGED <<state, out, sent, delivered, consumed, pc>>,
           UNCHANGED cancelled \/ \A q \in Partitions : cancelled'[q],
           UNCHANGED cancelled \/ pc = "cleared" \/ (t = "failing" /\ state[p] = "Running"),
           t = "failing" => cancelled'[p],
           t \in {"closing", "exited"} /\ ~cancelled'[p] => \A b \in Batches(p) : ~Before(sent[p], b),
           state[p] = "Done" /\ ~cancelled'[p] => t = "exited"
    PROVE  DeliveryInv'
<1>1. OrderInv'
  <2>1. consumed \in Nat
    BY ConstantFacts DEF ReservationInv, TypeOK
  <2> QED
    BY <2>1, OrderFrame DEF DeliveryInv
<1>2. task'[p] = t /\ \A q \in Partitions : q # p => task'[q] = task[q]
  BY DEF ReservationInv, TypeOK, StreamTypeOK
<1>3. /\ \A q \in Partitions : cancelled[q] => cancelled'[q]
      /\ \A q, r \in Partitions : cancelled'[q] => cancelled'[r]
  BY DEF DeliveryInv, ErrorInv
<1>4. ASSUME NEW q \in Partitions
      PROVE  /\ task'[q] \in {"closing", "exited"} /\ ~cancelled'[q] =>
                  \A b \in Batches(q) : ~Before(sent[q], b)
             /\ state[q] = "Done" /\ ~cancelled'[q] => task'[q] = "exited"
             /\ task'[q] = "failing" => cancelled'[q]
  <2>1. CompleteOK(q) /\ (task[q] = "failing" => cancelled[q]) /\ (cancelled[q] => cancelled'[q])
    BY <1>3 DEF DeliveryInv, CompleteInv, ErrorInv
  <2>2. CASE q = p
    BY <2>2, <1>2
  <2>3. CASE q # p
    <3>1. task'[q] = task[q]
      BY <2>3, <1>2
    <3> QED
      BY <2>1, <3>1 DEF CompleteOK
  <2> QED
    BY <2>2, <2>3
<1>5. CompleteInv'
  <2>1. ASSUME NEW q \in Partitions PROVE CompleteOK(q)'
    <3>1. CompleteOK(q)
      BY DEF DeliveryInv, CompleteInv
    <3> QED
      BY <1>4, <3>1 DEF CompleteOK
  <2> QED
    BY <2>1 DEF CompleteInv
<1>6. ErrorInv'
  <2>1. ASSUME pc # "cleared", \E q \in Partitions : cancelled'[q]
        PROVE  \/ \E k \in 1..Len(delivered) : IsError(delivered[k])
               \/ \E q \in Partitions :
                    /\ state[q] = "Running"
                    /\ task'[q] = "failing" \/ \E k \in 1..Len(out[q]) : out[q][k] = "file_failed"
    <3>1. CASE UNCHANGED cancelled
      BY <2>1, <3>1, <1>2 DEF DeliveryInv, ErrorInv
    <3>2. CASE t = "failing" /\ state[p] = "Running"
      BY <3>2, <1>2
    <3> QED
      BY <2>1, <3>1, <3>2
  <2> QED
    BY <2>1, <1>3, <1>4 DEF DeliveryInv, ErrorInv, IsError
<1> QED
  BY <1>1, <1>5, <1>6 DEF DeliveryInv

\* A live producer's stream has a receiver unless the caller dropped it.
LEMMA LiveStream ==
    ASSUME ReservationInv, DeliveryInv, NEW p \in Partitions, SenderLive(p)
    PROVE  state[p] = "Running" \/ (state[p] = "Dropped" /\ pc = "cleared")
BY DEF ReservationInv, TypeOK, StreamTypeOK, StreamStates, LifecycleInv, SenderLive,
       DeliveryInv, ErrorInv

\* A producer stops: with the scan's first error, everything sent, a
\* cancellation, nobody to send to, or a panic; then its task exits.
LEMMA StopDelivery ==
    ASSUME ReservationInv, DeliveryInv, NEW p \in Partitions,
           FailFirst(p) \/ Return(p) \/ ReturnUnread(p) \/ Panic(p) \/ Exit(p)
    PROVE  DeliveryInv'
<1> USE DEF mergerVars
<1>1. CASE FailFirst(p)
  <2>1. \A q \in Partitions : cancelled'[q]
    BY <1>1 DEF FailFirst, Cancel
  <2>2. state[p] = "Running" \/ pc = "cleared"
    BY <1>1, LiveStream DEF FailFirst, SenderLive
  <2>3. state[p] # "Done"
    BY <1>1 DEF FailFirst, ReservationInv, LifecycleInv, SenderLive
  <2> QED
    BY <1>1, <2>1, <2>2, <2>3, TaskDelivery DEF FailFirst
<1>2. CASE Return(p)
  <2>1. state[p] # "Done"
    BY <1>2 DEF Return, ReservationInv, LifecycleInv, SenderLive
  <2>2. ~cancelled[p] => \A b \in Batches(p) : ~Before(sent[p], b)
    BY <1>2 DEF Return
  <2> QED
    BY <1>2, <2>1, <2>2, TaskDelivery DEF Return
<1>3. CASE ReturnUnread(p)
  <2>1. \A q \in Partitions : cancelled'[q]
    BY <1>3 DEF ReturnUnread, Cancel
  <2>2. pc = "cleared"
    BY <1>3, LiveStream DEF ReturnUnread, SenderLive, ReceiverLive
  <2>3. state[p] # "Done"
    BY <1>3 DEF ReturnUnread, ReservationInv, LifecycleInv, SenderLive
  <2> QED
    BY <1>3, <2>1, <2>2, <2>3, TaskDelivery DEF ReturnUnread
<1>4. CASE Panic(p)
  <2>1. state[p] # "Done"
    BY <1>4 DEF Panic, ReservationInv, LifecycleInv, SenderLive
  <2> QED
    BY <1>4, <2>1, TaskDelivery DEF Panic
<1>5. CASE Exit(p)
  <2> DEFINE t == IF task[p] = "closing" THEN "exited" ELSE "panicked"
  <2>1. /\ task' = [task EXCEPT ![p] = t] /\ task[p] \in {"closing", "unwinding"}
        /\ UNCHANGED <<cancelled, state, out, sent, delivered, consumed, pc>>
    BY <1>5 DEF Exit
  <2>2. /\ task[p] = "closing" /\ ~cancelled[p] => \A b \in Batches(p) : ~Before(sent[p], b)
        /\ state[p] = "Done" /\ ~cancelled[p] => task[p] = "exited"
    BY DEF DeliveryInv, CompleteInv, CompleteOK
  <2>3. t \in {"exited", "panicked"} /\ (t = "exited" <=> task[p] = "closing")
    OBVIOUS
  <2> HIDE DEF t
  <2> QED
    BY <2>1, <2>2, <2>3, TaskDelivery
<1> QED
  BY <1>1, <1>2, <1>3, <1>4, <1>5

\* A producer's item joins its channel.
LEMMA Appended ==
    ASSUME NEW S, NEW s \in Seq(S), NEW x \in S
    PROVE  /\ Append(s, x) \in Seq(S) /\ Len(s) \in Nat /\ Len(Append(s, x)) = Len(s) + 1
           /\ \A k \in 1..Len(s) : Append(s, x)[k] = s[k]
           /\ Append(s, x)[Len(s) + 1] = x
OBVIOUS

\* The next batch is sent.
LEMMA SendBatchDelivery ==
    ASSUME ReservationInv, DeliveryInv, NEW p \in Partitions, SendBatch(p)
    PROVE  DeliveryInv'
<1> DEFINE Item == (Nat \X Nat) \cup Errors
<1> USE DEF mergerVars
<1>1. PICK b \in Batches(p) :
        /\ IsNextBatch(p, b) /\ sent' = [sent EXCEPT ![p] = b]
        /\ out' = [out EXCEPT ![p] = Append(@, b)]
  BY DEF SendBatch
<1>2. /\ b \in Nat \X Nat /\ b \notin Errors
      /\ out \in [Partitions -> Seq(Item)] /\ sent \in [Partitions -> Nat \X Nat]
      /\ delivered \in Seq(Partitions \X Item)
  BY BatchShape DEF DeliveryInv, OrderInv, ChannelTypeOK
<1>3. /\ UNCHANGED <<cancelled, state, task, delivered, consumed, pc>> /\ state[p] = "Running"
  BY DEF SendBatch, ReceiverLive
<1>4. /\ sent'[p] = b /\ out'[p] = Append(out[p], b)
      /\ \A q \in Partitions : q # p => sent'[q] = sent[q] /\ out'[q] = out[q]
  BY <1>1, <1>2
<1>5. /\ Len(out[p]) \in Nat /\ Len(out'[p]) = Len(out[p]) + 1
      /\ \A k \in 1..Len(out[p]) : out'[p][k] = out[p][k]
      /\ out'[p][Len(out[p]) + 1] = b
  BY <1>2, <1>4, Appended
<1>6. /\ Before(sent[p], b) /\ sent[p] \in Nat \X Nat
      /\ \A c \in Batches(p) : Before(sent[p], c) => c = b \/ Before(b, c)
  BY <1>1, <1>2 DEF IsNextBatch
<1>7. ASSUME NEW x \in Nat \X Nat, ~Before(sent[p], x)
      PROVE  Before(x, b) /\ ~Before(b, x)
  BY <1>2, <1>6, <1>7, BeforeOrder
<1>8. FrontPartition' = FrontPartition
  BY <1>3 DEF FrontPartition
<1>9. ~Before(b, b)
  BY <1>2, BeforeOrder
<1> HIDE DEF Item
<1>10. ASSUME NEW k \in 1..Len(delivered), ~IsError(delivered[k])
       PROVE  /\ ~Before(sent'[delivered[k][1]], delivered[k][2])
              /\ delivered[k][1] = p => Before(delivered[k][2], b)
  <2>1. /\ delivered[k][1] \in Partitions
        /\ delivered[k][2] \in Nat \X Nat
        /\ ~Before(sent[delivered[k][1]], delivered[k][2])
    <3>1. delivered[k] \in Partitions \X Item
      BY <1>2
    <3>2. delivered[k][2] \notin Errors
      BY <1>10 DEF IsError
    <3> QED
      BY <3>1, <3>2, <1>10 DEF DeliveryInv, OrderInv, Item
  <2>2. CASE delivered[k][1] = p
    BY <2>1, <2>2, <1>4, <1>7
  <2>3. CASE delivered[k][1] # p
    BY <2>1, <2>3, <1>4
  <2> QED
    BY <2>2, <2>3
<1>11. ASSUME NEW k \in 1..Len(out[p]), out[p][k] \notin Errors
       PROVE  Before(out[p][k], b) /\ ~Before(b, out[p][k])
  <2>1. out[p][k] \in Nat \X Nat
    BY <1>2, <1>11 DEF Item
  <2>2. ~Before(sent[p], out[p][k])
    BY <1>11 DEF DeliveryInv, OrderInv
  <2> QED
    BY <2>1, <2>2, <1>7
<1>12. ASSUME NEW q \in Partitions, NEW k \in 1..Len(out'[q]), out'[q][k] \notin Errors
       PROVE  /\ out'[q][k] \in Batches(q) /\ ~Before(sent'[q], out'[q][k])
              /\ \A j \in 1..(k - 1) : out'[q][j] \notin Errors => Before(out'[q][j], out'[q][k])
              /\ \A j \in 1..Len(delivered) :
                   delivered[j][1] = q /\ ~IsError(delivered[j]) => Before(delivered[j][2], out'[q][k])
  <2>1. CASE q # p
    BY <2>1, <1>4, <1>12 DEF DeliveryInv, OrderInv
  <2>2. CASE q = p /\ k = Len(out[p]) + 1
    <3>1. out'[q][k] = b /\ \A j \in 1..(k - 1) : j \in 1..Len(out[p]) /\ out'[q][j] = out[p][j]
      BY <2>2, <1>5
    <3> QED
      BY <2>2, <3>1, <1>4, <1>9, <1>10, <1>11
  <2>3. CASE q = p /\ k # Len(out[p]) + 1
    <3>1. /\ k \in 1..Len(out[p]) /\ out'[q][k] = out[p][k]
          /\ \A j \in 1..(k - 1) : out'[q][j] = out[p][j]
      BY <2>3, <1>5
    <3>2. out[p][k] \notin Errors /\ ~Before(sent'[q], out[p][k])
      BY <2>3, <3>1, <1>4, <1>11, <1>12
    <3>3. /\ out[p][k] \in Batches(p)
          /\ \A j \in 1..(k - 1) : out[p][j] \notin Errors => Before(out[p][j], out[p][k])
          /\ \A j \in 1..Len(delivered) :
               delivered[j][1] = p /\ ~IsError(delivered[j]) => Before(delivered[j][2], out[p][k])
      BY <2>3, <3>1, <3>2 DEF DeliveryInv, OrderInv
    <3> QED
      BY <2>3, <3>1, <3>2, <3>3
  <2> QED
    BY <2>1, <2>2, <2>3
<1>13. OrderInv'
  <2>1. ChannelTypeOK'
    BY <1>1, <1>2 DEF ChannelTypeOK, Item
  <2>2. ASSUME NEW k \in 1..Len(delivered)
        PROVE  /\ delivered[k][1] <= FrontPartition
               /\ ~IsError(delivered[k]) =>
                  /\ delivered[k][2] \in Batches(delivered[k][1])
                  /\ ~Before(sent'[delivered[k][1]], delivered[k][2])
                  /\ \A j \in 1..(k - 1) : ~IsError(delivered[j]) => Precedes(delivered[j], delivered[k])
    BY <1>10 DEF DeliveryInv, OrderInv
  <2> QED
    BY <1>2, <1>3, <1>8, <2>1, <2>2, <1>12 DEF OrderInv, IsError, Item
<1>14. CompleteInv'
  <2>1. ASSUME NEW q \in Partitions, NEW c \in Batches(q), ~Before(sent'[q], c), pc # "cleared"
        PROVE  \/ \E k \in 1..Len(delivered) : delivered[k] = <<q, c>>
               \/ \E k \in 1..Len(out'[q]) : out'[q][k] = c
    <3>1. CASE q # p
      <4>1. sent'[q] = sent[q] /\ out'[q] = out[q] /\ CompleteOK(q)
        BY <3>1, <1>4 DEF DeliveryInv, CompleteInv
      <4> QED
        BY <2>1, <4>1 DEF CompleteOK
    <3>2. CASE q = p /\ c = b
      BY <3>2, <1>5
    <3>3. CASE q = p /\ c # b
      <4>1. ~Before(sent[p], c)
        BY <3>3, <2>1, <1>4, <1>6
      <4>2. \/ \E k \in 1..Len(delivered) : delivered[k] = <<q, c>>
            \/ \E k \in 1..Len(out[p]) : out[p][k] = c
        BY <4>1, <3>3, <2>1 DEF DeliveryInv, CompleteInv, CompleteOK
      <4> QED
        BY <4>2, <3>3, <1>5
    <3> QED
      BY <3>1, <3>2, <3>3
  <2>2. ASSUME NEW q \in Partitions, task[q] \in {"closing", "exited"}, ~cancelled[q]
        PROVE  \A c \in Batches(q) : ~Before(sent'[q], c)
    <3>1. q # p
      BY <2>2 DEF SendBatch
    <3> QED
      BY <2>2, <3>1, <1>4 DEF DeliveryInv, CompleteInv, CompleteOK
  <2>3. \A q \in Partitions : state[q] # "Running" => out'[q] = <<>>
    BY <1>3, <1>4 DEF DeliveryInv, CompleteInv, CompleteOK
  <2>4. ASSUME NEW q \in Partitions PROVE CompleteOK(q)'
    <3>1. state[q] = "Done" /\ ~cancelled[q] => task[q] = "exited"
      BY DEF DeliveryInv, CompleteInv, CompleteOK
    <3> QED
      BY <1>3, <2>1, <2>2, <2>3, <3>1 DEF CompleteOK
  <2> QED
    BY <2>4 DEF CompleteInv
<1>15. ErrorInv'
  <2>1. \A q \in Partitions : (\E k \in 1..Len(out[q]) : out[q][k] = "file_failed")
           => \E k \in 1..Len(out'[q]) : out'[q][k] = "file_failed"
    BY <1>4, <1>5
  <2> QED
    BY <2>1, <1>3 DEF DeliveryInv, ErrorInv, IsError
<1> QED
  BY <1>13, <1>14, <1>15 DEF DeliveryInv

\* The scan's first error is sent, or dropped with a stream that is gone.
LEMMA SendErrorDelivery ==
    ASSUME ReservationInv, DeliveryInv, NEW p \in Partitions, SendError(p)
    PROVE  DeliveryInv'
<1> DEFINE Item == (Nat \X Nat) \cup Errors
<1> USE DEF mergerVars
<1>1. /\ UNCHANGED <<cancelled, state, sent, delivered, consumed, pc>>
      /\ task[p] = "failing" /\ task'[p] = "closing"
      /\ \A q \in Partitions : q # p => task'[q] = task[q]
      /\ cancelled[p] /\ state[p] # "Done"
  <2>1. cancelled[p] /\ state[p] # "Done"
    BY DEF SendError, DeliveryInv, ErrorInv, ReservationInv, LifecycleInv, SenderLive
  <2> QED
    BY <2>1 DEF SendError, ReservationInv, TypeOK, StreamTypeOK
<1>2. /\ out \in [Partitions -> Seq(Item)] /\ "file_failed" \in Item /\ "file_failed" \in Errors
  BY DEF DeliveryInv, OrderInv, ChannelTypeOK, Errors
<1>3. state[p] = "Running" \/ pc = "cleared"
  BY <1>1, LiveStream DEF SenderLive
<1>4. \A q \in Partitions : q # p => out'[q] = out[q]
  BY <1>2 DEF SendError
<1>5. CASE ~ReceiverLive(p)
  <2>1. UNCHANGED out /\ pc = "cleared"
    BY <1>3, <1>5 DEF SendError, ReceiverLive
  <2>2. OrderInv'
    <3>1. consumed \in Nat
      BY ConstantFacts DEF ReservationInv, TypeOK
    <3> QED
      BY <2>1, <3>1, <1>1, OrderFrame DEF DeliveryInv
  <2>3. CompleteInv'
    BY <1>1, <2>1 DEF DeliveryInv, CompleteInv, CompleteOK
  <2>4. ErrorInv'
    BY <1>1, <2>1 DEF DeliveryInv, ErrorInv
  <2> QED
    BY <2>2, <2>3, <2>4 DEF DeliveryInv
<1>6. CASE ReceiverLive(p)
  <2>1. /\ out' = [out EXCEPT ![p] = Append(@, "file_failed")] /\ state[p] = "Running"
    BY <1>6 DEF SendError, ReceiverLive
  <2>2. /\ Len(out[p]) \in Nat /\ Len(out'[p]) = Len(out[p]) + 1
        /\ \A k \in 1..Len(out[p]) : out'[p][k] = out[p][k]
        /\ out'[p][Len(out[p]) + 1] = "file_failed" /\ out'[p] \in Seq(Item)
    BY <1>2, <2>1, Appended
  <2>3. OrderInv'
    <3>1. ChannelTypeOK'
      BY <1>1, <1>2, <2>1, <2>2 DEF ChannelTypeOK, DeliveryInv, OrderInv
    <3>2. ASSUME NEW q \in Partitions, NEW k \in 1..Len(out'[q]), out'[q][k] \notin Errors
          PROVE  /\ k \in 1..Len(out[q]) /\ out'[q][k] = out[q][k]
                 /\ \A j \in 1..(k - 1) : out'[q][j] = out[q][j]
      <4>1. CASE q # p
        BY <4>1, <1>4
      <4>2. CASE q = p
        <5>1. k # Len(out[p]) + 1
          BY <4>2, <3>2, <2>2, <1>2
        <5> QED
          BY <4>2, <5>1, <2>2
      <4> QED
        BY <4>1, <4>2
    <3>3. FrontPartition' = FrontPartition
      BY <1>1 DEF FrontPartition
    <3> HIDE DEF Item
    <3>4. ASSUME NEW q \in Partitions, NEW k \in 1..Len(out'[q]), out'[q][k] \notin Errors
          PROVE  /\ out'[q][k] \in Batches(q) /\ ~Before(sent[q], out'[q][k])
                 /\ \A j \in 1..(k - 1) : out'[q][j] \notin Errors => Before(out'[q][j], out'[q][k])
                 /\ \A j \in 1..Len(delivered) :
                      delivered[j][1] = q /\ ~IsError(delivered[j]) => Before(delivered[j][2], out'[q][k])
      <4>1. k \in 1..Len(out[q]) /\ out'[q][k] = out[q][k] /\ out[q][k] \notin Errors
        BY <3>2, <3>4
      <4>2. \A j \in 1..(k - 1) : out'[q][j] = out[q][j]
        BY <3>2, <3>4
      <4>3. /\ out[q][k] \in Batches(q) /\ ~Before(sent[q], out[q][k])
            /\ \A j \in 1..(k - 1) : out[q][j] \notin Errors => Before(out[q][j], out[q][k])
            /\ \A j \in 1..Len(delivered) :
                 delivered[j][1] = q /\ ~IsError(delivered[j]) => Before(delivered[j][2], out[q][k])
        BY <4>1 DEF DeliveryInv, OrderInv
      <4> QED
        BY <4>1, <4>2, <4>3
    <3> QED
      BY <1>1, <3>1, <3>3, <3>4 DEF DeliveryInv, OrderInv, IsError
  <2>4. CompleteInv'
    <3>1. ASSUME NEW q \in Partitions, NEW c, \E k \in 1..Len(out[q]) : out[q][k] = c
          PROVE  \E k \in 1..Len(out'[q]) : out'[q][k] = c
      BY <3>1, <1>4, <2>2
    <3>2. \A q \in Partitions : state[q] # "Running" => out'[q] = <<>>
      BY <1>4, <2>1 DEF DeliveryInv, CompleteInv, CompleteOK
    <3>3. \A q \in Partitions : ~cancelled[q] => q # p
      BY <1>1
    <3>4. ASSUME NEW q \in Partitions, NEW c \in Batches(q), ~Before(sent[q], c), pc # "cleared"
          PROVE  \/ \E k \in 1..Len(delivered) : delivered[k] = <<q, c>>
                 \/ \E k \in 1..Len(out'[q]) : out'[q][k] = c
      <4>1. \/ \E k \in 1..Len(delivered) : delivered[k] = <<q, c>>
            \/ \E k \in 1..Len(out[q]) : out[q][k] = c
        BY <3>4, ZenonT(30) DEF DeliveryInv, CompleteInv, CompleteOK
      <4> QED
        BY <4>1, <3>1
    <3>5. ASSUME NEW q \in Partitions PROVE CompleteOK(q)'
      <4>1. CompleteOK(q) /\ (~cancelled[q] => task'[q] = task[q])
        BY <1>1, <3>3 DEF DeliveryInv, CompleteInv
      <4>2. UNCHANGED <<cancelled, state, sent, delivered, pc>>
        BY <1>1
      <4>3. /\ state'[q] # "Running" => out'[q] = <<>>
            /\ pc' # "cleared" => \A c \in Batches(q) : ~Before(sent'[q], c) =>
                 \/ \E k \in 1..Len(delivered') : delivered'[k] = <<q, c>>
                 \/ \E k \in 1..Len(out'[q]) : out'[q][k] = c
        BY <3>2, <3>4, <4>2
      <4>4. /\ task'[q] \in {"closing", "exited"} /\ ~cancelled'[q] =>
                 \A c \in Batches(q) : ~Before(sent'[q], c)
            /\ state'[q] = "Done" /\ ~cancelled'[q] => task'[q] = "exited"
        BY <4>1, <4>2 DEF CompleteOK
      <4> QED
        BY <4>3, <4>4 DEF CompleteOK
    <3> QED
      BY <3>5 DEF CompleteInv
  <2>5. ErrorInv'
    <3>1. \E k \in 1..Len(out'[p]) : out'[p][k] = "file_failed"
      BY <2>2
    <3> QED
      BY <1>1, <2>1, <3>1 DEF DeliveryInv, ErrorInv
  <2> QED
    BY <2>3, <2>4, <2>5 DEF DeliveryInv
<1> QED
  BY <1>5, <1>6

LEMMA DeliveryStep ==
    ASSUME ReservationInv, DeliveryInv, [Next]_vars
    PROVE  DeliveryInv'
<1>1. CASE MergerNext
  <2>1. CASE PollNext \/ AdmitDone \/ ReclaimOne \/ ReclaimDone \/ YieldPending \/ YieldEnd
    <3>1. UNCHANGED <<cancelled, state, task, out, sent, delivered, consumed>>
      BY <2>1 DEF PollNext, AdmitDone, ReclaimOne, ReclaimDone, YieldPending, YieldEnd, streamVars
    <3>2. pc # "cleared" /\ pc' # "cleared"
      BY <2>1 DEF PollNext, AdmitDone, ReclaimOne, ReclaimDone, YieldPending, YieldEnd, EnterAdmit,
                  ReservationInv, TypeOK
    <3> QED
      BY <3>1, <3>2, StillDelivery
  <2> QED
    BY <1>1, <2>1, AdmitOneDelivery, FrontMoves, ClearDelivery, YieldItemDelivery, YieldPanicDelivery
       DEF MergerNext
<1>2. ASSUME NEW p \in Partitions, ProducerNext(p) PROVE DeliveryInv'
  <2>1. CASE AcquireRead(p) \/ ReleaseRead(p)
    BY <2>1, StillDelivery DEF AcquireRead, ReleaseRead, mergerVars
  <2> QED
    BY <1>2, <2>1, StopDelivery, SendBatchDelivery, SendErrorDelivery DEF ProducerNext
<1>3. CASE Finished \/ UNCHANGED vars
  BY <1>3, StillDelivery DEF Finished, vars, streamVars, mergerVars
<1> QED
  BY <1>1, <1>2, <1>3 DEF Next

\* Whatever the producers do, the merger hands over planned batches in planned
\* order, loses none that was sent, and a scan that is cancelled before its end
\* has an error to report.
THEOREM DeliveryInvariant == Spec => []DeliveryInv
<1>1. Init => DeliveryInv
  BY InitDelivery
<1>2. ReservationInv /\ DeliveryInv /\ [Next]_vars => DeliveryInv'
  BY DeliveryStep
<1> QED
  BY <1>1, <1>2, ReservationInvariant, PTL DEF Spec
=============================================================================
