---------------------------- MODULE FileGrouping ----------------------------
(***************************************************************************)
(* How the data files of a scan become the file tasks of its partitions:   *)
(* the partition target (partition_target.rs), whole-file grouping         *)
(* (planning.rs) and DataFusion's splitting into byte ranges               *)
(* (datafusion/execution.rs).  A task is [file, range], where range is     *)
(* Whole or <<start, end>>; a partition is a sequence of tasks.            *)
(***************************************************************************)
EXTENDS Ordering, FiniteSetsExt, SequencesExt

CONSTANTS
    MaxBytes,       \* u64::MAX
    NotSet,         \* an option that is not set, a limit that is not known
    Whole           \* no parquet_byte_range

ASSUME FileGroupingAssumption == MaxBytes \in Nat /\ Whole \notin Nat \X Nat

Bounded(a, b) == IF a <= b THEN a ELSE b
CeilDiv(a, b) == (a + b - 1) \div b

\* validate_positive: an option of zero is an invalid configuration; with an
\* explicit target the derived one's options are not looked at.
OptionsRefused(o) ==
    \/ 0 \in {o.minimum, o.multiplier, o.descriptorsEach, o.memoryEach, o.explicit}
    \/ o.explicit = NotSet /\ 0 \in {o.datafusion, o.parallelism}

\* derive_delta_scan_partition_target_diagnostic: an explicit target wins; a
\* derived one is capped by DataFusion's, by file descriptors and by memory.
PartitionTarget(o) ==
    LET AtLeastOne(n) == IF n < 1 THEN 1 ELSE n
        derived == IF o.parallelism = NotSet THEN o.minimum
                   ELSE Max({o.parallelism * o.multiplier, o.minimum})
        caps == {c \in {o.datafusion,
                        IF o.descriptors = NotSet THEN NotSet
                        ELSE AtLeastOne(o.descriptors \div o.descriptorsEach),
                        IF o.memory = NotSet THEN NotSet
                        ELSE AtLeastOne(o.memory \div o.memoryEach)} : c # NotSet}
    IN  IF o.explicit # NotSet THEN o.explicit
        ELSE AtLeastOne(Min(caps \cup {derived}))

-----------------------------------------------------------------------------
WholeFile(f) == [file |-> f, range |-> Whole]

\* One step of group_by_file_count: the next partition takes an even share of the
\* files that are left for it and the partitions after it.
TakeFiles(acc, k, count, limit) ==
    LET take == CeilDiv(count - acc.used, limit - (k - 1))
    IN  [used |-> acc.used + take,
         groups |-> Append(acc.groups, [i \in 1..take |-> WholeFile(acc.used + i)])]

\* group_by_file_count: contiguous runs of files, as even as possible.
GroupByFileCount(sizes, target) ==
    LET limit == Bounded(target, Len(sizes))
    IN  FoldLeft(LAMBDA acc, k : TakeFiles(acc, k, Len(sizes), limit),
                 [used |-> 0, groups |-> <<>>], [k \in 1..limit |-> k]).groups

\* group_by_estimated_bytes: the largest files first, stable for equal sizes,
\* each to the partition with the fewest bytes so far, the first of equals.
LeastLoaded(loads) ==
    CHOOSE p \in DOMAIN loads :
      \A q \in DOMAIN loads : loads[p] < loads[q] \/ (loads[p] = loads[q] /\ p <= q)

LoadOf(group, sizes) == SumOf([i \in DOMAIN group |-> sizes[group[i].file]])
LargestFirst(sizes) ==
    InOrder(DOMAIN sizes, LAMBDA f, g : sizes[f] > sizes[g] \/ (sizes[f] = sizes[g] /\ f < g))

AssignFile(groups, f, sizes, limit) ==
    IF Len(groups) < limit THEN Append(groups, <<WholeFile(f)>>)
    ELSE LET least == LeastLoaded([p \in DOMAIN groups |-> LoadOf(groups[p], sizes)])
         IN  [groups EXCEPT ![least] = Append(@, WholeFile(f))]

GroupByEstimatedBytes(sizes, target) ==
    LET limit == Bounded(target, Len(sizes))
    IN  FoldLeft(LAMBDA groups, f : AssignFile(groups, f, sizes, limit), <<>>, LargestFirst(sizes))

\* group_scan_file_tasks refuses a target of zero, and checked_sum a total above
\* u64, so the loads, which are parts of it, cannot overflow.
GroupingFails(sizes, target) == target = 0 \/ SumOf(sizes) > MaxBytes

GroupScanFileTasks(sizes, target) ==
    IF sizes = <<>> THEN <<>>
    ELSE IF SumOf(sizes) = 0 THEN GroupByFileCount(sizes, target)
    ELSE GroupByEstimatedBytes(sizes, target)

-----------------------------------------------------------------------------
(* external: DataFusion's FileGroupPartitioner.  The files are laid end to  *)
(* end and cut into cells of ceil(total / target) bytes, one group each.    *)

TotalBytes(files, sizes) == SumOf([i \in DOMAIN files |-> sizes[files[i]]])
BytesBefore(files, sizes, i) == SumOf([j \in 1..(i - 1) |-> sizes[files[j]]])

\* The cells that file i meets, and its piece in one of them.
Cells(files, sizes, step, i) ==
    LET start == BytesBefore(files, sizes, i)
    IN  (start \div step)..((start + sizes[files[i]] - 1) \div step)

Piece(files, sizes, step, i, c) ==
    LET start == BytesBefore(files, sizes, i)
    IN  [file |-> files[i],
         range |-> <<IF start < c * step THEN c * step - start ELSE 0,
                     Bounded(start + sizes[files[i]], (c + 1) * step) - start>>]

CellGroup(files, sizes, step, c) ==
    LET members == Ascending({i \in DOMAIN files : c \in Cells(files, sizes, step, i)})
    IN  [k \in DOMAIN members |-> Piece(files, sizes, step, members[k], c)]

RepartitionFileGroups(files, sizes, target) ==
    LET step == CeilDiv(TotalBytes(files, sizes), target)
    IN  [c \in 1..CeilDiv(TotalBytes(files, sizes), step) |-> CellGroup(files, sizes, step, c - 1)]

\* allows_repartitioning of IntraFileRepartitioning.
AllowsRepartitioning(policy, current, target) ==
    policy = "Always" \/ current < target

TaskKeepsOnlyEnd(piece, sizes) ==
    IF piece.range[2] = sizes[piece.file] THEN WholeFile(piece.file) ELSE piece

\* task_from_partitioned_file: a range that is the whole file is no range.
TaskFromPartitionedFile(piece, sizes) ==
    IF piece.range = <<0, sizes[piece.file]>> THEN WholeFile(piece.file) ELSE piece

\* repartition_file_tasks: whether there is a new plan, and what it is.  A file of
\* no bytes cannot be split (partitioned_file_from_task), and DataFusion leaves
\* fewer than the minimum of bytes alone.
FilesOf(partitions) ==
    FlattenSeq([p \in DOMAIN partitions |-> [i \in DOMAIN partitions[p] |-> partitions[p][i].file]])

Repartitions(partitions, sizes, target, minimum, policy) ==
    LET files == FilesOf(partitions)
    IN  /\ AllowsRepartitioning(policy, Len(partitions), target)
        /\ \A i \in DOMAIN files : sizes[files[i]] # 0
        /\ files # <<>> /\ TotalBytes(files, sizes) >= minimum

RepartitionFileTasks(partitions, sizes, target) ==
    LET groups == RepartitionFileGroups(FilesOf(partitions), sizes, target)
    IN  [p \in DOMAIN groups |->
           [i \in DOMAIN groups[p] |-> TaskFromPartitionedFile(groups[p][i], sizes)]]
=============================================================================
