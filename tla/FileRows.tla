------------------------------ MODULE FileRows ------------------------------
(***************************************************************************)
(* From a table's data files to the rows a query gets: filter pushdown     *)
(* (datafusion/planning.rs), grouping into partitions and splitting into   *)
(* ranges, dynamic partition pruning at admission                          *)
(* (dynamic_partition_pruning.rs), row-group pruning, row filters and      *)
(* deletion vectors, for both backends.  The interleaving of partitions is *)
(* FileProducers.tla; here the tasks are read one after another.           *)
(***************************************************************************)
EXTENDS FileGrouping, RowGroupPruning, DeletionVectors

CONSTANTS
    Inputs,     \* tables, options and queries: what a scan may be given
    NoVector,   \* a file without deletion vector
    Unparsed    \* a partition value that parse_partition_scalar refuses

\* An input is a record:
\*   files    each [size, groups, deleted, part]
\*   type     physical type of the filtered column: "Int", "Float", "Temporal"
\*   options  of PartitionTarget;  policy, minimum: of repartitioning
\*   backend, batchRows
\*   filters  each [kind, predicate, part]: as translate_filter_for_pushdown
\*            classified it
\*   dynamic  partition values that a join's dynamic filter admits, or NotSet

\* The first page of a row group lies in its file, and the footer tells the truth.
ValidGroup(x, file, group) ==
    /\ group.first \in Nat /\ group.first < file.size
    /\ group.values \in Seq(Int \cup {Null})
    /\ TruthfulStats(x.type, group.values, group.stats)
ValidFile(x, file) ==
    /\ file.size \in Nat
    /\ Len(file.groups) \in Nat /\ DOMAIN file.groups = 1..Len(file.groups)
    /\ \A g \in DOMAIN file.groups : ValidGroup(x, file, file.groups[g])
    /\ file.deleted = NoVector \/ (file.deleted \subseteq Nat /\ IsFiniteSet(file.deleted))
ValidOptions(o) ==
    /\ {o.explicit, o.datafusion, o.parallelism, o.descriptors, o.memory} \subseteq Nat \cup {NotSet}
    /\ {o.minimum, o.multiplier} \subseteq Nat
    /\ {o.descriptorsEach, o.memoryEach} \subseteq Nat \ {0}
ValidFilter(q) ==
    /\ q.kind \in {"Unsupported", "Partition", "DataStats", "MixedAnd"}
    /\ q.predicate = NotSet \/ (q.predicate[1] \in Operations /\ q.predicate[2] \in Int)
    /\ q.kind = "Partition" => q.predicate = NotSet
    /\ q.kind = "DataStats" => q.part = NotSet
ValidInput(x) ==
    /\ Len(x.files) \in Nat /\ DOMAIN x.files = 1..Len(x.files)
    /\ \A f \in DOMAIN x.files : ValidFile(x, x.files[f])
    /\ ValidOptions(x.options) /\ \A q \in x.filters : ValidFilter(q)
    /\ x.backend \in {"Direct", "DeltaKernel"} /\ x.batchRows \in Nat \ {0}

ASSUME InputsAssumption == \A x \in Inputs : ValidInput(x)

VARIABLES
    input,
    phase,          \* "planning", "planned", "reading", "ended" or "failed"
    partitions,     \* DeltaScanPlan::partitions
    repartitioned,  \* DeltaScanExec::file_tasks_repartitioned
    dynamicFilter,  \* the values the filter admits, NotSet while it is a placeholder
    todo,           \* tasks that are not admitted yet
    reading,        \* the open file stream, or Idle
    returned        \* returned[f][r]: how often row r of file f left the query

rowVars == <<input, phase, partitions, repartitioned, dynamicFilter, todo, reading, returned>>

Idle == [file |-> 0, rows |-> <<>>, masker |-> NoVector]
Files == DOMAIN input.files
Sizes == [f \in Files |-> input.files[f].size]
RowValues(f) == FlattenSeq([g \in DOMAIN input.files[f].groups |-> input.files[f].groups[g].values])
RowCount(f) == Len(RowValues(f))
RowsUpTo(groups, g) == SumOf([k \in 1..g |-> Len(groups[k].values)])
GroupOf(groups, row) == Min({g \in DOMAIN groups : row < RowsUpTo(groups, g)})
ValueOf(f, row) == Logical(input.type, RowValues(f)[row + 1])

FileRowsInit ==
    /\ input \in Inputs
    /\ phase = "planning"
    /\ partitions = <<>>
    /\ repartitioned = FALSE
    /\ dynamicFilter = NotSet
    /\ todo = <<>>
    /\ reading = Idle
    /\ returned = [f \in Files |-> [r \in 0..(RowCount(f) - 1) |-> 0]]

-----------------------------------------------------------------------------
(* Filters.  A row passes a filter that has a row predicate, a partition    *)
(* value or both.                                                           *)

PassesPart(f, filter) == filter.part = NotSet \/ input.files[f].part = filter.part
PassesRow(f, row, filter) ==
    filter.predicate = NotSet \/ Satisfies(ValueOf(f, row), filter.predicate)
Passes(f, row, filter) == PassesPart(f, filter) /\ PassesRow(f, row, filter)

\* plan_datafusion_filters: only Direct reads filter rows exactly, and only by
\* data columns.
Pushdown(filter) ==
    CASE filter.kind = "Unsupported" -> "Unsupported"
      [] filter.kind = "Partition" -> "Exact"
      [] filter.kind = "DataStats" -> IF input.backend = "Direct" THEN "Exact" ELSE "Inexact"
      [] filter.kind = "MixedAnd" -> "Inexact"

\* pruning_predicate and exact_row_predicate, as sets to be conjoined.
PruningPredicates ==
    {q.predicate : q \in {x \in input.filters : Pushdown(x) # "Unsupported" /\ x.predicate # NotSet}}
ExactRowPredicates ==
    {q.predicate : q \in {x \in input.filters : Pushdown(x) = "Exact" /\ x.part = NotSet
                                                /\ x.predicate # NotSet}}

\* external: DataFusion applies again what was not pushed down exactly.
Residual(f, row) == \A q \in input.filters : Pushdown(q) # "Exact" => Passes(f, row, q)

-----------------------------------------------------------------------------
(* Planning                                                                 *)

\* external: Delta Kernel's log replay leaves out the files whose partition value
\* fails a pushed-down filter.
PlannedFiles ==
    Ascending({f \in Files : \A q \in input.filters : Pushdown(q) # "Unsupported" => PassesPart(f, q)})

Target == PartitionTarget(input.options)
PlannedSizes == [i \in DOMAIN PlannedFiles |-> Sizes[PlannedFiles[i]]]
GroupedPlan ==
    LET groups == GroupScanFileTasks(PlannedSizes, Target)
    IN  [p \in DOMAIN groups |-> [i \in DOMAIN groups[p] |-> WholeFile(PlannedFiles[groups[p][i].file])]]

\* plan_scan: resolve_partition_target, which may refuse its options, then
\* group_scan_file_tasks over the planned files.
PlanScan ==
    /\ phase = "planning"
    /\ IF OptionsRefused(input.options) \/ GroupingFails(PlannedSizes, Target)
       THEN phase' = "failed" /\ UNCHANGED partitions
       ELSE phase' = "planned" /\ partitions' = GroupedPlan
    /\ UNCHANGED <<input, repartitioned, dynamicFilter, todo, reading, returned>>

\* DeltaScanExec::repartitioned, once and for Direct reads only; an optimizer
\* that does not ask for it leaves the plan as it is.
Repartition ==
    /\ phase = "planned" /\ ~repartitioned /\ input.backend = "Direct"
    /\ Repartitions(partitions, Sizes, Target, input.minimum, input.policy)
    /\ partitions' = RepartitionFileTasks(partitions, Sizes, Target)
    /\ repartitioned' = TRUE
    /\ UNCHANGED <<input, phase, dynamicFilter, todo, reading, returned>>

StartReading ==
    /\ phase = "planned"
    /\ phase' = "reading"
    /\ todo' = FlattenSeq(partitions)
    /\ UNCHANGED <<input, partitions, repartitioned, dynamicFilter, reading, returned>>

-----------------------------------------------------------------------------
(* Reading                                                                  *)

\* external: the join's build side publishes its filter at some point.
PublishFilter ==
    /\ phase = "reading" /\ input.dynamic # NotSet /\ dynamicFilter = NotSet
    /\ dynamicFilter' = input.dynamic
    /\ UNCHANGED <<input, phase, partitions, repartitioned, todo, reading, returned>>

\* evaluate_dynamic_partition_filter: only an evaluation to false prunes; a value
\* that is NULL or cannot be parsed keeps the task.
PrunesTask(f) ==
    /\ dynamicFilter # NotSet
    /\ input.files[f].part \notin dynamicFilter \cup {Null, Unparsed}

\* The Direct reader: row groups by range and statistics, then the row filter.
DirectRows(task) ==
    LET file == input.files[task.file]
        groups == PrunedRowGroups(input.type, file.groups, task.range = Whole, task.range,
                                  PruningPredicates)
    IN  {row \in 0..(RowCount(task.file) - 1) :
           /\ GroupOf(file.groups, row) \in groups
           /\ \A p \in ExactRowPredicates : Satisfies(ValueOf(task.file, row), p)}

KernelPrunesVectorFiles(task, skipped) ==
    {row \in 0..(RowCount(task.file) - 1) : row \notin skipped}

\* read_file: the kernel may skip rows that cannot match, but only of a file
\* without deletion vector, whose rows it need not count.
KernelRows(task, skipped) ==
    {row \in 0..(RowCount(task.file) - 1) :
       input.files[task.file].deleted = NoVector => row \notin skipped}

\* external: row groups of which no row satisfies the pruning predicate.
UnmatchedRows(f) ==
    LET groups == input.files[f].groups
        Rows(g) == RowsUpTo(groups, g - 1)..(RowsUpTo(groups, g) - 1)
    IN  UNION {Rows(g) : g \in {h \in DOMAIN groups :
          \A row \in Rows(h) : \E p \in PruningPredicates : ~Satisfies(ValueOf(f, row), p)}}

\* Only a file with a deletion vector has a masker.
Masked(f) == input.files[f].deleted # NoVector
Opened(task, rows) ==
    [file |-> task.file, rows |-> Ascending(rows),
     masker |-> IF Masked(task.file) THEN NewMasker(input.files[task.file].deleted) ELSE NoVector]

\* The admission policy, then the executor opens the file.  A file of no bytes
\* has no footer, and its read fails (external: the Parquet reader).
AdmitTask ==
    /\ phase = "reading" /\ reading = Idle /\ todo # <<>>
    /\ todo' = Tail(todo)
    /\ LET task == Head(todo)
       IN  IF PrunesTask(task.file) THEN UNCHANGED <<phase, reading>>
           ELSE IF Sizes[task.file] = 0 THEN phase' = "failed" /\ UNCHANGED reading
           ELSE /\ UNCHANGED phase
                /\ IF input.backend = "Direct" THEN reading' = Opened(task, DirectRows(task))
                   ELSE \E skipped \in {{}, UnmatchedRows(task.file)} :
                          reading' = Opened(task, KernelRows(task, skipped))
    /\ UNCHANGED <<input, partitions, repartitioned, dynamicFilter, returned>>

\* next_batch (Direct) and the loop of read_file (kernel): mask a batch, by row
\* numbers or by counting, and hand on what is left of it.
ReadBatch ==
    /\ phase = "reading" /\ reading.rows # <<>>
    /\ LET len == Bounded(input.batchRows, Len(reading.rows))
           batch == SubSeq(reading.rows, 1, len)
           f == reading.file
           m == reading.masker
           mode == IF input.backend = "Direct" THEN "OriginalRowIndex" ELSE "Ordered"
           keep == IF ~Masked(f) THEN [k \in 1..len |-> TRUE]
                   ELSE IF input.backend = "Direct" THEN MaskOriginal(m.rows, batch)
                   ELSE MaskOrdered(m.rows, m.consumed, len)
           out == {batch[k] : k \in {j \in 1..len : keep[j] /\ Residual(f, batch[j])}}
       IN  IF Masked(f) /\ ~AllowsMode(m, mode)
           THEN phase' = "failed" /\ UNCHANGED <<reading, returned>>
           ELSE /\ reading' = [reading EXCEPT
                     !.rows = SubSeq(@, len + 1, Len(@)),
                     !.masker = IF ~Masked(f) THEN NoVector
                                ELSE IF input.backend = "Direct" THEN AfterOriginal(m)
                                ELSE AfterOrdered(m, len)]
                /\ returned' = [returned EXCEPT ![f] =
                     [r \in DOMAIN @ |-> IF r \in out THEN @[r] + 1 ELSE @[r]]]
                /\ UNCHANGED phase
    /\ UNCHANGED <<input, partitions, repartitioned, dynamicFilter, todo>>

\* The file's stream ends: finish_original_row_indexes or finish.
FinishFile ==
    /\ phase = "reading" /\ reading # Idle /\ reading.rows = <<>>
    /\ LET m == reading.masker
       IN  IF \/ ~Masked(reading.file)
              \/ FinishAccepts(IF input.backend = "Direct" THEN AfterOriginal(m) ELSE m)
           THEN reading' = Idle /\ UNCHANGED phase
           ELSE phase' = "failed" /\ UNCHANGED reading
    /\ UNCHANGED <<input, partitions, repartitioned, dynamicFilter, todo, returned>>

EndScan ==
    /\ phase = "reading" /\ reading = Idle /\ todo = <<>>
    /\ phase' = "ended"
    /\ UNCHANGED <<input, partitions, repartitioned, dynamicFilter, todo, reading, returned>>

Over == phase \in {"ended", "failed"} /\ UNCHANGED rowVars

FileRowsNext ==
    \/ PlanScan \/ Repartition \/ StartReading \/ PublishFilter \/ AdmitTask
    \/ ReadBatch \/ FinishFile \/ EndScan \/ Over

FileRowsSpec == FileRowsInit /\ [][FileRowsNext]_rowVars
-----------------------------------------------------------------------------
(* Properties                                                               *)

LiveRow(f, row) == input.files[f].deleted = NoVector \/ row \notin input.files[f].deleted
Wanted(f, row) == LiveRow(f, row) /\ \A q \in input.filters : Passes(f, row, q)
PrunedByJoin(f) ==
    input.dynamic # NotSet /\ input.files[f].part \notin input.dynamic \cup {Null, Unparsed}

\* However files are grouped, split, pruned and filtered, and whichever backend
\* reads them: when the scan ends, the query has every live row that passes its
\* filters exactly once, and no other row.  Only a row that the published join
\* filter rules out may be missing.
RowsReturnedOnce ==
    phase = "ended" =>
      \A f \in Files : \A row \in DOMAIN returned[f] :
        /\ Wanted(f, row) /\ ~PrunedByJoin(f) => returned[f][row] = 1
        /\ Wanted(f, row) => returned[f][row] <= 1
        /\ ~Wanted(f, row) => returned[f][row] = 0

Places == UNION {{p} \X DOMAIN partitions[p] : p \in DOMAIN partitions}
TasksOf(f) == {t \in Places : partitions[t[1]][t[2]].file = f}
RangeOf(t) == LET task == partitions[t[1]][t[2]]
              IN  IF task.range = Whole THEN <<0, Sizes[task.file]>> ELSE task.range
BytesIn(p) == SumOf([i \in DOMAIN partitions[p] |-> RangeOf(<<p, i>>)[2] - RangeOf(<<p, i>>)[1]])

Holds(t, byte) == RangeOf(t)[1] <= byte /\ byte < RangeOf(t)[2]
Tiled(f) ==
    /\ TasksOf(f) # {}
    /\ \A t \in TasksOf(f) :
         /\ 0 <= RangeOf(t)[1] /\ RangeOf(t)[2] <= Sizes[f]
         /\ RangeOf(t)[1] < RangeOf(t)[2] \/ TasksOf(f) = {t}
    /\ \A byte \in 0..(Sizes[f] - 1) :
         \E t \in TasksOf(f) : Holds(t, byte) /\ \A u \in TasksOf(f) : Holds(u, byte) => u = t

\* The tasks of every planned file tile its bytes without gap or overlap, no
\* partition is empty, there are at most as many as the target allows, and no
\* partition could have given its smallest file to a lighter one.
PlanTilesFiles ==
    phase \in {"planned", "reading", "ended"} =>
      /\ \A f \in Files : IF f \in Range(PlannedFiles) THEN Tiled(f) ELSE TasksOf(f) = {}
      /\ Len(partitions) <= Target
      /\ \A p, q \in DOMAIN partitions :
           /\ partitions[p] # <<>>
           /\ IF repartitioned THEN BytesIn(p) <= CeilDiv(SumOf(PlannedSizes), Target)
              ELSE /\ BytesIn(p) - Sizes[Last(partitions[p]).file] <= BytesIn(q)
                   /\ SumOf(PlannedSizes) = 0 => Len(partitions[p]) - Len(partitions[q]) \in -1..1

Beyond(f) == Masked(f) /\ \E row \in input.files[f].deleted : row >= RowCount(f)

\* A deletion vector that names rows past the end of its file stops a counted
\* (kernel) read instead of being dropped; nothing else about rows, ranges or
\* modes makes a read fail.
CorruptionReported ==
    /\ phase = "failed" =>
         \/ partitions = <<>>
         \/ \E f \in Files : Sizes[f] = 0
         \/ input.backend = "DeltaKernel" /\ \E f \in Files : Beyond(f)
    /\ phase = "ended" /\ input.backend = "DeltaKernel" =>
         \A f \in Files : Beyond(f) => f \notin Range(PlannedFiles) \/ PrunedByJoin(f)

-----------------------------------------------------------------------------
(* Inductive invariants                                                     *)

\* Behind PlanTilesFiles: the plan is a function of the input.
PlanInv ==
    /\ ValidInput(input)
    /\ phase \in {"planning", "planned", "reading", "ended", "failed"}
    /\ phase = "planning" => partitions = <<>> /\ repartitioned = FALSE
    /\ phase \in {"planned", "reading", "ended"} =>
         /\ ~GroupingFails(PlannedSizes, Target)
         /\ \/ repartitioned = FALSE /\ partitions = GroupedPlan
            \/ /\ repartitioned = TRUE /\ input.backend = "Direct"
               /\ Repartitions(GroupedPlan, Sizes, Target, input.minimum, input.policy)
               /\ partitions = RepartitionFileTasks(GroupedPlan, Sizes, Target)

\* The tasks in the order of admission, how many are admitted, and the rows that
\* a task has to read.
Tasks == FlattenSeq(partitions)
Admitted == Len(Tasks) - Len(todo)
Reads(task, f, row) ==
    /\ task.file = f
    /\ LET groups == input.files[f].groups
       IN  task.range = Whole \/ Owns(task.range, groups[GroupOf(groups, row)])

\* Predicates of a read's state: r is the open file stream, counts what was
\* returned, admitted the number of tasks admitted.
InHand(r, f, row) == r.file = f /\ row \in Range(r.rows)

\* A row is returned once its task has read it, and never again.
RowOK(count, inHand, admitted, f, row) ==
    /\ count \in {0, 1}
    /\ count = 1 => Wanted(f, row) /\ ~inHand /\ \E k \in 1..admitted : Reads(Tasks[k], f, row)
    /\ Wanted(f, row) /\ ~PrunedByJoin(f) /\ ~inHand =>
         \A k \in 1..admitted : Reads(Tasks[k], f, row) => count = 1
RowsOK(counts, r, admitted) ==
    \A f \in Files : \A row \in 0..(RowCount(f) - 1) :
      RowOK(counts[f][row], InHand(r, f, row), admitted, f, row)

\* The masker of an open file; a counted read has every row in hand from the one
\* it has counted to.
MaskerOK(m, f, rows) ==
    /\ m.rows = DeletionVectorRows(input.files[f].deleted) /\ m.consumed \in Nat
    /\ m = [rows |-> m.rows, consumed |-> m.consumed, mode |-> m.mode]
    /\ input.backend = "Direct" => m.mode \in {"Unused", "OriginalRowIndex"}
    /\ input.backend = "DeltaKernel" =>
         /\ m.mode \in {"Unused", "Ordered"} /\ m.consumed <= RowCount(f)
         /\ rows = [i \in 1..(RowCount(f) - m.consumed) |-> m.consumed + i - 1]

\* An open file belongs to the task admitted last.
OpenOK(r, f, admitted) ==
    /\ r = [file |-> f, rows |-> r.rows, masker |-> r.masker]
    /\ f \in Files /\ admitted >= 1 /\ Tasks[admitted].file = f
    /\ r.rows \in Seq(0..(RowCount(f) - 1))
    /\ \A j, k \in DOMAIN r.rows : j < k => r.rows[j] < r.rows[k]
    /\ \A row \in Range(r.rows) :
         /\ Reads(Tasks[admitted], f, row)
         /\ \A q \in input.filters : Pushdown(q) = "Exact" => Passes(f, row, q)
    /\ Masked(f) => MaskerOK(r.masker, f, r.rows)

\* A counted read does not get past a vector that names rows beyond its file.
BeyondOK(r, admitted) ==
    input.backend = "DeltaKernel" =>
      \A k \in 1..admitted : Beyond(Tasks[k].file) =>
        PrunedByJoin(Tasks[k].file) \/ (r # Idle /\ k = admitted)

ReadOK(left, filter, r, counts, admitted) ==
    /\ admitted \in 0..Len(Tasks) /\ left = SubSeq(Tasks, admitted + 1, Len(Tasks))
    /\ filter \in {NotSet, input.dynamic}
    /\ r = Idle \/ OpenOK(r, r.file, admitted)
    /\ RowsOK(counts, r, admitted) /\ BeyondOK(r, admitted)
ReadInv == ReadOK(todo, dynamicFilter, reading, returned, Admitted)

\* Behind RowsReturnedOnce and CorruptionReported.
FileRowsInv ==
    /\ PlanInv
    /\ returned = [f \in Files |-> [r \in 0..(RowCount(f) - 1) |-> returned[f][r]]]
    /\ phase \in {"planning", "planned"} =>
         /\ todo = <<>> /\ reading = Idle /\ dynamicFilter = NotSet
         /\ \A f \in Files : \A row \in 0..(RowCount(f) - 1) : returned[f][row] = 0
    /\ phase \in {"reading", "ended"} => ReadInv
    /\ phase = "ended" => reading = Idle /\ todo = <<>>
    /\ phase = "failed" =>
         \/ partitions = <<>>
         \/ \E f \in Files : Sizes[f] = 0
         \/ input.backend = "DeltaKernel" /\ \E f \in Files : Beyond(f)
=============================================================================
