--------------------------- MODULE RowGroupPruning ---------------------------
(***************************************************************************)
(* row_group_pruning.rs and nan_counts.rs: which row groups of a Parquet   *)
(* file a task reads, by the byte range it owns and by what the footer's   *)
(* statistics prove about the predicate.  A row group is a record:         *)
(*   first   dictionary or data page offset of its first column            *)
(*   values  the stored values of the predicate's column, row by row       *)
(*   stats   what the footer says about them                               *)
(* Values are integers in Arrow's total order, whose ends are NaNs.        *)
(***************************************************************************)
EXTENDS Integers, Sequences, FiniteSets, FiniteSetsExt, SequencesExt

CONSTANTS
    Null,       \* a NULL value, or a statistic that the footer does not have
    NegNaN,     \* NaNs, below and above every other float
    PosNaN,
    CastMax     \* the largest value that a lossy temporal cast keeps

ASSUME RowGroupPruningAssumption ==
    /\ Null \notin Int /\ Null \notin BOOLEAN
    /\ NegNaN \in Int /\ PosNaN \in Int /\ CastMax \in Int

\* Option<bool>::None, an evaluation that proves nothing.
Unknown == Null

\* cast_leaf_array: a temporal value out of the target's range becomes NULL.
Logical(type, v) == IF type = "Temporal" /\ v # Null /\ v > CastMax THEN Null ELSE v

IsNaN(type, v) == type = "Float" /\ v \in {NegNaN, PosNaN}

Operations == {"IsNull", "NotNull", "Lt", "Ge", "Gt", "Le", "Eq", "Ne"}

(* ---- external: Arrow's evaluation of the predicate, row by row --------- *)
\* A predicate is <<op, literal>>.  A NULL value satisfies only IsNull.
Satisfies(v, predicate) ==
    LET op == predicate[1] lit == predicate[2]
    IN  CASE op = "IsNull"  -> v = Null
          [] op = "NotNull" -> v # Null
          [] op = "Lt" -> v # Null /\ v < lit
          [] op = "Ge" -> v # Null /\ v >= lit
          [] op = "Gt" -> v # Null /\ v > lit
          [] op = "Le" -> v # Null /\ v <= lit
          [] op = "Eq" -> v # Null /\ v = lit
          [] op = "Ne" -> v # Null /\ v # lit

(* ---- external: what a writer puts in the footer ------------------------ *)
\* Bounds leave NaNs out; each statistic may be missing.
WrittenStats(type, values, has) ==
    LET bounded == {values[i] : i \in {j \in DOMAIN values :
                      values[j] # Null /\ ~IsNaN(type, values[j])}}
    IN  [min |-> IF "bounds" \in has /\ bounded # {} THEN Min(bounded) ELSE Null,
         max |-> IF "bounds" \in has /\ bounded # {} THEN Max(bounded) ELSE Null,
         nulls |-> IF "nulls" \in has THEN Quantify(DOMAIN values, LAMBDA i : values[i] = Null)
                   ELSE Null,
         nans |-> IF "nans" \in has
                  THEN Quantify(DOMAIN values, LAMBDA i : IsNaN(type, values[i])) ELSE Null]

\* What a footer says is missing or true of the stored values.
TruthfulStats(type, values, stats) ==
    LET Bounds(i) == values[i] # Null /\ ~IsNaN(type, values[i])
    IN  /\ stats.min = Null \/ (stats.min \in Int /\ \A i \in DOMAIN values : Bounds(i) => stats.min <= values[i])
        /\ stats.max = Null \/ (stats.max \in Int /\ \A i \in DOMAIN values : Bounds(i) => values[i] <= stats.max)
        /\ stats.nulls = Null \/ stats.nulls = Cardinality({i \in DOMAIN values : values[i] = Null})
        /\ stats.nans = Null \/ stats.nans = Cardinality({i \in DOMAIN values : IsNaN(type, values[i])})

-----------------------------------------------------------------------------
\* NanCounts::read keeps a count only of a floating column, and only if it
\* leaves room for the NULLs.
NanCount(type, group) ==
    IF /\ type = "Float" /\ group.stats.nans # Null
       /\ group.stats.nans <= Len(group.values)
       /\ group.stats.nulls # Null => group.stats.nans <= Len(group.values) - group.stats.nulls
    THEN group.stats.nans ELSE Null

\* bounds_may_omit_nan: only a NaN count of zero makes float bounds complete.
BoundsMayOmitNaN(type, group) == type = "Float" /\ NanCount(type, group) # 0

\* min_stat, max_stat, bound: decoded, then cast like the data; a bound that
\* does not survive the cast is no bound.
MinStat(type, group) == IF group.stats.min = Null THEN Null ELSE Logical(type, group.stats.min)
MaxStat(type, group) == IF group.stats.max = Null THEN Null ELSE Logical(type, group.stats.max)

\* get_min_stat, get_max_stat.
GetMinStat(type, group) == IF BoundsMayOmitNaN(type, group) THEN Null ELSE MinStat(type, group)
GetMaxStat(type, group) == IF BoundsMayOmitNaN(type, group) THEN Null ELSE MaxStat(type, group)

\* null_count_stat: a cast may add NULLs unless both bounds survive it.
NullCountStat(type, group) ==
    IF /\ type = "Temporal" /\ group.stats.nulls # Len(group.values)
       /\ (MinStat(type, group) = Null \/ MaxStat(type, group) = Null)
    THEN Null ELSE group.stats.nulls

\* partial_cmp_scalars: whether the ordering of bound and literal is one of
\* those accepted; a NaN, or a missing bound, compares with nothing.
Compare(type, bound, lit, accepted) ==
    LET ordering == IF bound < lit THEN "Less" ELSE IF bound = lit THEN "Equal" ELSE "Greater"
    IN  IF bound = Null \/ IsNaN(type, bound) \/ IsNaN(type, lit) THEN Unknown
        ELSE ordering \in accepted

\* finish_eval_pred_junction of AND and OR.
AndOf(a, b) == IF FALSE \in {a, b} THEN FALSE ELSE IF Unknown \in {a, b} THEN Unknown ELSE TRUE
OrOf(a, b) == IF TRUE \in {a, b} THEN TRUE ELSE IF Unknown \in {a, b} THEN Unknown ELSE FALSE

\* eval_pred_eq: an equality may use bounds that leave NaNs out, its negation not.
EvalPredEq(type, group, lit, inverted) ==
    IF inverted
    THEN OrOf(Compare(type, GetMinStat(type, group), lit, {"Less", "Greater"}),
              Compare(type, GetMaxStat(type, group), lit, {"Less", "Greater"}))
    ELSE AndOf(Compare(type, MinStat(type, group), lit, {"Less", "Equal"}),
               Compare(type, MaxStat(type, group), lit, {"Equal", "Greater"}))

\* eval_pred_is_null.
EvalPredIsNull(type, group, inverted) ==
    LET skip == IF inverted THEN Len(group.values) ELSE 0
    IN  IF NullCountStat(type, group) = Null THEN Unknown
        ELSE NullCountStat(type, group) # skip

\* The evaluator trait's comparisons, from the bound that can refute each.
EvalComparison(type, group, predicate) ==
    LET op == predicate[1] lit == predicate[2]
    IN  CASE op = "Lt" -> Compare(type, GetMinStat(type, group), lit, {"Less"})
          [] op = "Le" -> Compare(type, GetMinStat(type, group), lit, {"Less", "Equal"})
          [] op = "Gt" -> Compare(type, GetMaxStat(type, group), lit, {"Greater"})
          [] op = "Ge" -> Compare(type, GetMaxStat(type, group), lit, {"Equal", "Greater"})
          [] op = "Eq" -> EvalPredEq(type, group, lit, FALSE)
          [] op = "Ne" -> EvalPredEq(type, group, lit, TRUE)

\* eval_sql_where: a comparison also needs a value that is not NULL.
EvalSqlWhere(type, group, predicate) ==
    CASE predicate[1] = "IsNull"  -> EvalPredIsNull(type, group, FALSE)
      [] predicate[1] = "NotNull" -> EvalPredIsNull(type, group, TRUE)
      [] OTHER -> AndOf(EvalPredIsNull(type, group, TRUE), EvalComparison(type, group, predicate))

\* may_contain_matching_rows; the predicate is the AND of a set of predicates.
MayContainMatchingRows(type, group, predicates) ==
    \A p \in predicates : EvalSqlWhere(type, group, p) # FALSE

\* A row group belongs to the range that holds its first page.
Owns(range, group) == range[1] <= group.first /\ group.first < range[2]

\* pruned_row_groups: the intersection of ownership, unless the task reads the
\* whole file, and of what the predicates leave.
PrunedRowGroups(type, groups, whole, range, predicates) ==
    {g \in DOMAIN groups :
       /\ whole \/ Owns(range, groups[g])
       /\ MayContainMatchingRows(type, groups[g], predicates)}
=============================================================================
