----------------------------- MODULE MCFileRows -----------------------------
(* Instances of FileRows for TLC.                                           *)
EXTENDS FileRows

Options(target) ==
    [explicit |-> target, datafusion |-> NotSet, parallelism |-> NotSet, minimum |-> 1,
     multiplier |-> 4, descriptors |-> NotSet, descriptorsEach |-> 2,
     memory |-> NotSet, memoryEach |-> 2]
\* 4 x 1 partitions, capped by descriptors, memory or DataFusion's own target.
Derived(df, fds, mem) ==
    [Options(NotSet) EXCEPT !.parallelism = 1, !.datafusion = df, !.descriptors = fds, !.memory = mem]

Scan(files, type, options, policy, backend, batch, filters, dynamic) ==
    [files |-> files, type |-> type, options |-> options, policy |-> policy, minimum |-> 0,
     backend |-> backend, batchRows |-> batch, filters |-> filters, dynamic |-> dynamic]

(* Grouping: many sizes, no rows.                                           *)
Empty(size) == [size |-> size, groups |-> <<>>, deleted |-> NoVector, part |-> "a"]
SizeLists == UNION {[1..n -> {0, 1, 3, 4}] : n \in 0..3} \cup [1..4 -> {1, 2, 5}]
GroupingInputs ==
    {Scan([i \in DOMAIN sizes |-> Empty(sizes[i])], "Int", o, policy, "Direct", 1, {}, NotSet) :
       sizes \in SizeLists,
       o \in {Options(0), Options(2), Options(3), Derived(NotSet, 5, 9), Derived(3, 1, NotSet),
             Derived(0, 1, NotSet)},
       policy \in {"WhenBelowTarget", "Always"}}

(* Rows: two row groups, statistics and deletion vectors of every kind.     *)
Group(type, first, values, has) ==
    [first |-> first, values |-> values, stats |-> WrittenStats(type, values, has)]
All == {"bounds", "nulls", "nans"}
DataFilter(op, lit) == [kind |-> "DataStats", predicate |-> <<op, lit>>, part |-> NotSet]
OfType(type) == CASE type = "Float" -> {NegNaN, 1, 2, PosNaN, Null}
                  [] type = "Temporal" -> {1, 2, 3, Null}
Ops == {"Lt", "Le", "Gt", "Ge", "Eq", "Ne", "IsNull", "NotNull"}
PruningInputs ==
    {Scan(<<[size |-> 6, groups |-> <<Group(type, 1, <<v, w>>, has), Group(type, 3, <<2, Null>>, All)>>,
             deleted |-> NoVector, part |-> "a"]>>,
          type, Options(target), "WhenBelowTarget", "Direct", 2, {DataFilter(op, lit)}, NotSet) :
       type \in {"Float", "Temporal"}, v \in OfType("Float") \cup OfType("Temporal"), w \in {1, 2, 3},
       has \in {{}, All, {"bounds", "nulls"}, {"bounds", "nans"}, {"nulls", "nans"}},
       op \in Ops, lit \in {2, PosNaN}, target \in {1, 4}}

Vectors == {NoVector, {}, {0}, {1, 2}, {0, 4}, {3}, {4}, {1, 7}}
QuerySets == {{}, {DataFilter("Eq", 2)},
              {[kind |-> "Unsupported", predicate |-> <<"Ne", 1>>, part |-> NotSet], DataFilter("Gt", 1)},
              {[kind |-> "Partition", predicate |-> NotSet, part |-> "a"]},
              {[kind |-> "MixedAnd", predicate |-> <<"Lt", 2>>, part |-> "a"], DataFilter("NotNull", 0)}}
VectorInputs ==
    {Scan(<<[size |-> 7, deleted |-> vector, part |-> "a",
             groups |-> <<Group("Int", 1, <<1, 1>>, All), Group("Int", 4, <<2, 1, 2>>, All)>>],
            [size |-> 5, deleted |-> NoVector, part |-> part,
             groups |-> <<Group("Int", 0, <<2>>, All), Group("Int", 2, <<Null>>, All)>>]>>,
          "Int", Options(target), "Always", backend, batch, filters, dynamic) :
       vector \in Vectors, part \in {"b", Null, Unparsed}, target \in {1, 3},
       backend \in {"Direct", "DeltaKernel"}, batch \in {2, 3}, filters \in QuerySets,
       dynamic \in {NotSet, {"a"}, {"b"}}}

MCInputs == GroupingInputs \cup PruningInputs \cup VectorInputs
=============================================================================
