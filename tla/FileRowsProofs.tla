--------------------------- MODULE FileRowsProofs ---------------------------
(***************************************************************************)
(* Proofs about FileRows, for any files, row groups, deletion vectors,     *)
(* filters, partition targets and batch sizes.                             *)
(***************************************************************************)
EXTENDS FileRows, SequenceLemmas

-----------------------------------------------------------------------------
(* Sequences laid end to end.                                              *)

Lengths(ss) == [k \in 1..Len(ss) |-> Len(ss[k])]

\* Member i of sequence k has this position.
At(ss, k, i) == Prefix(Lengths(ss), k - 1) + i

IsFlat(s, ss, A) ==
    /\ s \in Seq(A) /\ Len(s) = SumOf(Lengths(ss))
    /\ \A k \in 1..Len(ss) : \A i \in 1..Len(ss[k]) :
         At(ss, k, i) \in 1..Len(s) /\ s[At(ss, k, i)] = ss[k][i]
    /\ \A x \in 1..Len(s) : \E k \in 1..Len(ss) : \E i \in 1..Len(ss[k]) : x = At(ss, k, i)

IsConcat(r, s, t) ==
    /\ Len(r) = Len(s) + Len(t)
    /\ \A i \in 1..Len(s) : r[i] = s[i]
    /\ \A i \in 1..Len(t) : r[Len(s) + i] = t[i]

LEMMA ConcatIs ==
    ASSUME NEW A, NEW s \in Seq(A), NEW t \in Seq(A)
    PROVE  IsConcat(s \o t, s, t)
BY DEF IsConcat

LEMMA AppendIs ==
    ASSUME NEW A, NEW s \in Seq(A), NEW x \in A
    PROVE  /\ Len(Append(s, x)) = Len(s) + 1
           /\ \A p \in 1..(Len(s) + 1) : Append(s, x)[p] = IF p = Len(s) + 1 THEN x ELSE s[p]
OBVIOUS

\* FlattenSeq concatenates from the left.
LEMMA FlattenRun ==
    ASSUME NEW A, NEW n \in Nat, NEW ss \in [1..n -> Seq(A)]
    PROVE  \E run \in [0..n -> Seq(A)] :
             run[0] = <<>> /\ (\A k \in 1..n : run[k] = run[k - 1] \o ss[k]) /\ FlattenSeq(ss) = run[n]
<1> DEFINE step == [p \in Seq(A) \X (1..n) |-> p[1] \o ss[p[2]]]
<1>1. step \in [Seq(A) \X (1..n) -> Seq(A)] /\ <<>> \in Seq(A)
  OBVIOUS
<1>2. \A a \in Seq(A), k \in 1..n : step[<<a, k>>] = a \o ss[k]
  OBVIOUS
<1> HIDE DEF step
<1>3. PICK run \in [0..n -> Seq(A)] : run[0] = <<>> /\ \A k \in 1..n : run[k] = step[<<run[k - 1], k>>]
  <2> DEFINE B == Seq(A)
             none == <<>>
  <2>1. step \in [B \X (1..n) -> B] /\ none \in B
    BY <1>1
  <2> HIDE DEF B, none
  <2>2. PICK run : Recurs(run, B, n, none, step)
    BY <2>1, RecursionExists, Zenon
  <2> QED
    BY <2>2, Zenon DEF B, none, Recurs
<1>4. ASSUME NEW k \in 1..n PROVE run[k] = run[k - 1] \o ss[k]
  <2>1. run[k - 1] \in Seq(A)
    OBVIOUS
  <2> QED
    BY <1>2, <1>3, <2>1
<1>5. ss \in Seq(Seq(A)) /\ Len(ss) = n
  OBVIOUS
<1>6. CASE n = 0
  <2>1. FlattenSeq(ss) = ss
    BY <1>5, <1>6 DEF FlattenSeq
  <2>2. ss = <<>>
    BY <1>5, <1>6
  <2> QED
    BY <1>3, <1>4, <1>6, <2>1, <2>2
<1>7. CASE n # 0
  <2> DEFINE Solves(g) == g = [i \in 1..n |-> IF i = 1 THEN ss[i] ELSE g[i - 1] \o ss[i]]
             flatten == CHOOSE g : Solves(g)
  <2>1. FlattenSeq(ss) = flatten[n]
    BY <1>5, <1>7, Zenon DEF FlattenSeq
  <2>2. \E g : Solves(g)
    <3> DEFINE g == [i \in 1..n |-> run[i]]
    <3>1. ASSUME NEW i \in 1..n PROVE run[i] = IF i = 1 THEN ss[i] ELSE g[i - 1] \o ss[i]
      <4>1. CASE i = 1
        <5>1. run[i] = run[0] \o ss[i]
          BY <1>4, <4>1
        <5> QED
          BY <1>3, <4>1, <5>1
      <4>2. CASE i # 1
        <5>1. i - 1 \in 1..n
          BY <4>2
        <5> QED
          BY <1>4, <4>2, <5>1
      <4> QED
        BY <4>1, <4>2
    <3>2. Solves(g)
      BY <3>1
    <3> QED
      BY <3>2
  <2>3. Solves(flatten)
    BY <2>2, Zenon
  <2> HIDE DEF flatten
  <2>4. /\ flatten[1] = ss[1]
        /\ \A i \in 1..n : i # 1 => flatten[i] = flatten[i - 1] \o ss[i]
    <3> DEFINE F(i) == IF i = 1 THEN ss[i] ELSE flatten[i - 1] \o ss[i]
    <3>1. flatten = [i \in 1..n |-> F(i)]
      BY <2>3, Zenon
    <3> HIDE DEF F
    <3>2. \A i \in 1..n : flatten[i] = F(i)
      BY <3>1
    <3>3. 1 \in 1..n
      BY <1>7
    <3> QED
      BY <3>2, <3>3, Zenon DEF F
  <2> DEFINE S == {k \in 0..n : k = 0 \/ flatten[k] = run[k]}
  <2>5. 0 \in S
    OBVIOUS
  <2>6. ASSUME NEW k \in 0..(n - 1), k \in S PROVE k + 1 \in S
    <3>1. k + 1 \in 1..n /\ (k + 1) - 1 = k /\ k + 1 \in 0..n
      OBVIOUS
    <3>2. CASE k = 0
      <4>1. run[1] = run[0] \o ss[1] /\ ss[1] \in Seq(A)
        BY <1>4, <3>1, <3>2
      <4> QED
        BY <1>3, <2>4, <3>1, <3>2, <4>1
    <3>3. CASE k # 0
      <4>1. k + 1 # 1
        BY <3>3
      <4>2. /\ flatten[k + 1] = flatten[(k + 1) - 1] \o ss[k + 1]
            /\ run[k + 1] = run[(k + 1) - 1] \o ss[k + 1]
        BY <1>4, <2>4, <3>1, <4>1, Zenon
      <4>3. flatten[k] = run[k]
        BY <2>6, <3>3
      <4> QED
        BY <3>1, <4>2, <4>3
    <3> QED
      BY <3>2, <3>3
  <2> HIDE DEF S
  <2>7. \A k \in 0..n : k \in S
    BY ONLY n \in Nat, <2>5, <2>6, IntervalInduction
  <2>8. flatten[n] = run[n]
    BY <1>7, <2>7 DEF S
  <2> QED
    BY <1>3, <1>4, <2>1, <2>8
<1> QED
  BY <1>6, <1>7

LEMMA LengthsIs ==
    ASSUME NEW A, NEW ss \in Seq(Seq(A))
    PROVE  /\ Len(ss) \in Nat /\ ss \in [1..Len(ss) -> Seq(A)]
           /\ Lengths(ss) \in [1..Len(ss) -> Nat]
           /\ \A k \in 1..Len(ss) : Lengths(ss)[k] = Len(ss[k])
<1>1. Len(ss) \in Nat /\ ss \in [1..Len(ss) -> Seq(A)]
  OBVIOUS
<1>2. \A k \in 1..Len(ss) : Len(ss[k]) \in Nat
  BY <1>1
<1> QED
  BY <1>1, <1>2 DEF Lengths

LEMMA FlattenIs ==
    ASSUME NEW A, NEW ss \in Seq(Seq(A))
    PROVE  IsFlat(FlattenSeq(ss), ss, A)
<1> DEFINE n == Len(ss)
           lens == Lengths(ss)
           s == FlattenSeq(ss)
<1>1. /\ n \in Nat /\ ss \in [1..n -> Seq(A)]
      /\ lens \in [1..n -> Nat] /\ \A k \in 1..n : lens[k] = Len(ss[k])
  BY LengthsIs
<1> HIDE DEF n, lens, s
<1>2. PICK run \in [0..n -> Seq(A)] :
        run[0] = <<>> /\ (\A k \in 1..n : run[k] = run[k - 1] \o ss[k]) /\ s = run[n]
  BY <1>1, FlattenRun DEF s
<1>3. /\ Prefix(lens, 0) = 0 /\ SumOf(lens) = Prefix(lens, n)
      /\ \A k \in 1..n : Prefix(lens, k) = Prefix(lens, k - 1) + lens[k]
  <2>1. lens \in [1..n -> Int]
    BY <1>1
  <2> QED
    BY <1>1, <2>1, PrefixSums
<1>4. /\ \A k \in 0..n : Prefix(lens, k) \in Nat
      /\ \A j, k \in 0..n : j <= k => Prefix(lens, j) <= Prefix(lens, k)
  BY <1>1, PrefixGrows
<1> DEFINE S == {k \in 0..n : /\ Len(run[k]) = Prefix(lens, k)
                              /\ \A j \in 1..k : \A i \in 1..lens[j] :
                                   run[k][Prefix(lens, j - 1) + i] = ss[j][i]}
<1>5. 0 \in S
  BY <1>1, <1>2, <1>3
<1>6. ASSUME NEW k \in 0..(n - 1), k \in S PROVE k + 1 \in S
  <2>1. k + 1 \in 1..n /\ (k + 1) - 1 = k /\ k \in 0..n /\ k + 1 \in 0..n
    BY <1>1
  <2>2. run[k + 1] = run[k] \o ss[k + 1] /\ run[k] \in Seq(A) /\ ss[k + 1] \in Seq(A)
    BY <1>1, <1>2, <2>1
  <2>3. Prefix(lens, k + 1) = Prefix(lens, k) + lens[k + 1] /\ lens[k + 1] = Len(ss[k + 1])
    BY <1>1, <1>3, <2>1
  <2>4. Len(run[k]) = Prefix(lens, k) /\ Prefix(lens, k) \in Nat
    BY <1>4, <1>6, <2>1
  <2>8. IsConcat(run[k] \o ss[k + 1], run[k], ss[k + 1])
    BY <2>2, ConcatIs
  <2>7. /\ Len(run[k + 1]) = Len(run[k]) + Len(ss[k + 1])
        /\ \A i \in 1..Len(run[k]) : run[k + 1][i] = run[k][i]
        /\ \A i \in 1..Len(ss[k + 1]) : run[k + 1][Len(run[k]) + i] = ss[k + 1][i]
    BY <2>2, <2>8, Zenon DEF IsConcat
  <2>5. Len(run[k + 1]) = Prefix(lens, k + 1)
    BY <2>2, <2>3, <2>4, <2>7
  <2>6. ASSUME NEW j \in 1..(k + 1), NEW i \in 1..lens[j]
        PROVE  run[k + 1][Prefix(lens, j - 1) + i] = ss[j][i]
    <3>1. j \in 1..n /\ j - 1 \in 0..n /\ lens[j] \in Nat /\ Prefix(lens, j - 1) \in Nat
      <4>1. j \in 1..n /\ j - 1 \in 0..n
        BY <1>1, <2>1
      <4> QED
        BY <1>1, <1>4, <4>1
    <3>2. CASE j = k + 1
      <4>1. i \in 1..Len(ss[k + 1]) /\ j - 1 = k
        BY <2>1, <2>3, <3>2
      <4> QED
        BY <2>2, <2>4, <2>7, <3>2, <4>1
    <3>3. CASE j # k + 1
      <4>1. j \in 1..k /\ j \in 0..n /\ j <= k
        BY <3>1, <3>3
      <4>2. Prefix(lens, j) = Prefix(lens, j - 1) + lens[j] /\ Prefix(lens, j) <= Prefix(lens, k)
        BY <1>3, <1>4, <2>1, <3>1, <4>1
      <4>3. Prefix(lens, j - 1) + i \in 1..Len(run[k])
        BY <2>4, <3>1, <4>2
      <4>4. run[k][Prefix(lens, j - 1) + i] = ss[j][i]
        BY <1>6, <4>1
      <4> QED
        BY <2>2, <2>7, <4>3, <4>4
    <3> QED
      BY <3>2, <3>3
  <2> QED
    BY <2>1, <2>5, <2>6
<1> HIDE DEF S
<1>7. \A k \in 0..n : k \in S
  BY ONLY <1>1, <1>5, <1>6, IntervalInduction
<1>8. /\ Len(s) = SumOf(lens)
      /\ \A j \in 1..n : \A i \in 1..lens[j] : s[Prefix(lens, j - 1) + i] = ss[j][i]
  <2>1. n \in S
    BY <1>1, <1>7
  <2> QED
    BY <1>2, <1>3, <2>1 DEF S
<1>9. s \in Seq(A)
  BY <1>1, <1>2
<1>10. ASSUME NEW k \in 1..n, NEW i \in 1..lens[k] PROVE Prefix(lens, k - 1) + i \in 1..Len(s)
  <2>1. k - 1 \in 0..n /\ k \in 0..n /\ n \in 0..n /\ k <= n /\ lens[k] \in Nat
    BY <1>1
  <2>2. Prefix(lens, k) = Prefix(lens, k - 1) + lens[k] /\ Prefix(lens, k) <= Prefix(lens, n)
    BY <1>3, <1>4, <2>1
  <2>3. Prefix(lens, k - 1) \in Nat /\ Prefix(lens, n) \in Nat
    BY <1>4, <2>1
  <2> QED
    BY <1>3, <1>8, <2>1, <2>2, <2>3
<1>11. ASSUME NEW x \in 1..Len(s)
       PROVE  \E k \in 1..n : \E i \in 1..lens[k] : x = Prefix(lens, k - 1) + i
  <2>1. x - 1 \in Nat /\ x - 1 < SumOf(lens)
    BY <1>3, <1>4, <1>1, <1>8
  <2>2. PICK k \in 1..n : Prefix(lens, k - 1) <= x - 1 /\ x - 1 < Prefix(lens, k)
    BY <1>1, <2>1, PrefixLocates
  <2>3. k - 1 \in 0..n /\ Prefix(lens, k) = Prefix(lens, k - 1) + lens[k] /\ lens[k] \in Nat
    BY <1>1, <1>3
  <2>4. Prefix(lens, k - 1) \in Nat
    BY <1>4, <2>3
  <2>5. x - Prefix(lens, k - 1) \in 1..lens[k] /\ x = Prefix(lens, k - 1) + (x - Prefix(lens, k - 1))
    BY <2>2, <2>3, <2>4
  <2> QED
    BY <2>5
<1> QED
  BY <1>1, <1>8, <1>9, <1>10, <1>11 DEF IsFlat, At, n, lens, s

-----------------------------------------------------------------------------
(* The partition target.                                                   *)

\* Whatever options are set, the target is a natural number.
LEMMA TargetIsNat ==
    ASSUME NEW o, ValidOptions(o)
    PROVE  PartitionTarget(o) \in Nat
<1> DEFINE AtLeastOne(n) == IF n < 1 THEN 1 ELSE n
           derived == IF o.parallelism = NotSet THEN o.minimum
                      ELSE Max({o.parallelism * o.multiplier, o.minimum})
           caps == {c \in {o.datafusion,
                           IF o.descriptors = NotSet THEN NotSet
                           ELSE AtLeastOne(o.descriptors \div o.descriptorsEach),
                           IF o.memory = NotSet THEN NotSet
                           ELSE AtLeastOne(o.memory \div o.memoryEach)} : c # NotSet}
<1>1. /\ o.explicit # NotSet => o.explicit \in Nat
      /\ o.datafusion # NotSet => o.datafusion \in Nat
      /\ o.parallelism # NotSet => o.parallelism \in Nat
      /\ o.descriptors # NotSet => o.descriptors \in Nat
      /\ o.memory # NotSet => o.memory \in Nat
      /\ o.minimum \in Nat /\ o.multiplier \in Nat
      /\ o.descriptorsEach \in Nat \ {0} /\ o.memoryEach \in Nat \ {0}
  BY DEF ValidOptions
<1>2. \A a \in Nat, b \in Nat \ {0} : AtLeastOne(a \div b) \in Nat
  OBVIOUS
<1>3. derived \in Nat
  <2>1. CASE o.parallelism = NotSet
    BY <1>1, <2>1
  <2>2. CASE o.parallelism # NotSet
    <3>1. PICK a \in Nat, b \in Nat : a = o.parallelism * o.multiplier /\ b = o.minimum
      BY <1>1, <2>2
    <3>2. Max({a, b}) \in Nat
      <4>1. CASE a <= b
        <5>1. Max({a, b}) = b
          BY <4>1, MaxIs
        <5> QED
          BY <5>1
      <4>2. CASE b <= a
        <5>1. Max({a, b}) = a
          BY <4>2, MaxIs
        <5> QED
          BY <5>1
      <4> QED
        BY <4>1, <4>2
    <3> QED
      BY <2>2, <3>1, <3>2
  <2> QED
    BY <2>1, <2>2
<1>4. caps \subseteq Nat
  <2> HIDE DEF AtLeastOne
  <2>1. o.descriptors # NotSet => AtLeastOne(o.descriptors \div o.descriptorsEach) \in Nat
    BY <1>1, <1>2
  <2>2. o.memory # NotSet => AtLeastOne(o.memory \div o.memoryEach) \in Nat
    BY <1>1, <1>2
  <2> QED
    BY <1>1, <2>1, <2>2
<1> HIDE DEF derived, caps
<1>5. Min(caps \cup {derived}) \in Nat
  <2> DEFINE T == caps \cup {derived}
  <2>1. T \subseteq Nat /\ T # {}
    BY <1>3, <1>4
  <2> HIDE DEF T
  <2>2. Min(T) \in T
    BY <2>1, MinOf
  <2> QED
    BY <2>1, <2>2 DEF T
<1>6. AtLeastOne(Min(caps \cup {derived})) \in Nat
  BY <1>5
<1> HIDE DEF AtLeastOne
<1>7. PartitionTarget(o) = IF o.explicit # NotSet THEN o.explicit ELSE AtLeastOne(Min(caps \cup {derived}))
  BY Zenon DEF PartitionTarget, AtLeastOne, caps, derived
<1> QED
  BY <1>1, <1>6, <1>7

-----------------------------------------------------------------------------
(* What the footer's statistics refute.                                    *)

\* A count over the rows of a group is none or all of them.
LEMMA CountsRows ==
    ASSUME NEW n \in Nat, NEW T, T \subseteq 1..n
    PROVE  /\ Cardinality(T) = 0 => T = {}
           /\ Cardinality(T) = n => T = 1..n
<1>1. IsFiniteSet(1..n) /\ Cardinality(1..n) = n
  BY FS_Interval
<1>2. IsFiniteSet(T)
  BY <1>1, FS_Subset
<1>3. Cardinality(1..n) = Cardinality(T) => 1..n = T
  BY <1>1, FS_Subset
<1>4. Cardinality(T) = 0 <=> T = {}
  BY <1>2, FS_EmptySet
<1> QED
  BY <1>1, <1>3, <1>4

\* The bounds that an evaluation uses bound every value, NaNs included where the
\* evaluation is told that there may be none.
LEMMA BoundsHold ==
    ASSUME NEW type, NEW group, group.values \in Seq(Int \cup {Null}),
           TruthfulStats(type, group.values, group.stats),
           NEW i \in DOMAIN group.values, NEW v \in Int, v = group.values[i]
    PROVE  /\ GetMinStat(type, group) # Null => GetMinStat(type, group) \in Int /\ GetMinStat(type, group) <= v
           /\ GetMaxStat(type, group) # Null => GetMaxStat(type, group) \in Int /\ v <= GetMaxStat(type, group)
           /\ MinStat(type, group) # Null /\ ~IsNaN(type, v) =>
                MinStat(type, group) \in Int /\ MinStat(type, group) <= v
           /\ MaxStat(type, group) # Null /\ ~IsNaN(type, v) =>
                MaxStat(type, group) \in Int /\ v <= MaxStat(type, group)
<1> DEFINE stats == group.stats
<1> USE RowGroupPruningAssumption
<1>1. v # Null
  OBVIOUS
<1>2. /\ stats.min # Null => stats.min \in Int
      /\ stats.min # Null /\ ~IsNaN(type, v) => stats.min <= v
      /\ stats.max # Null => stats.max \in Int
      /\ stats.max # Null /\ ~IsNaN(type, v) => v <= stats.max
  BY <1>1 DEF TruthfulStats
<1>3. ASSUME ~BoundsMayOmitNaN(type, group) PROVE ~IsNaN(type, v)
  <2>1. CASE type = "Float"
    <3>1. NanCount(type, group) = 0
      BY <1>3, <2>1 DEF BoundsMayOmitNaN
    <3>2. stats.nans = 0
      BY <3>1 DEF NanCount
    <3> DEFINE T == {k \in DOMAIN group.values : IsNaN(type, group.values[k])}
               n == Len(group.values)
    <3>3. Cardinality(T) = 0
      BY <3>2 DEF TruthfulStats
    <3>4. n \in Nat /\ T \subseteq 1..n
      OBVIOUS
    <3> HIDE DEF T, n
    <3>5. T = {}
      BY <3>3, <3>4, CountsRows
    <3> QED
      BY <3>5 DEF T
  <2>2. CASE type # "Float"
    BY <2>2 DEF IsNaN
  <2> QED
    BY <2>1, <2>2
<1>4. /\ MinStat(type, group) # Null => stats.min # Null /\ MinStat(type, group) = stats.min
      /\ MaxStat(type, group) # Null => stats.max # Null /\ MaxStat(type, group) = stats.max
  BY DEF MinStat, MaxStat, Logical
<1>5. /\ GetMinStat(type, group) # Null =>
           ~BoundsMayOmitNaN(type, group) /\ GetMinStat(type, group) = MinStat(type, group)
      /\ GetMaxStat(type, group) # Null =>
           ~BoundsMayOmitNaN(type, group) /\ GetMaxStat(type, group) = MaxStat(type, group)
  BY DEF GetMinStat, GetMaxStat
<1> QED
  BY <1>2, <1>3, <1>4, <1>5

\* A null count that is none or all of the rows, the rows it would add by a cast
\* included.
LEMMA NullCountHolds ==
    ASSUME NEW type, NEW group, group.values \in Seq(Int \cup {Null}),
           TruthfulStats(type, group.values, group.stats),
           NEW i \in DOMAIN group.values, NEW v, v = group.values[i],
           NullCountStat(type, group) # Null
    PROVE  /\ NullCountStat(type, group) = 0 => Logical(type, v) # Null
           /\ NullCountStat(type, group) = Len(group.values) => Logical(type, v) = Null
<1> DEFINE stats == group.stats
           T == {k \in DOMAIN group.values : group.values[k] = Null}
           n == Len(group.values)
<1> USE RowGroupPruningAssumption
<1>1. n \in Nat /\ T \subseteq 1..n /\ DOMAIN group.values = 1..n /\ i \in 1..n
  OBVIOUS
<1>2. v \in Int \cup {Null}
  OBVIOUS
<1>3. /\ NullCountStat(type, group) = stats.nulls
      /\ type = "Temporal" /\ stats.nulls # n => MinStat(type, group) # Null /\ MaxStat(type, group) # Null
  BY DEF NullCountStat
<1>4. stats.nulls = Cardinality(T)
  BY <1>3 DEF TruthfulStats
<1>5. v = Null <=> i \in T
  OBVIOUS
<1> HIDE DEF n, T
<1>6. (stats.nulls = 0 => T = {}) /\ (stats.nulls = n => T = 1..n)
  BY <1>1, <1>4, CountsRows
<1>7. ASSUME stats.nulls = 0 PROVE Logical(type, v) # Null
  <2>1. v \in Int
    BY <1>2, <1>5, <1>6, <1>7
  <2>2. CASE type = "Temporal"
    <3>1. MaxStat(type, group) # Null
      BY <1>1, <1>3, <1>7, <2>2
    <3>2. ~IsNaN(type, v)
      BY <2>2 DEF IsNaN
    <3>3. MaxStat(type, group) \in Int /\ v <= MaxStat(type, group)
      BY <1>1, <2>1, <3>1, <3>2, BoundsHold
    <3>4. MaxStat(type, group) <= CastMax
      BY <2>2, <3>1, <3>3 DEF MaxStat, Logical
    <3> QED
      BY <2>1, <3>3, <3>4 DEF Logical
  <2>3. CASE type # "Temporal"
    BY <2>1, <2>3 DEF Logical
  <2> QED
    BY <2>2, <2>3
<1>8. ASSUME stats.nulls = n PROVE Logical(type, v) = Null
  BY <1>1, <1>5, <1>6, <1>8 DEF Logical
<1> QED
  BY <1>3, <1>7, <1>8 DEF n

\* A refuted predicate is satisfied by no row of the group.
LEMMA RefutedBySatisfiesNone ==
    ASSUME NEW type, NEW group, group.values \in Seq(Int \cup {Null}),
           TruthfulStats(type, group.values, group.stats),
           NEW p, p[1] \in Operations, p[2] \in Int,
           EvalSqlWhere(type, group, p) = FALSE,
           NEW i \in DOMAIN group.values
    PROVE  ~Satisfies(Logical(type, group.values[i]), p)
<1> DEFINE v == group.values[i]
           w == Logical(type, v)
           op == p[1]
           lit == p[2]
           A == EvalPredIsNull(type, group, TRUE)
           C == EvalComparison(type, group, p)
<1> USE RowGroupPruningAssumption
<1>1. v \in Int \cup {Null}
  OBVIOUS
<1>2. w = Null \/ (w = v /\ v \in Int)
  BY <1>1 DEF Logical
<1>3. A = FALSE => w = Null
  BY NullCountHolds DEF EvalPredIsNull, Unknown
<1>4. op = "IsNull" => w # Null
  <2>1. op = "IsNull" => EvalPredIsNull(type, group, FALSE) = FALSE
    BY DEF EvalSqlWhere
  <2>2. EvalPredIsNull(type, group, FALSE) = FALSE =>
          NullCountStat(type, group) # Null /\ NullCountStat(type, group) = 0
    BY DEF EvalPredIsNull, Unknown
  <2> QED
    BY <2>1, <2>2, NullCountHolds
<1>5. op = "NotNull" => w = Null
  <2>1. op = "NotNull" => A = FALSE
    BY DEF EvalSqlWhere
  <2> QED
    BY <1>3, <2>1
<1>6. CASE op \in {"IsNull", "NotNull"}
  BY <1>4, <1>5, <1>6 DEF Satisfies
<1>7. CASE op \notin {"IsNull", "NotNull"}
  <2>1. AndOf(A, C) = FALSE
    BY <1>7 DEF EvalSqlWhere
  <2>2. A = FALSE \/ C = FALSE
    BY <2>1 DEF AndOf, Unknown
  <2>3. op \in {"Lt", "Ge", "Gt", "Le", "Eq", "Ne"}
    BY <1>7 DEF Operations
  <2>4. CASE w = Null
    BY <2>3, <2>4 DEF Satisfies
  <2>5. CASE w # Null
    <3>1. w = v /\ v \in Int /\ C = FALSE
      BY <1>2, <1>3, <2>2, <2>5
    <3> DEFINE lo == GetMinStat(type, group)
               hi == GetMaxStat(type, group)
               min == MinStat(type, group)
               max == MaxStat(type, group)
    <3>2. /\ lo # Null => lo \in Int /\ lo <= v
          /\ hi # Null => hi \in Int /\ v <= hi
          /\ min # Null /\ ~IsNaN(type, v) => min \in Int /\ min <= v
          /\ max # Null /\ ~IsNaN(type, v) => max \in Int /\ v <= max
      BY <3>1, BoundsHold
    <3> HIDE DEF lo, hi, min, max
    <3>3. ASSUME NEW b, NEW accepted, Compare(type, b, lit, accepted) = FALSE
          PROVE  /\ b # Null /\ ~IsNaN(type, lit)
                 /\ (IF b < lit THEN "Less" ELSE IF b = lit THEN "Equal" ELSE "Greater") \notin accepted
      BY <3>3 DEF Compare, Unknown
    <3>4. CASE op = "Lt"
      <4>1. Compare(type, lo, lit, {"Less"}) = FALSE
        BY <3>1, <3>4 DEF EvalComparison, lo
      <4>2. lo # Null /\ ~(lo < lit)
        BY <3>3, <4>1
      <4> QED
        BY <3>1, <3>2, <3>4, <4>2 DEF Satisfies
    <3>5. CASE op = "Le"
      <4>1. Compare(type, lo, lit, {"Less", "Equal"}) = FALSE
        BY <3>1, <3>5 DEF EvalComparison, lo
      <4>2. lo # Null /\ ~(lo < lit) /\ lo # lit
        BY <3>3, <4>1
      <4> QED
        BY <3>1, <3>2, <3>5, <4>2 DEF Satisfies
    <3>6. CASE op = "Gt"
      <4>1. Compare(type, hi, lit, {"Greater"}) = FALSE
        BY <3>1, <3>6 DEF EvalComparison, hi
      <4>2. hi # Null /\ (hi < lit \/ hi = lit)
        BY <3>3, <4>1
      <4> QED
        BY <3>1, <3>2, <3>6, <4>2 DEF Satisfies
    <3>7. CASE op = "Ge"
      <4>1. Compare(type, hi, lit, {"Equal", "Greater"}) = FALSE
        BY <3>1, <3>7 DEF EvalComparison, hi
      <4>2. hi # Null /\ hi < lit
        BY <3>3, <4>1
      <4> QED
        BY <3>1, <3>2, <3>7, <4>2 DEF Satisfies
    <3>8. CASE op = "Eq"
      <4> DEFINE a == Compare(type, min, lit, {"Less", "Equal"})
                 b == Compare(type, max, lit, {"Equal", "Greater"})
      <4>1. AndOf(a, b) = FALSE
        BY <3>1, <3>8 DEF EvalComparison, EvalPredEq, min, max
      <4> HIDE DEF a, b
      <4>2. a = FALSE \/ b = FALSE
        BY <4>1 DEF AndOf, Unknown
      <4>3. a = FALSE => min # Null /\ ~IsNaN(type, lit) /\ ~(min < lit) /\ min # lit
        BY <3>3 DEF a
      <4>4. b = FALSE => max # Null /\ ~IsNaN(type, lit) /\ max < lit
        BY <3>3 DEF b
      <4>5. v # lit
        BY <3>1, <3>2, <4>2, <4>3, <4>4
      <4> QED
        BY <3>1, <3>8, <4>5 DEF Satisfies
    <3>9. CASE op = "Ne"
      <4> DEFINE a == Compare(type, lo, lit, {"Less", "Greater"})
                 b == Compare(type, hi, lit, {"Less", "Greater"})
      <4>1. OrOf(a, b) = FALSE
        BY <3>1, <3>9 DEF EvalComparison, EvalPredEq, lo, hi
      <4>2. a \in {TRUE, FALSE, Null} /\ b \in {TRUE, FALSE, Null}
        <5>1. ASSUME NEW bound, NEW accepted
              PROVE  Compare(type, bound, lit, accepted) \in {TRUE, FALSE, Null}
          <6> DEFINE o == IF bound < lit THEN "Less" ELSE IF bound = lit THEN "Equal" ELSE "Greater"
                     r == Compare(type, bound, lit, accepted)
          <6>1. r = Null \/ r = (o \in accepted)
            BY Zenon DEF Compare, Unknown
          <6> HIDE DEF r, o
          <6>2. CASE o \in accepted
            <7>1. r = Null \/ r = TRUE
              BY <6>1, <6>2
            <7> QED
              BY <7>1 DEF r
          <6>3. CASE o \notin accepted
            <7>1. (o \in accepted) = FALSE
              BY <6>3
            <7>2. r = Null \/ r = FALSE
              BY <6>1, <7>1, Zenon
            <7> QED
              BY <7>2 DEF r
          <6> QED
            BY <6>2, <6>3
        <5> QED
          BY <5>1
      <4> HIDE DEF a, b
      <4>3. a = FALSE /\ b = FALSE
        <5>1. Null # FALSE /\ TRUE # FALSE
          OBVIOUS
        <5>2. TRUE \notin {a, b}
          BY <4>1, <5>1, Zenon DEF OrOf, Unknown
        <5>3. Null \notin {a, b}
          BY <4>1, <5>1, <5>2, Zenon DEF OrOf, Unknown
        <5> QED
          BY <4>2, <5>2, <5>3, Zenon
      <4>4. lo # Null /\ lo = lit
        BY <3>3, <4>3 DEF a
      <4>5. hi # Null /\ hi = lit
        BY <3>3, <4>3 DEF b
      <4>6. v = lit
        BY <3>1, <3>2, <4>4, <4>5
      <4> QED
        BY <3>1, <3>9, <4>6 DEF Satisfies
    <3> QED
      BY <2>3, <3>4, <3>5, <3>6, <3>7, <3>8, <3>9
  <2> QED
    BY <2>4, <2>5
<1> QED
  BY <1>6, <1>7

-----------------------------------------------------------------------------
(* Deletion vectors.                                                       *)

\* The two forms that the rows of a deletion vector are kept in.
IsBitmap(rows, deleted) ==
    /\ rows.kind = "Bitmap" /\ rows.first \in Nat
    /\ Len(rows.bits) \in Nat \ {0} /\ rows.bits \in Seq(BOOLEAN)
    /\ \A k \in 1..Len(rows.bits) : rows.bits[k] <=> rows.first + k - 1 \in deleted
    /\ \A r \in deleted : rows.first <= r /\ r <= rows.first + Len(rows.bits) - 1
    /\ rows.first + Len(rows.bits) - 1 \in deleted
IsList(rows, deleted) ==
    /\ rows.kind = "Indexes" /\ rows.list \in Seq(deleted)
    /\ \A j, k \in 1..Len(rows.list) : j < k => rows.list[j] < rows.list[k]
    /\ \A r \in deleted : \E k \in 1..Len(rows.list) : rows.list[k] = r

LEMMA VectorForms ==
    ASSUME NEW deleted, deleted \subseteq Nat, IsFiniteSet(deleted)
    PROVE  LET rows == DeletionVectorRows(deleted) IN IsBitmap(rows, deleted) \/ IsList(rows, deleted)
<1> DEFINE rows == DeletionVectorRows(deleted)
           list == Ascending(deleted)
           first == Min(deleted)
           last == Max(deleted)
           len == last - first + 1
<1>1. deleted \subseteq Int
  OBVIOUS
<1> HIDE DEF list
<1>2. /\ list \in Seq(deleted) /\ Len(list) \in Nat
      /\ \A j, k \in 1..Len(list) : j < k => list[j] < list[k]
      /\ \A x \in deleted : \E k \in 1..Len(list) : list[k] = x
  <2>1. IsAscending(list, deleted)
    BY <1>1, AscendingIs, Zenon DEF list
  <2> QED
    BY <2>1 DEF IsAscending
<1>5. \A r \in deleted : r \in Nat
  OBVIOUS
<1>3. CASE deleted # {} /\ len <= RowsPerIndex * Cardinality(deleted)
  <2>1. first \in deleted /\ \A k \in deleted : first <= k
    BY <1>3, MinOf
  <2>2. last \in deleted /\ \A k \in deleted : k <= last
    <3>1. Len(list) \in Nat \ {0}
      <4>1. PICK x \in deleted : TRUE
        BY <1>3
      <4>2. \E k \in 1..Len(list) : list[k] = x
        BY <1>2
      <4> QED
        BY <1>2, <4>2
    <3> DEFINE n == list[Len(list)]
    <3>2. n \in Nat
      <4>1. n \in deleted
        BY <1>2, <3>1, ElementOfSeq
      <4> QED
        BY <1>5, <4>1
    <3>3. ASSUME NEW r \in deleted PROVE r <= n
      <4>1. PICK k \in 1..Len(list) : list[k] = r
        BY <1>2
      <4>2. Len(list) \in 1..Len(list) /\ list[k] \in Nat
        BY <1>5, <3>1, <4>1
      <4>3. k = Len(list) \/ list[k] < list[Len(list)]
        BY <1>2, <3>1, <4>2
      <4> QED
        BY <3>2, <4>1, <4>2, <4>3
    <3> HIDE DEF n
    <3>4. deleted \subseteq 0..n
      BY <3>2, <3>3
    <3> QED
      BY <1>3, <3>2, <3>4, MaxOf
  <2>3. rows = [kind |-> "Bitmap", first |-> first, bits |-> [k \in 1..len |-> first + k - 1 \in deleted]]
    BY <1>3, Zenon DEF DeletionVectorRows
  <2> HIDE DEF first, last, rows
  <2>4. first \in Nat /\ last \in Nat /\ first <= last /\ len \in Nat \ {0} /\ first + len - 1 = last
    BY <2>1, <2>2
  <2> DEFINE bits == [k \in 1..len |-> first + k - 1 \in deleted]
  <2>5. bits \in Seq(BOOLEAN) /\ Len(bits) = len
    BY <2>4
  <2>6. \A k \in 1..len : bits[k] <=> first + k - 1 \in deleted
    OBVIOUS
  <2>7. rows.kind = "Bitmap" /\ rows.first = first /\ rows.bits = bits
    BY <2>3
  <2> HIDE DEF bits, len
  <2>8. IsBitmap(rows, deleted)
    BY <2>1, <2>2, <2>4, <2>5, <2>6, <2>7 DEF IsBitmap
  <2> QED
    BY <2>8 DEF rows
<1>4. CASE ~(deleted # {} /\ len <= RowsPerIndex * Cardinality(deleted))
  <2>1. rows = [kind |-> "Indexes", list |-> list]
    BY <1>4, Zenon DEF DeletionVectorRows, list
  <2> HIDE DEF rows
  <2>2. rows.kind = "Indexes" /\ rows.list = list
    BY <2>1
  <2>3. IsList(rows, deleted)
    BY <1>2, <2>2 DEF IsList
  <2> QED
    BY <2>3 DEF rows
<1> QED
  BY <1>3, <1>4

\* finish compares the read rows with the last deleted one.
LEMMA LastDeletedIs ==
    ASSUME NEW deleted, deleted \subseteq Nat, IsFiniteSet(deleted), NEW c \in Nat
    PROVE  LastDeleted(DeletionVectorRows(deleted)) < c <=> \A r \in deleted : r < c
<1> DEFINE rows == DeletionVectorRows(deleted)
<1>1. IsBitmap(rows, deleted) \/ IsList(rows, deleted)
  BY VectorForms
<1> HIDE DEF rows
<1>2. CASE IsBitmap(rows, deleted)
  <2> DEFINE last == rows.first + Len(rows.bits) - 1
  <2>1. last \in Nat /\ last \in deleted /\ (\A r \in deleted : r <= last) /\ LastDeleted(rows) = last
    BY <1>2 DEF IsBitmap, LastDeleted
  <2> HIDE DEF last
  <2> QED
    BY <2>1 DEF rows
<1>3. CASE IsList(rows, deleted)
  <2> DEFINE list == rows.list
             n == Len(list)
  <2>1. /\ list \in Seq(deleted) /\ rows.kind # "Bitmap" /\ n \in Nat
        /\ \A j, k \in 1..n : j < k => list[j] < list[k]
        /\ \A r \in deleted : \E k \in 1..n : list[k] = r
    BY <1>3 DEF IsList
  <2>2. CASE list = <<>>
    <3>1. LastDeleted(rows) = -1
      BY <2>1, <2>2 DEF LastDeleted
    <3>2. n = 0
      BY <2>2
    <3>3. deleted = {}
      BY <2>1, <3>2
    <3> QED
      BY <3>1, <3>3 DEF rows
  <2>3. CASE list # <<>>
    <3>1. n \in 1..n /\ list[n] \in deleted
      BY <2>1, <2>3
    <3>2. LastDeleted(rows) = list[n]
      BY <2>1, <2>3 DEF LastDeleted, Last
    <3>4. \A r \in deleted : r \in Nat
      OBVIOUS
    <3> HIDE DEF list, n
    <3>3. ASSUME NEW r \in deleted PROVE r <= list[n]
      <4>1. PICK k \in 1..n : list[k] = r
        BY <2>1
      <4>2. k = n \/ list[k] < list[n]
        BY <2>1, <3>1
      <4>3. list[n] \in Nat /\ r \in Nat
        BY <3>1, <3>4
      <4> QED
        BY <4>1, <4>2, <4>3
    <3>6. list[n] \in Nat
      BY <3>1, <3>4
    <3>5. (\A r \in deleted : r < c) <=> list[n] < c
      <4>1. ASSUME list[n] < c, NEW r \in deleted PROVE r < c
        BY <3>3, <3>4, <3>6, <4>1
      <4> QED
        BY <3>1, <4>1
    <3> QED
      BY <3>2, <3>5 DEF rows
  <2> QED
    BY <2>2, <2>3
<1> QED
  BY <1>1, <1>2, <1>3

\* A batch that is masked by row numbers keeps the rows that are not deleted.
LEMMA MaskOriginalIs ==
    ASSUME NEW deleted, deleted \subseteq Nat, IsFiniteSet(deleted),
           NEW numbers, NEW k \in DOMAIN numbers, numbers[k] \in Nat
    PROVE  MaskOriginal(DeletionVectorRows(deleted), numbers)[k] <=> numbers[k] \notin deleted
<1> DEFINE rows == DeletionVectorRows(deleted)
           row == numbers[k]
<1>1. IsBitmap(rows, deleted) \/ IsList(rows, deleted)
  BY VectorForms
<1> HIDE DEF rows
<1>2. CASE IsBitmap(rows, deleted)
  <2>1. MaskOriginal(rows, numbers)[k] <=> ~IsDeleted(rows, row)
    BY <1>2 DEF MaskOriginal, IsBitmap
  <2>2. IsDeleted(rows, row) <=> row \in deleted
    <3>1. CASE row >= rows.first /\ row - rows.first < Len(rows.bits)
      <4>1. row - rows.first + 1 \in 1..Len(rows.bits) /\ rows.first + (row - rows.first + 1) - 1 = row
        BY <1>2, <3>1 DEF IsBitmap
      <4>2. rows.bits[row - rows.first + 1] <=> row \in deleted
        BY <1>2, <4>1 DEF IsBitmap
      <4> QED
        BY <1>2, <3>1, <4>2 DEF IsBitmap, IsDeleted
    <3>2. CASE ~(row >= rows.first /\ row - rows.first < Len(rows.bits))
      BY <1>2, <3>2 DEF IsBitmap, IsDeleted
    <3> QED
      BY <3>1, <3>2
  <2> QED
    BY <2>1, <2>2 DEF rows
<1>3. CASE IsList(rows, deleted)
  <2> DEFINE list == rows.list
             n == Len(list)
             cursor == Cardinality({i \in DOMAIN list : list[i] < row}) + 1
  <2>1. /\ list \in Seq(deleted) /\ rows.kind # "Bitmap" /\ n \in Nat
        /\ \A i, j \in 1..n : i < j => list[i] < list[j]
        /\ \A r \in deleted : \E j \in 1..n : list[j] = r
    BY <1>3 DEF IsList
  <2>2. MaskOriginal(rows, numbers)[k] <=> (cursor > n \/ list[cursor] # row)
    BY <2>1 DEF MaskOriginal
  <2>3. cursor \in Nat \ {0}
    <3>1. IsFiniteSet(1..n) /\ DOMAIN list = 1..n
      <4>1. DOMAIN list = 1..n
        BY <2>1
      <4>2. IsFiniteSet(1..n)
        <5> HIDE DEF n
        <5> QED
          BY <2>1, FS_Interval
      <4> QED
        BY <4>1, <4>2
    <3>2. IsFiniteSet({i \in DOMAIN list : list[i] < row})
      BY <3>1, FS_Subset
    <3> HIDE DEF list, n
    <3>3. Cardinality({i \in DOMAIN list : list[i] < row}) \in Nat
      BY <3>2, FS_CardinalityType
    <3> QED
      BY <3>3
  <2>4. ASSUME row \in deleted PROVE cursor <= n /\ list[cursor] = row
    <3>1. PICK j \in 1..n : list[j] = row
      BY <2>1, <2>4
    <3>2. {i \in DOMAIN list : list[i] < row} = 1..(j - 1)
      <4>1. ASSUME NEW i \in 1..n PROVE list[i] < row <=> i < j
        <5>1. i < j => list[i] < list[j]
          BY <2>1
        <5>2. j < i => list[j] < list[i]
          BY <2>1
        <5>3. list[i] \in Nat /\ list[j] \in Nat
          <6>1. list[i] \in deleted /\ list[j] \in deleted
            BY <2>1, ElementOfSeq
          <6> QED
            BY <6>1
        <5> QED
          BY <3>1, <5>1, <5>2, <5>3
      <4>2. DOMAIN list = 1..n
        BY <2>1
      <4> HIDE DEF list, n
      <4> QED
        BY <2>1, <4>1, <4>2
    <3>3. Cardinality(1..(j - 1)) = j - 1 /\ j \in Nat
      <4> HIDE DEF n
      <4>1. 1 \in Int /\ j - 1 \in Int /\ j \in Nat /\ j >= 1
        BY <2>1
      <4> QED
        BY <4>1, FS_Interval
    <3>4. cursor = j
      <4>1. cursor = Cardinality(1..(j - 1)) + 1
        BY <3>2, Zenon
      <4> HIDE DEF cursor
      <4> QED
        BY <3>3, <4>1
    <3> HIDE DEF cursor
    <3> QED
      BY <3>1, <3>4
  <2>5. ASSUME row \notin deleted PROVE cursor > n \/ list[cursor] # row
    <3> HIDE DEF cursor
    <3>1. cursor <= n => list[cursor] \in deleted
      BY <2>1, <2>3
    <3> QED
      BY <2>1, <2>3, <2>5, <3>1
  <2>6. (cursor > n \/ list[cursor] # row) <=> row \notin deleted
    <3> HIDE DEF cursor
    <3> QED
      BY <2>1, <2>3, <2>4, <2>5
  <2> HIDE DEF cursor
  <2> QED
    BY <2>2, <2>6 DEF rows
<1> QED
  BY <1>1, <1>2, <1>3

\* A batch that is masked by counting keeps the rows that are not deleted,
\* whichever part of it the bitmap covers.
LEMMA MaskOrderedIs ==
    ASSUME NEW deleted, deleted \subseteq Nat, IsFiniteSet(deleted),
           NEW start \in Nat, NEW len \in Nat, NEW k \in 1..len
    PROVE  MaskOrdered(DeletionVectorRows(deleted), start, len)[k] <=> start + k - 1 \notin deleted
<1> DEFINE rows == DeletionVectorRows(deleted)
           row == start + k - 1
<1>1. IsBitmap(rows, deleted) \/ IsList(rows, deleted)
  BY VectorForms
<1> HIDE DEF rows
<1>2. CASE IsBitmap(rows, deleted)
  <2> DEFINE first == rows.first
             last == first + Len(rows.bits) - 1
             end == start + len - 1
             lower == IF first > start THEN first ELSE start
             upper == IF last < end THEN last ELSE end
             A == [j \in 1..(lower - start) |-> TRUE]
             B == [j \in 1..(upper - lower + 1) |-> ~rows.bits[lower - first + j]]
             C == [j \in 1..(end - upper) |-> TRUE]
  <2>1. MaskOrdered(rows, start, len) = IF lower > upper THEN [j \in 1..len |-> TRUE] ELSE (A \o B) \o C
    <3>1. rows.kind = "Bitmap" /\ rows.kind # "Indexes"
      BY <1>2 DEF IsBitmap
    <3> QED
      BY <3>1, Zenon DEF MaskOrdered
  <2>2. /\ first \in Nat /\ last \in Nat /\ end \in Int /\ first <= last
        /\ lower \in Nat /\ upper \in Int /\ start <= lower /\ upper <= end /\ upper <= last
        /\ first <= lower /\ row \in start..end /\ row \in Nat
        /\ (lower = first \/ lower = start) /\ (upper = last \/ upper = end)
    BY <1>2 DEF IsBitmap
  <2>3. \A r \in deleted : first <= r /\ r <= last
    BY <1>2 DEF IsBitmap
  <2>4. \A j \in 1..Len(rows.bits) : rows.bits[j] <=> first + j - 1 \in deleted
    BY <1>2 DEF IsBitmap
  <2>5. Len(rows.bits) = last - first + 1
    BY <1>2 DEF IsBitmap
  <2>6. CASE lower > upper
    <3>1. row \notin deleted
      BY <2>2, <2>3, <2>6
    <3> QED
      BY <2>1, <2>6, <3>1 DEF rows
  <2>7. CASE ~(lower > upper)
    <3> HIDE DEF first, last, end, lower, upper
    <3>1. lower - start \in Nat /\ upper - lower + 1 \in Nat /\ end - upper \in Nat
      BY <2>2, <2>7
    <3>2. ASSUME NEW j \in 1..(upper - lower + 1)
          PROVE  ~rows.bits[lower - first + j] <=> lower + j - 1 \notin deleted
      <4>1. lower - first + j \in 1..Len(rows.bits) /\ first + (lower - first + j) - 1 = lower + j - 1
        BY <2>2, <2>5
      <4> QED
        BY <2>4, <4>1
    <3>14. ASSUME NEW m \in Nat, NEW f \in [1..m -> BOOLEAN] PROVE f \in Seq(BOOLEAN) /\ Len(f) = m
      OBVIOUS
    <3>3. A \in Seq(BOOLEAN) /\ Len(A) = lower - start
      <4>1. A \in [1..(lower - start) -> BOOLEAN]
        OBVIOUS
      <4> QED
        BY <3>1, <3>14, <4>1
    <3>4. B \in Seq(BOOLEAN) /\ Len(B) = upper - lower + 1
      <4>1. B \in [1..(upper - lower + 1) -> BOOLEAN]
        OBVIOUS
      <4> QED
        BY <3>1, <3>14, <4>1
    <3>5. C \in Seq(BOOLEAN) /\ Len(C) = end - upper
      <4>1. C \in [1..(end - upper) -> BOOLEAN]
        OBVIOUS
      <4> QED
        BY <3>1, <3>14, <4>1
    <3>6. \A j \in 1..Len(B) : B[j] <=> lower + j - 1 \notin deleted
      BY <3>2, <3>4
    <3>7. (\A j \in 1..Len(A) : A[j]) /\ (\A j \in 1..Len(C) : C[j])
      BY <3>3, <3>5
    <3> HIDE DEF A, B, C
    <3>8. IsConcat(A \o B, A, B)
      BY <3>3, <3>4, ConcatIs
    <3>9. IsConcat((A \o B) \o C, A \o B, C)
      <4>1. A \o B \in Seq(BOOLEAN)
        BY <3>3, <3>4
      <4> QED
        BY <3>5, <4>1, ConcatIs
    <3> DEFINE mask == (A \o B) \o C
    <3>10. MaskOrdered(rows, start, len) = mask
      BY <2>1, <2>7
    <3>11. CASE k <= lower - start
      <4>1. k \in 1..Len(A)
        BY <3>1, <3>3, <3>11
      <4>2. (A \o B)[k] = A[k]
        BY <3>8, <4>1 DEF IsConcat
      <4>3. k \in 1..Len(A \o B)
        BY <3>3, <3>4, <3>8, <4>1 DEF IsConcat
      <4>4. mask[k] = (A \o B)[k]
        BY <3>9, <4>3 DEF IsConcat
      <4>5. row \notin deleted
        BY <2>2, <2>3, <3>11
      <4>6. mask[k]
        BY <3>7, <4>1, <4>2, <4>4
      <4> QED
        BY <3>10, <4>5, <4>6 DEF rows
    <3>12. CASE k > lower - start /\ k <= upper - start + 1
      <4> DEFINE j == k - (lower - start)
      <4>1. j \in 1..Len(B) /\ k = Len(A) + j /\ lower + j - 1 = row
        BY <2>2, <3>1, <3>3, <3>4, <3>12
      <4> HIDE DEF j
      <4>2. (A \o B)[k] = B[j]
        BY <3>8, <4>1 DEF IsConcat
      <4>3. k \in 1..Len(A \o B)
        BY <3>3, <3>4, <3>8, <4>1 DEF IsConcat
      <4>4. mask[k] = (A \o B)[k]
        BY <3>9, <4>3 DEF IsConcat
      <4>5. B[j] <=> row \notin deleted
        BY <3>6, <4>1
      <4> QED
        BY <3>10, <4>2, <4>4, <4>5 DEF rows
    <3>13. CASE k > upper - start + 1
      <4> DEFINE j == k - (upper - start + 1)
      <4>1. Len(A \o B) = upper - start + 1
        <5>1. Len(A \o B) = Len(A) + Len(B)
          BY <3>8 DEF IsConcat
        <5> QED
          BY <2>2, <3>1, <3>3, <3>4, <5>1
      <4>2. j \in 1..Len(C) /\ k = Len(A \o B) + j
        BY <2>2, <3>1, <3>5, <3>13, <4>1 DEF end
      <4> HIDE DEF j
      <4>3. mask[k] = C[j]
        BY <3>9, <4>2 DEF IsConcat
      <4>4. row \notin deleted
        BY <2>2, <2>3, <3>13
      <4>5. mask[k]
        BY <3>7, <4>2, <4>3
      <4> QED
        BY <3>10, <4>4, <4>5 DEF rows
    <3> QED
      BY <2>2, <3>11, <3>12, <3>13
  <2> QED
    BY <2>6, <2>7
<1>3. CASE IsList(rows, deleted)
  <2>1. MaskOrdered(rows, start, len)[k] <=> \A i \in DOMAIN rows.list : rows.list[i] # row
    <3>1. MaskOrdered(rows, start, len) =
            [j \in 1..len |-> \A i \in DOMAIN rows.list : rows.list[i] # start + j - 1]
      BY <1>3, Zenon DEF IsList, MaskOrdered
    <3> QED
      BY <3>1
  <2>2. (\A i \in DOMAIN rows.list : rows.list[i] # row) <=> row \notin deleted
    BY <1>3 DEF IsList
  <2> QED
    BY <2>1, <2>2 DEF rows
<1> QED
  BY <1>1, <1>2, <1>3

-----------------------------------------------------------------------------
(* The rows of a file and their row groups.                                *)

LEMMA ValidFiles ==
    ASSUME ValidInput(input), NEW f \in Files
    PROVE  ValidFile(input, input.files[f])
BY DEF ValidInput, Files

\* A row is one of the values of the row group that GroupOf names.
LEMMA RowsLie ==
    ASSUME ValidInput(input), NEW f \in Files
    PROVE  /\ RowCount(f) \in Nat
           /\ \A row \in 0..(RowCount(f) - 1) :
                LET groups == input.files[f].groups
                    g == GroupOf(groups, row)
                IN  /\ g \in DOMAIN groups
                    /\ \E i \in DOMAIN groups[g].values : RowValues(f)[row + 1] = groups[g].values[i]
<1> DEFINE groups == input.files[f].groups
           n == Len(groups)
           A == Int \cup {Null}
           vs == [g \in DOMAIN groups |-> groups[g].values]
           lens == Lengths(vs)
<1>1. /\ n \in Nat /\ DOMAIN groups = 1..n
      /\ \A g \in 1..n : groups[g].values \in Seq(A)
  BY ValidFiles DEF ValidFile, ValidGroup
<1>2. vs \in Seq(Seq(A)) /\ Len(vs) = n /\ \A g \in 1..n : vs[g] = groups[g].values
  <2>1. vs \in [1..n -> Seq(A)] /\ \A g \in 1..n : vs[g] = groups[g].values
    BY <1>1
  <2> HIDE DEF vs, n, A
  <2> QED
    BY <1>1, <2>1
<1>3. RowValues(f) = FlattenSeq(vs)
  BY Zenon DEF RowValues
<1> HIDE DEF vs, A
<1>4. IsFlat(RowValues(f), vs, A)
  BY <1>2, <1>3, FlattenIs
<1>5. lens \in [1..n -> Nat] /\ \A k \in 1..n : lens[k] = Len(groups[k].values)
  BY <1>2, LengthsIs
<1>6. RowCount(f) = SumOf(lens) /\ RowCount(f) \in Nat
  BY <1>4 DEF IsFlat, RowCount
<1>7. ASSUME NEW g \in 0..n PROVE RowsUpTo(groups, g) = Prefix(lens, g)
  <2>1. [k \in 1..g |-> Len(groups[k].values)] = [k \in 1..g |-> lens[k]]
    BY <1>1, <1>5
  <2> QED
    BY <2>1, Zenon DEF RowsUpTo, Prefix
<1> HIDE DEF lens, n
<1>8. ASSUME NEW row \in 0..(RowCount(f) - 1)
      PROVE  LET g == GroupOf(groups, row)
             IN  /\ g \in DOMAIN groups
                 /\ \E i \in DOMAIN groups[g].values : RowValues(f)[row + 1] = groups[g].values[i]
  <2>1. row \in Nat /\ row < SumOf(lens)
    BY <1>6
  <2>2. PICK g \in 1..n : /\ Prefix(lens, g - 1) <= row /\ row < Prefix(lens, g)
                          /\ \A j \in 1..n : row < Prefix(lens, j) => g <= j
    BY <1>1, <1>5, <2>1, PrefixLocates
  <2> DEFINE T == {h \in DOMAIN groups : row < RowsUpTo(groups, h)}
  <2>3. g \in T /\ \A h \in T : g <= h
    <3>1. \A h \in 1..n : RowsUpTo(groups, h) = Prefix(lens, h)
      BY <1>1, <1>7
    <3> QED
      BY <1>1, <2>2, <3>1
  <2>4. T \subseteq Nat /\ T # {}
    BY <1>1, <2>3
  <2>5. GroupOf(groups, row) = Min(T)
    BY Zenon DEF GroupOf
  <2> HIDE DEF T
  <2>6. Min(T) \in T /\ \A k \in T : Min(T) <= k
    BY <2>4, MinOf
  <2>7. GroupOf(groups, row) = g
    <3>1. g <= Min(T) /\ Min(T) <= g
      BY <2>3, <2>6
    <3>2. g \in Nat /\ Min(T) \in Nat
      BY <2>3, <2>4, <2>6
    <3> QED
      BY <2>5, <3>1, <3>2
  <2> DEFINE i == row + 1 - Prefix(lens, g - 1)
  <2>8. i \in 1..Len(vs[g]) /\ At(vs, g, i) = row + 1
    <3>1. \A k \in 0..n : Prefix(lens, k) \in Nat
      BY <1>1, <1>5, PrefixGrows
    <3>2. Prefix(lens, g) = Prefix(lens, g - 1) + lens[g]
      <4>1. lens \in [1..n -> Int]
        BY <1>5
      <4> QED
        BY <1>1, <4>1, PrefixSums
    <3>3. Prefix(lens, g - 1) \in Nat /\ Prefix(lens, g) \in Nat
      BY <1>1, <3>1
    <3>4. lens[g] = Len(vs[g]) /\ lens[g] \in Nat
      BY <1>2, <1>5
    <3>5. At(vs, g, i) = Prefix(lens, g - 1) + i
      BY DEF At, lens
    <3> QED
      BY <2>1, <2>2, <3>2, <3>3, <3>4, <3>5
  <2> HIDE DEF i
  <2>9. RowValues(f)[row + 1] = vs[g][i]
    BY <1>2, <1>4, <2>8 DEF IsFlat
  <2>10. i \in DOMAIN groups[g].values
    BY <1>1, <1>2, <2>8
  <2> QED
    BY <1>1, <1>2, <2>7, <2>9, <2>10
<1> QED
  BY <1>6, <1>8

\* A row group is pruned only if a pushed-down predicate fails on all its rows.
LEMMA PrunedRowsFail ==
    ASSUME ValidInput(input), NEW f \in Files, NEW row \in 0..(RowCount(f) - 1),
           ~MayContainMatchingRows(input.type, input.files[f].groups[GroupOf(input.files[f].groups, row)],
                                   PruningPredicates)
    PROVE  \E p \in PruningPredicates : ~Satisfies(ValueOf(f, row), p)
<1> DEFINE groups == input.files[f].groups
           g == GroupOf(groups, row)
           group == groups[g]
<1>1. /\ g \in DOMAIN groups
      /\ \E i \in DOMAIN group.values : RowValues(f)[row + 1] = group.values[i]
  BY RowsLie
<1>2. PICK p \in PruningPredicates : EvalSqlWhere(input.type, group, p) = FALSE
  BY DEF MayContainMatchingRows
<1>3. p[1] \in Operations /\ p[2] \in Int
  BY DEF PruningPredicates, ValidInput, ValidFilter
<1>4. group.values \in Seq(Int \cup {Null}) /\ TruthfulStats(input.type, group.values, group.stats)
  BY <1>1, ValidFiles DEF ValidFile, ValidGroup
<1> HIDE DEF group
<1>5. PICK i \in DOMAIN group.values : RowValues(f)[row + 1] = group.values[i]
  BY <1>1
<1>6. ~Satisfies(Logical(input.type, group.values[i]), p)
  BY <1>2, <1>3, <1>4, RefutedBySatisfiesNone
<1> QED
  BY <1>5, <1>6 DEF ValueOf

-----------------------------------------------------------------------------
(* More about sums.                                                        *)

LEMMA SumOfNone ==
    ASSUME NEW s \in [1..0 -> Int]
    PROVE  SumOf(s) = 0
BY PrefixSums

LEMMA SumExtended ==
    ASSUME NEW n \in Nat, NEW s \in [1..n -> Int], NEW t \in [1..(n + 1) -> Int],
           \A i \in 1..n : t[i] = s[i]
    PROVE  SumOf(t) = SumOf(s) + t[n + 1]
<1>1. n + 1 \in Nat /\ n + 1 \in 1..(n + 1) /\ (n + 1) - 1 = n
  OBVIOUS
<1>2. SumOf(t) = Prefix(t, n + 1) /\ Prefix(t, n + 1) = Prefix(t, (n + 1) - 1) + t[n + 1]
  BY <1>1, PrefixSums
<1>3. [j \in 1..n |-> t[j]] = s
  OBVIOUS
<1>4. Prefix(t, n) = SumOf(s)
  BY <1>3 DEF Prefix
<1> QED
  BY <1>1, <1>2, <1>4

LEMMA SumOfZeros ==
    ASSUME NEW n \in Nat, NEW s \in [1..n -> Int], \A i \in 1..n : s[i] = 0
    PROVE  SumOf(s) = 0
<1>1. /\ Prefix(s, 0) = 0 /\ SumOf(s) = Prefix(s, n)
      /\ \A k \in 1..n : Prefix(s, k) = Prefix(s, k - 1) + s[k]
  BY PrefixSums
<1> DEFINE S == {k \in 0..n : Prefix(s, k) = 0}
<1>2. 0 \in S
  BY <1>1
<1>3. ASSUME NEW k \in 0..(n - 1), k \in S PROVE k + 1 \in S
  <2>1. k + 1 \in 1..n /\ (k + 1) - 1 = k /\ k + 1 \in 0..n
    OBVIOUS
  <2>2. Prefix(s, k + 1) = Prefix(s, k) + s[k + 1] /\ s[k + 1] = 0
    BY <1>1, <2>1
  <2> QED
    BY <1>3, <2>1, <2>2
<1> HIDE DEF S
<1>4. \A k \in 0..n : k \in S
  BY ONLY n \in Nat, <1>2, <1>3, IntervalInduction
<1> QED
  BY <1>1, <1>4 DEF S

LEMMA ZeroSum ==
    ASSUME NEW n \in Nat, NEW s \in [1..n -> Nat], SumOf(s) = 0
    PROVE  \A i \in 1..n : s[i] = 0
<1>1. s \in [1..n -> Int]
  OBVIOUS
<1>2. SumOf(s) = Prefix(s, n) /\ \A k \in 1..n : Prefix(s, k) = Prefix(s, k - 1) + s[k]
  BY <1>1, PrefixSums
<1>3. /\ \A k \in 0..n : Prefix(s, k) \in Nat
      /\ \A j, k \in 0..n : j <= k => Prefix(s, j) <= Prefix(s, k)
  BY PrefixGrows
<1>4. ASSUME NEW i \in 1..n PROVE s[i] = 0
  <2>1. i - 1 \in 0..n /\ i \in 0..n /\ n \in 0..n /\ i <= n
    OBVIOUS
  <2>2. Prefix(s, i - 1) \in Nat /\ Prefix(s, i) <= Prefix(s, n) /\ Prefix(s, i) \in Nat
    BY <1>3, <2>1
  <2>3. Prefix(s, i) = Prefix(s, i - 1) + s[i] /\ s[i] \in Nat
    BY <1>2
  <2> QED
    BY <1>2, <2>2, <2>3
<1> QED
  BY <1>4

LEMMA SumUpdated ==
    ASSUME NEW n \in Nat, NEW s \in [1..n -> Int], NEW j \in 1..n, NEW v \in Int
    PROVE  SumOf([s EXCEPT ![j] = v]) = SumOf(s) - s[j] + v
<1> DEFINE t == [s EXCEPT ![j] = v]
<1>1. t \in [1..n -> Int] /\ t[j] = v /\ \A k \in 1..n : k # j => t[k] = s[k]
  OBVIOUS
<1> HIDE DEF t
<1>2. /\ Prefix(s, 0) = 0 /\ SumOf(s) = Prefix(s, n)
      /\ \A k \in 0..n : Prefix(s, k) \in Int
      /\ \A k \in 1..n : Prefix(s, k) = Prefix(s, k - 1) + s[k]
  BY PrefixSums
<1>3. /\ Prefix(t, 0) = 0 /\ SumOf(t) = Prefix(t, n)
      /\ \A k \in 0..n : Prefix(t, k) \in Int
      /\ \A k \in 1..n : Prefix(t, k) = Prefix(t, k - 1) + t[k]
  BY <1>1, PrefixSums
<1> DEFINE S == {k \in 0..n : Prefix(t, k) = IF k < j THEN Prefix(s, k) ELSE Prefix(s, k) - s[j] + v}
<1>4. 0 \in S
  BY <1>2, <1>3
<1>5. ASSUME NEW k \in 0..(n - 1), k \in S PROVE k + 1 \in S
  <2>1. k + 1 \in 1..n /\ (k + 1) - 1 = k /\ k + 1 \in 0..n /\ k \in 0..n
    OBVIOUS
  <2>2. Prefix(s, k + 1) = Prefix(s, k) + s[k + 1] /\ Prefix(t, k + 1) = Prefix(t, k) + t[k + 1]
    BY <1>2, <1>3, <2>1
  <2>3. /\ s[k + 1] \in Int /\ t[k + 1] \in Int /\ s[j] \in Int
        /\ Prefix(s, k) \in Int /\ Prefix(t, k) \in Int
    BY <1>1, <1>2, <1>3, <2>1
  <2>4. Prefix(t, k) = IF k < j THEN Prefix(s, k) ELSE Prefix(s, k) - s[j] + v
    BY <1>5
  <2>5. CASE k + 1 = j
    BY <1>1, <2>1, <2>2, <2>3, <2>4, <2>5
  <2>6. CASE k + 1 # j
    <3>1. t[k + 1] = s[k + 1]
      BY <1>1, <2>1, <2>6
    <3> QED
      BY <2>1, <2>2, <2>3, <2>4, <2>6, <3>1
  <2> QED
    BY <2>5, <2>6
<1> HIDE DEF S
<1>6. \A k \in 0..n : k \in S
  BY ONLY n \in Nat, <1>4, <1>5, IntervalInduction
<1>7. Prefix(t, n) = Prefix(s, n) - s[j] + v
  <2>1. n \in S /\ ~(n < j)
    BY <1>6
  <2> QED
    BY <2>1 DEF S
<1> QED
  BY <1>2, <1>3, <1>7 DEF t

\* Two ways to enumerate a set, and what its members weigh together.
Enumerates(a, n, X) ==
    /\ a \in [1..n -> X] /\ \A i, j \in 1..n : a[i] = a[j] => i = j
    /\ \A x \in X : \E i \in 1..n : a[i] = x
Weight(a, n, w) == SumOf([i \in 1..n |-> w[a[i]]])

LEMMA SameWeight ==
    ASSUME NEW n \in Nat, NEW m \in Nat, NEW X, NEW w \in [X -> Int],
           NEW a, NEW b, Enumerates(a, n, X), Enumerates(b, m, X)
    PROVE  Weight(a, n, w) = Weight(b, m, w)
<1> DEFINE Same(k) == \A Y \in SUBSET X, l \in Nat : \A c \in [1..k -> Y], d \in [1..l -> Y] :
                        Enumerates(c, k, Y) /\ Enumerates(d, l, Y) => Weight(c, k, w) = Weight(d, l, w)
           S == {k \in Nat : Same(k)}
<1>0. ASSUME NEW k \in Nat, NEW Y \in SUBSET X, NEW c \in [1..k -> Y]
      PROVE  [i \in 1..k |-> w[c[i]]] \in [1..k -> Int]
  OBVIOUS
<1>1. 0 \in S
  <2>1. ASSUME NEW Y \in SUBSET X, NEW l \in Nat, NEW c \in [1..0 -> Y], NEW d \in [1..l -> Y],
               Enumerates(c, 0, Y), Enumerates(d, l, Y)
        PROVE  Weight(c, 0, w) = Weight(d, l, w)
    <3>1. Y = {}
      BY <2>1 DEF Enumerates
    <3>2. l = 0
      BY <3>1
    <3>3. Weight(c, 0, w) = 0 /\ Weight(d, 0, w) = 0
      BY <3>2, <1>0, SumOfNone DEF Weight
    <3> QED
      BY <3>2, <3>3
  <2> QED
    BY <2>1
<1>2. ASSUME NEW k \in Nat, k \in S PROVE k + 1 \in S
  <2>1. ASSUME NEW Y \in SUBSET X, NEW l \in Nat, NEW c \in [1..(k + 1) -> Y], NEW d \in [1..l -> Y],
               Enumerates(c, k + 1, Y), Enumerates(d, l, Y)
        PROVE  Weight(c, k + 1, w) = Weight(d, l, w)
    <3> DEFINE x == c[k + 1]
               Z == Y \ {x}
               e == [i \in 1..k |-> c[i]]
    <3>1. x \in Y /\ k + 1 \in 1..(k + 1)
      OBVIOUS
    <3>2. PICK j \in 1..l : d[j] = x
      BY <2>1, <3>1 DEF Enumerates
    <3>3. l - 1 \in Nat /\ l \in 1..l
      BY <3>2
    <3> DEFINE g == [i \in 1..(l - 1) |-> IF i = j THEN d[l] ELSE d[i]]
    <3>4. Z \in SUBSET X
      OBVIOUS
    <3>5. \A i \in 1..(k + 1), h \in 1..(k + 1) : c[i] = c[h] => i = h
      BY <2>1 DEF Enumerates
    <3>6. \A i \in 1..l, h \in 1..l : d[i] = d[h] => i = h
      BY <2>1 DEF Enumerates
    <3>7. e \in [1..k -> Z] /\ Enumerates(e, k, Z)
      <4>1. ASSUME NEW i \in 1..k PROVE e[i] = c[i] /\ e[i] \in Z
        <5>1. i \in 1..(k + 1) /\ i # k + 1
          OBVIOUS
        <5>2. c[i] # x /\ c[i] \in Y
          BY <3>1, <3>5, <5>1
        <5> QED
          BY <5>2
      <4>2. ASSUME NEW z \in Z PROVE \E i \in 1..k : e[i] = z
        <5>1. PICK i \in 1..(k + 1) : c[i] = z
          BY <2>1 DEF Enumerates
        <5>2. i # k + 1
          BY <5>1
        <5>3. i \in 1..k
          BY <5>2
        <5> QED
          BY <4>1, <5>1, <5>3
      <4>3. ASSUME NEW i \in 1..k, NEW h \in 1..k, e[i] = e[h] PROVE i = h
        <5>1. i \in 1..(k + 1) /\ h \in 1..(k + 1)
          OBVIOUS
        <5> QED
          BY <3>5, <4>1, <4>3, <5>1
      <4>4. e \in [1..k -> Z]
        BY <4>1
      <4> HIDE DEF e, Z
      <4> QED
        BY <4>2, <4>3, <4>4 DEF Enumerates
    <3>8. g \in [1..(l - 1) -> Z] /\ Enumerates(g, l - 1, Z)
      <4>1. ASSUME NEW i \in 1..(l - 1)
            PROVE  /\ i = j => g[i] = d[l]
                   /\ i # j => g[i] = d[i]
                   /\ g[i] \in Z
        <5>1. i \in 1..l /\ i # l
          BY <3>3
        <5>2. g[i] = IF i = j THEN d[l] ELSE d[i]
          OBVIOUS
        <5>3. i = j => d[l] # x
          BY <3>2, <3>3, <3>6, <5>1
        <5>4. i # j => d[i] # x
          BY <3>2, <3>6, <5>1
        <5>5. d[i] \in Y /\ d[l] \in Y
          BY <3>3, <5>1
        <5> HIDE DEF g
        <5> QED
          BY <5>2, <5>3, <5>4, <5>5
      <4>2. ASSUME NEW z \in Z PROVE \E i \in 1..(l - 1) : g[i] = z
        <5>1. PICK i \in 1..l : d[i] = z
          BY <2>1 DEF Enumerates
        <5>2. i # j
          BY <3>2, <5>1
        <5>3. CASE i = l
          <6>1. j \in 1..(l - 1)
            BY <3>3, <5>2, <5>3
          <6> QED
            BY <4>1, <5>1, <5>3, <6>1
        <5>4. CASE i # l
          <6>1. i \in 1..(l - 1)
            BY <5>4
          <6> QED
            BY <4>1, <5>1, <5>2, <6>1
        <5> QED
          BY <5>3, <5>4
      <4>3. ASSUME NEW i \in 1..(l - 1), NEW h \in 1..(l - 1), g[i] = g[h] PROVE i = h
        <5>1. i \in 1..l /\ h \in 1..l /\ i # l /\ h # l
          BY <3>3
        <5>2. /\ i = j => g[i] = d[l]
              /\ i # j => g[i] = d[i]
              /\ h = j => g[h] = d[l]
              /\ h # j => g[h] = d[h]
          BY <4>1
        <5> HIDE DEF g
        <5> QED
          BY <3>3, <3>6, <4>3, <5>1, <5>2
      <4>4. g \in [1..(l - 1) -> Z]
        BY <4>1
      <4> HIDE DEF g, Z
      <4> QED
        BY <4>2, <4>3, <4>4 DEF Enumerates
    <3>9. Weight(e, k, w) = Weight(g, l - 1, w)
      <4>1. Same(k)
        BY <1>2
      <4> HIDE DEF e, g, Z
      <4> QED
        BY <3>3, <3>4, <3>7, <3>8, <4>1
    <3>10. Weight(c, k + 1, w) = Weight(e, k, w) + w[x]
      <4> DEFINE s == [i \in 1..k |-> w[e[i]]]
                 t == [i \in 1..(k + 1) |-> w[c[i]]]
      <4>1. t \in [1..(k + 1) -> Int]
        OBVIOUS
      <4>2. s \in [1..k -> Int]
        BY <1>0, <3>4, <3>7
      <4>3. \A i \in 1..k : t[i] = s[i]
        OBVIOUS
      <4>4. t[k + 1] = w[x]
        BY <3>1
      <4> HIDE DEF s, t, x
      <4>5. SumOf(t) = SumOf(s) + t[k + 1]
        BY <4>1, <4>2, <4>3, SumExtended
      <4> QED
        BY <4>4, <4>5 DEF s, t, Weight
    <3>11. Weight(d, l, w) = Weight(g, l - 1, w) + w[x]
      <4> DEFINE p == l - 1
                 t == [i \in 1..l |-> w[d[i]]]
                 s == [i \in 1..p |-> w[d[i]]]
                 r == [i \in 1..p |-> w[g[i]]]
      <4>1. t \in [1..l -> Int] /\ s \in [1..p -> Int] /\ r \in [1..p -> Int]
        <5>1. t \in [1..l -> Int]
          OBVIOUS
        <5>2. s \in [1..p -> Int]
          <6>1. \A i \in 1..p : i \in 1..l
            BY <3>3
          <6> QED
            BY <6>1
        <5>3. r \in [1..p -> Int]
          <6> HIDE DEF g, Z
          <6> QED
            BY <1>0, <3>3, <3>4, <3>8
        <5> QED
          BY <5>1, <5>2, <5>3
      <4>2. SumOf(t) = SumOf(s) + w[d[l]]
        <5>1. p \in Nat /\ p + 1 = l
          BY <3>3
        <5>2. t \in [1..(p + 1) -> Int] /\ t[p + 1] = w[d[l]]
          BY <3>3, <4>1, <5>1
        <5>3. \A i \in 1..p : t[i] = s[i]
          BY <3>3
        <5> HIDE DEF t, s, p
        <5> QED
          BY <4>1, <5>1, <5>2, <5>3, SumExtended
      <4>3. SumOf(r) = SumOf(s) - w[x] + w[d[l]]
        <5>1. SumOf(s) \in Int
          <6>1. p \in Nat
            BY <3>3
          <6> HIDE DEF s, p
          <6>2. SumOf(s) = Prefix(s, p) /\ Prefix(s, p) \in Int
            BY <4>1, <6>1, PrefixSums
          <6> QED
            BY <6>2
        <5>2. w[x] \in Int /\ w[d[l]] \in Int
          BY <3>1, <3>3
        <5>3. CASE j = l
          <6>1. r = s
            BY <5>3
          <6> HIDE DEF r, s, x
          <6> QED
            BY <3>2, <5>1, <5>2, <5>3, <6>1
        <5>4. CASE j # l
          <6>1. j \in 1..p /\ p \in Nat
            BY <3>3, <5>4
          <6>2. r = [s EXCEPT ![j] = w[d[l]]]
            BY <6>1
          <6>3. s[j] = w[x]
            BY <3>2, <6>1
          <6> HIDE DEF r, s, x, p
          <6>4. SumOf([s EXCEPT ![j] = w[d[l]]]) = SumOf(s) - s[j] + w[d[l]]
            BY <4>1, <5>2, <6>1, SumUpdated
          <6> QED
            BY <6>2, <6>3, <6>4
        <5> QED
          BY <5>3, <5>4
      <4>4. SumOf(s) \in Int
        <5>1. p \in Nat
          BY <3>3
        <5> HIDE DEF s, p
        <5>2. SumOf(s) = Prefix(s, p) /\ Prefix(s, p) \in Int
          BY <4>1, <5>1, PrefixSums
        <5> QED
          BY <5>2
      <4>5. w[x] \in Int /\ w[d[l]] \in Int
        BY <3>1, <3>3
      <4>6. Weight(d, l, w) = SumOf(t) /\ Weight(g, l - 1, w) = SumOf(r)
        BY Zenon DEF Weight
      <4> HIDE DEF r, s, t, x, g
      <4> QED
        BY <4>2, <4>3, <4>4, <4>5, <4>6
    <3> HIDE DEF x, e, g, Z
    <3> QED
      BY <3>9, <3>10, <3>11
  <2> QED
    BY <2>1
<1> HIDE DEF S
<1>3. n \in S
  BY <1>1, <1>2, NatSetInduction
<1>4. Same(n)
  BY <1>3 DEF S
<1>5. a \in [1..n -> X] /\ b \in [1..m -> X] /\ X \in SUBSET X
  BY DEF Enumerates
<1> QED
  BY <1>4, <1>5

-----------------------------------------------------------------------------
(* Division.                                                               *)

LEMMA ProductGrows ==
    ASSUME NEW a \in Int, NEW b \in Int, NEW d \in Nat, a <= b
    PROVE  a * d <= b * d /\ a * d \in Int /\ b * d \in Int /\ (a + 1) * d = a * d + d
OBVIOUS

LEMMA DivBounds ==
    ASSUME NEW a \in Int, NEW d \in Nat \ {0}, NEW q, q = a \div d
    PROVE  q \in Int /\ q * d <= a /\ a < q * d + d
OBVIOUS

LEMMA DivIs ==
    ASSUME NEW a \in Int, NEW d \in Nat \ {0}, NEW b \in Int, b * d <= a, a < b * d + d
    PROVE  a \div d = b
<1> DEFINE q == a \div d
<1>1. q \in Int /\ q * d <= a /\ a < q * d + d
  BY DivBounds
<1> HIDE DEF q
<1>2. CASE q < b
  <2>1. (q + 1) * d <= b * d /\ (q + 1) * d = q * d + d
    BY <1>1, <1>2, ProductGrows
  <2> QED
    BY <1>1, <2>1
<1>3. CASE b < q
  <2>1. (b + 1) * d <= q * d /\ (b + 1) * d = b * d + d
    BY <1>1, <1>3, ProductGrows
  <2> QED
    BY <1>1, <2>1
<1>4. q = b
  BY <1>1, <1>2, <1>3
<1> QED
  BY <1>4 DEF q

LEMMA CeilDivBounds ==
    ASSUME NEW a \in Int, NEW d \in Nat \ {0}, NEW q, q = CeilDiv(a, d)
    PROVE  q \in Int /\ a <= q * d /\ q * d < a + d
<1>1. a + d - 1 \in Int /\ q = (a + d - 1) \div d
  BY DEF CeilDiv
<1>2. q \in Int /\ q * d <= a + d - 1 /\ a + d - 1 < q * d + d
  BY <1>1, DivBounds
<1> QED
  BY <1>2

\* Even shares: what a partition takes keeps the shares of the rest even.
LEMMA EvenShare ==
    ASSUME NEW q \in Nat, NEW left \in Nat, NEW parts \in Nat \ {0},
           q * parts <= left, left <= q * parts + parts, NEW take, take = CeilDiv(left, parts)
    PROVE  /\ take \in {q, q + 1} /\ take <= left
           /\ q * (parts - 1) <= left - take /\ left - take <= q * (parts - 1) + (parts - 1)
<1> DEFINE qp == q * parts
<1>1. qp \in Nat /\ q * (parts - 1) = qp - q
  OBVIOUS
<1>2. take \in Int /\ left <= take * parts /\ take * parts < left + parts
  BY CeilDivBounds
<1>3. (q + 1) * parts = qp + parts /\ (q + 2) * parts = qp + parts + parts
  OBVIOUS
<1>4. take >= q
  <2>1. CASE take < q
    <3>1. (take + 1) * parts <= q * parts /\ (take + 1) * parts = take * parts + parts
      BY <1>2, <2>1, ProductGrows
    <3>2. take * parts \in Int
      BY <1>2
    <3> QED
      BY <1>1, <1>2, <2>1, <3>1, <3>2
  <2> QED
    BY <1>2, <2>1
<1>5. take <= q + 1
  <2>1. CASE take > q + 1
    <3>1. (q + 2) * parts <= take * parts
      BY <1>2, <2>1, ProductGrows
    <3>2. take * parts \in Int
      BY <1>2
    <3> QED
      BY <1>1, <1>2, <1>3, <3>1, <3>2
  <2> QED
    BY <1>2, <2>1
<1>6. take \in {q, q + 1}
  BY <1>2, <1>4, <1>5
<1> HIDE DEF qp
<1>7. CASE take = q
  <2>1. take * parts = qp
    BY <1>7 DEF qp
  <2>2. left = qp /\ q <= qp
    <3>1. left = qp
      BY <1>1, <1>2, <2>1 DEF qp
    <3>2. q * 1 <= q * parts
      OBVIOUS
    <3> QED
      BY <3>1, <3>2 DEF qp
  <2> QED
    BY <1>1, <1>6, <1>7, <2>2
<1>8. CASE take = q + 1
  <2>1. take * parts = qp + parts
    BY <1>3, <1>8 DEF qp
  <2>2. left >= qp + 1
    BY <1>1, <1>2, <2>1
  <2>3. q * 1 <= q * parts
    OBVIOUS
  <2>4. q <= qp /\ left <= qp + parts
    BY <2>3 DEF qp
  <2> QED
    BY <1>1, <1>6, <1>8, <2>2, <2>4
<1> QED
  BY <1>6, <1>7, <1>8

-----------------------------------------------------------------------------
(* Whole-file grouping.                                                    *)

WholeTasks(F) == [file : F, range : {Whole}]

\* The groups are not empty and hold each file of F once.
Holding(groups, F) ==
    /\ groups \in Seq(Seq(WholeTasks(F)))
    /\ \A p \in 1..Len(groups) : groups[p] # <<>>
    /\ \A f \in F : \E p \in 1..Len(groups) : \E i \in 1..Len(groups[p]) : groups[p][i].file = f
    /\ \A p, q \in 1..Len(groups) : \A i \in 1..Len(groups[p]), j \in 1..Len(groups[q]) :
         groups[p][i].file = groups[q][j].file => p = q /\ i = j
OneGroup(g, F) ==
    /\ g \in Seq(WholeTasks(F)) /\ g # <<>>
    /\ \A f \in F : \E i \in 1..Len(g) : g[i].file = f
    /\ \A i, j \in 1..Len(g) : g[i].file = g[j].file => i = j

Twice(groups, p, q, i, j) ==
    /\ p \in 1..Len(groups) /\ q \in 1..Len(groups) /\ i \in 1..Len(groups[p]) /\ j \in 1..Len(groups[q])
    /\ groups[p][i].file = groups[q][j].file

LEMMA HoldsOnce ==
    ASSUME NEW groups, NEW F, Holding(groups, F), NEW p, NEW q, NEW i, NEW j, Twice(groups, p, q, i, j)
    PROVE  p = q /\ i = j
<1>1. \A a, b \in 1..Len(groups) : \A k \in 1..Len(groups[a]), l \in 1..Len(groups[b]) :
        groups[a][k].file = groups[b][l].file => a = b /\ k = l
  BY Zenon DEF Holding
<1>2. /\ p \in 1..Len(groups) /\ q \in 1..Len(groups) /\ i \in 1..Len(groups[p]) /\ j \in 1..Len(groups[q])
      /\ groups[p][i].file = groups[q][j].file
  BY DEF Twice
<1>3. \A k \in 1..Len(groups[p]), l \in 1..Len(groups[q]) :
        groups[p][k].file = groups[q][l].file => p = q /\ k = l
  BY ONLY <1>1, <1>2, Zenon
<1> QED
  BY ONLY <1>2, <1>3, Zenon

LEMMA AddGroup ==
    ASSUME NEW F, NEW G, F \cap G = {}, NEW groups, Holding(groups, F), NEW g, OneGroup(g, G)
    PROVE  Holding(Append(groups, g), F \cup G)
<1> DEFINE n == Len(groups)
           H == F \cup G
           all == Append(groups, g)
<1>1. /\ groups \in Seq(Seq(WholeTasks(F))) /\ n \in Nat
      /\ \A p \in 1..n : groups[p] \in Seq(WholeTasks(F)) /\ groups[p] # <<>>
  BY DEF Holding
<1>2. g \in Seq(WholeTasks(G)) /\ g # <<>>
  BY DEF OneGroup
<1>3. /\ \A s \in Seq(WholeTasks(F)) : s \in Seq(WholeTasks(H))
      /\ \A s \in Seq(WholeTasks(G)) : s \in Seq(WholeTasks(H))
  <2>1. WholeTasks(F) \subseteq WholeTasks(H) /\ WholeTasks(G) \subseteq WholeTasks(H)
    BY DEF WholeTasks
  <2> HIDE DEF H
  <2> QED
    BY <2>1
<1>4. groups \in Seq(Seq(WholeTasks(H))) /\ g \in Seq(WholeTasks(H))
  <2> HIDE DEF H
  <2> QED
    BY <1>1, <1>2, <1>3
<1>5. /\ all \in Seq(Seq(WholeTasks(H))) /\ Len(all) = n + 1
      /\ (\A p \in 1..n : all[p] = groups[p]) /\ all[n + 1] = g
  <2> HIDE DEF H
  <2> QED
    BY <1>4
<1>6. ASSUME NEW p \in 1..n, NEW i \in 1..Len(groups[p]) PROVE groups[p][i].file \in F
  <2>1. groups[p] \in Seq(WholeTasks(F))
    BY <1>1
  <2>2. groups[p][i] \in WholeTasks(F)
    BY <2>1, ElementOfSeq
  <2> QED
    BY <2>2 DEF WholeTasks
<1>7. ASSUME NEW i \in 1..Len(g) PROVE g[i].file \in G
  <2>1. g[i] \in WholeTasks(G)
    BY <1>2, ElementOfSeq
  <2> QED
    BY <2>1 DEF WholeTasks
<1> HIDE DEF all
<1>8. ASSUME NEW p \in 1..(n + 1) PROVE (p \in 1..n /\ all[p] = groups[p]) \/ (p = n + 1 /\ all[p] = g)
  BY <1>1, <1>5
<1>9. \A p \in 1..(n + 1) : all[p] # <<>>
  BY <1>1, <1>2, <1>8
<1>10. ASSUME NEW f \in H
       PROVE  \E p \in 1..(n + 1) : \E i \in 1..Len(all[p]) : all[p][i].file = f
  <2>1. CASE f \in F
    <3>0. PICK p \in 1..n : \E i \in 1..Len(groups[p]) : groups[p][i].file = f
      BY <2>1 DEF Holding
    <3>1. PICK i \in 1..Len(groups[p]) : groups[p][i].file = f
      BY <3>0
    <3>2. p \in 1..(n + 1) /\ all[p] = groups[p]
      BY <1>1, <1>5
    <3> QED
      BY <3>1, <3>2
  <2>2. CASE f \in G
    <3>1. PICK i \in 1..Len(g) : g[i].file = f
      BY <2>2 DEF OneGroup
    <3>2. n + 1 \in 1..(n + 1) /\ all[n + 1] = g
      BY <1>1, <1>5
    <3> QED
      BY <3>1, <3>2
  <2> QED
    BY <2>1, <2>2
<1>11. ASSUME NEW p \in 1..(n + 1), NEW q \in 1..(n + 1), NEW i \in 1..Len(all[p]), NEW j \in 1..Len(all[q]),
              all[p][i].file = all[q][j].file
       PROVE  p = q /\ i = j
  <2>1. CASE p \in 1..n /\ q \in 1..n
    <3>1. all[p] = groups[p] /\ all[q] = groups[q]
      BY <1>5, <2>1
    <3> QED
      BY <1>11, <2>1, <3>1 DEF Holding
  <2>2. CASE p = n + 1 /\ q = n + 1
    BY <1>5, <1>11, <2>2 DEF OneGroup
  <2>3. CASE p \in 1..n /\ q = n + 1
    <3>1. all[p][i].file \in F /\ all[q][j].file \in G
      BY <1>5, <1>6, <1>7, <2>3
    <3> QED
      BY <1>11, <3>1
  <2>4. CASE p = n + 1 /\ q \in 1..n
    <3>1. all[p][i].file \in G /\ all[q][j].file \in F
      BY <1>5, <1>6, <1>7, <2>4
    <3> QED
      BY <1>11, <3>1
  <2> QED
    BY <1>8, <2>1, <2>2, <2>3, <2>4
<1> HIDE DEF n, H
<1>12. Holding(all, H)
  BY <1>5, <1>9, <1>10, <1>11 DEF Holding
<1> QED
  BY <1>12 DEF all, H

LEMMA AddFile ==
    ASSUME NEW F, NEW f, f \notin F, NEW groups, Holding(groups, F), NEW least \in 1..Len(groups)
    PROVE  Holding([groups EXCEPT ![least] = Append(@, WholeFile(f))], F \cup {f})
<1> DEFINE n == Len(groups)
           H == F \cup {f}
           g == groups[least]
           all == [groups EXCEPT ![least] = Append(@, WholeFile(f))]
<1>1. /\ groups \in Seq(Seq(WholeTasks(F))) /\ n \in Nat
      /\ \A p \in 1..n : groups[p] \in Seq(WholeTasks(F)) /\ groups[p] # <<>>
  <2>1. groups \in Seq(Seq(WholeTasks(F))) /\ \A p \in 1..n : groups[p] # <<>>
    BY Zenon DEF Holding
  <2>2. n \in Nat /\ \A p \in 1..n : groups[p] \in Seq(WholeTasks(F))
    BY <2>1
  <2> QED
    BY <2>1, <2>2
<1>2. \A s \in Seq(WholeTasks(F)) : s \in Seq(WholeTasks(H))
  <2>1. WholeTasks(F) \subseteq WholeTasks(H)
    BY DEF WholeTasks
  <2> HIDE DEF H
  <2> QED
    BY <2>1
<1>3. WholeFile(f) \in WholeTasks(H) /\ WholeFile(f).file = f
  BY DEF WholeFile, WholeTasks
<1>4. /\ Append(g, WholeFile(f)) \in Seq(WholeTasks(H)) /\ Append(g, WholeFile(f)) # <<>>
      /\ Len(Append(g, WholeFile(f))) = Len(g) + 1 /\ Len(g) \in Nat
      /\ \A i \in 1..Len(g) : Append(g, WholeFile(f))[i] = g[i]
      /\ Append(g, WholeFile(f))[Len(g) + 1] = WholeFile(f)
  <2>1. g \in Seq(WholeTasks(H))
    BY <1>1, <1>2
  <2> HIDE DEF H, g
  <2> QED
    BY <1>3, <2>1
<1>5. groups \in Seq(Seq(WholeTasks(H)))
  <2> HIDE DEF H
  <2> QED
    BY <1>1, <1>2
<1>6. /\ all \in Seq(Seq(WholeTasks(H))) /\ Len(all) = n
      /\ (\A p \in 1..n : p # least => all[p] = groups[p]) /\ all[least] = Append(g, WholeFile(f))
  <2> HIDE DEF H
  <2> QED
    BY <1>4, <1>5
<1>7. ASSUME NEW p \in 1..n, NEW i \in 1..Len(groups[p]) PROVE groups[p][i].file \in F
  <2>1. groups[p] \in Seq(WholeTasks(F))
    BY <1>1
  <2>2. groups[p][i] \in WholeTasks(F)
    BY <2>1, ElementOfSeq
  <2> QED
    BY <2>2 DEF WholeTasks
<1> HIDE DEF all
<1>8. ASSUME NEW p \in 1..n, NEW i \in 1..Len(all[p])
      PROVE  \/ i \in 1..Len(groups[p]) /\ all[p][i].file = groups[p][i].file
             \/ p = least /\ i = Len(g) + 1 /\ all[p][i].file = f
  <2>1. CASE p # least
    BY <1>6, <2>1
  <2>2. CASE p = least
    <3>1. i \in 1..(Len(g) + 1)
      BY <1>4, <1>6, <2>2
    <3>2. CASE i = Len(g) + 1
      BY <1>3, <1>4, <1>6, <2>2, <3>2
    <3>3. CASE i # Len(g) + 1
      <4>1. i \in 1..Len(g)
        BY <1>4, <3>1, <3>3
      <4> QED
        BY <1>4, <1>6, <2>2, <4>1
    <3> QED
      BY <3>2, <3>3
  <2> QED
    BY <2>1, <2>2
<1>9. \A p \in 1..n : all[p] # <<>>
  BY <1>1, <1>4, <1>6
<1>10. ASSUME NEW h \in H
       PROVE  \E p \in 1..n : \E i \in 1..Len(all[p]) : all[p][i].file = h
  <2>1. CASE h \in F
    <3>0. PICK p \in 1..n : \E i \in 1..Len(groups[p]) : groups[p][i].file = h
      BY <2>1 DEF Holding
    <3>1. PICK i \in 1..Len(groups[p]) : groups[p][i].file = h
      BY <3>0
    <3>2. CASE p # least
      BY <1>6, <3>1, <3>2
    <3>3. CASE p = least
      <4>1. i \in 1..Len(g) /\ i \in 1..(Len(g) + 1)
        BY <1>4, <3>3
      <4>2. all[p][i] = groups[p][i] /\ i \in 1..Len(all[p])
        BY <1>4, <1>6, <3>3, <4>1
      <4> QED
        BY <3>1, <4>2
    <3> QED
      BY <3>2, <3>3
  <2>2. CASE h = f
    <3>1. Len(g) + 1 \in 1..Len(all[least]) /\ all[least][Len(g) + 1].file = f
      BY <1>3, <1>4, <1>6
    <3> QED
      BY <2>2, <3>1
  <2> QED
    BY <2>1, <2>2
<1>11. ASSUME NEW p \in 1..n, NEW q \in 1..n, NEW i \in 1..Len(all[p]), NEW j \in 1..Len(all[q]),
              all[p][i].file = all[q][j].file
       PROVE  p = q /\ i = j
  <2>1. CASE i \in 1..Len(groups[p]) /\ all[p][i].file = groups[p][i].file
    <3>1. groups[p][i].file \in F
      BY <1>7, <2>1
    <3>2. j \in 1..Len(groups[q]) /\ all[q][j].file = groups[q][j].file
      BY <1>8, <1>11, <2>1, <3>1
    <3>3. groups[p][i].file = groups[q][j].file /\ i \in 1..Len(groups[p])
      BY <1>11, <2>1, <3>2
    <3> QED
      BY ONLY <3>2, <3>3, Holding(groups, F), p \in 1..n, q \in 1..n DEF Holding, n
  <2>2. CASE p = least /\ i = Len(g) + 1 /\ all[p][i].file = f
    <3>1. q = least /\ j = Len(g) + 1
      <4>1. CASE j \in 1..Len(groups[q]) /\ all[q][j].file = groups[q][j].file
        <5>1. groups[q][j].file \in F
          BY <1>7, <4>1
        <5> QED
          BY <1>11, <2>2, <4>1, <5>1
      <4> QED
        BY <1>8, <4>1
    <3> QED
      BY <2>2, <3>1
  <2> QED
    BY <1>8, <2>1, <2>2
<1> HIDE DEF n, H
<1>12. Holding(all, H)
  BY <1>6, <1>9, <1>10, <1>11 DEF Holding
<1> QED
  BY <1>12 DEF all, H

\* The sort by size keeps every file.
LEMMA LargestFirstIs ==
    ASSUME NEW n \in Nat, NEW sizes \in [1..n -> Nat]
    PROVE  Enumerates(LargestFirst(sizes), n, 1..n)
<1> DEFINE S == DOMAIN sizes
           Before(f, g) == sizes[f] > sizes[g] \/ (sizes[f] = sizes[g] /\ f < g)
           s == LargestFirst(sizes)
<1>0. S = 1..n /\ Cardinality(1..n) = n /\ IsFiniteSet(1..n)
  BY FS_Interval
<1>1. PICK R : \A x, y \in S : <<x, y>> \in R <=> Before(x, y)
  <2> DEFINE Q == {p \in S \X S : Before(p[1], p[2])}
  <2>1. \A x, y \in S : <<x, y>> \in Q <=> Before(x, y)
    OBVIOUS
  <2> HIDE DEF Q
  <2> QED
    BY <2>1
<1>2. s = [k \in 1..Cardinality(S) |-> CHOOSE x \in S : Cardinality({y \in S : Before(y, x)}) = k - 1]
  BY Zenon DEF LargestFirst, InOrder
<1>3. StrictOrder(S, R)
  <2>1. \A x \in S : sizes[x] \in Nat /\ x \in Int
    OBVIOUS
  <2> QED
    BY <1>1, <2>1 DEF StrictOrder
<1>4. \A x \in S : RankIn(S, R, x) = Cardinality({y \in S : Before(y, x)})
  <2>1. \A x \in S : {y \in S : <<y, x>> \in R} = {y \in S : Before(y, x)}
    BY <1>1
  <2> QED
    BY <2>1, Zenon DEF RankIn
<1> HIDE DEF S, Before, s
<1>5. IsFiniteSet(S) /\ Cardinality(S) = n
  BY <1>0
<1>6. \A k \in 0..(n - 1) : \E x \in S : Cardinality({y \in S : Before(y, x)}) = k
  <2>1. \A k \in 0..(Cardinality(S) - 1) : \E x \in S : RankIn(S, R, x) = k
    BY ONLY <1>3, <1>5, RanksNumber
  <2> QED
    BY <1>4, <1>5, <2>1
<1>7. ASSUME NEW k \in 1..n PROVE s[k] \in S /\ RankIn(S, R, s[k]) = k - 1
  <2>1. k - 1 \in 0..(n - 1)
    OBVIOUS
  <2>2. s[k] = CHOOSE x \in S : Cardinality({y \in S : Before(y, x)}) = k - 1
    BY <1>2, <1>5
  <2>3. s[k] \in S /\ Cardinality({y \in S : Before(y, s[k])}) = k - 1
    BY <1>6, <2>1, <2>2, Zenon
  <2> QED
    BY <1>4, <2>3
<1>8. s \in [1..n -> S]
  BY <1>2, <1>5, <1>7
<1>9. Ranked(S, R, s)
  BY <1>5, <1>7, <1>8 DEF Ranked
<1>10. SortedBy(S, R, s)
  BY ONLY <1>3, <1>5, <1>9, SortedIs
<1>11. ASSUME NEW i \in 1..n, NEW j \in 1..n, s[i] = s[j] PROVE i = j
  <2>1. i - 1 = j - 1
    BY <1>7, <1>11
  <2> QED
    BY <2>1
<1>12. \A x \in S : \E k \in 1..n : s[k] = x
  BY <1>5, <1>10 DEF SortedBy
<1>13. Enumerates(s, n, 1..n)
  BY <1>0, <1>8, <1>11, <1>12 DEF Enumerates
<1> QED
  BY <1>13 DEF s

LEMMA LeastLoadedIs ==
    ASSUME NEW n \in Nat \ {0}, NEW loads \in [1..n -> Nat]
    PROVE  LeastLoaded(loads) \in 1..n /\ \A q \in 1..n : loads[LeastLoaded(loads)] <= loads[q]
<1> DEFINE V == {loads[p] : p \in 1..n}
           Least(p) == \A q \in DOMAIN loads : loads[p] < loads[q] \/ (loads[p] = loads[q] /\ p <= q)
<1>1. V \subseteq Nat /\ V # {}
  OBVIOUS
<1>2. PICK v \in V : \A u \in V : v <= u
  <2> HIDE DEF V
  <2> QED
    BY <1>1, LeastNat
<1> DEFINE P == {p \in 1..n : loads[p] = v}
<1>3. P \subseteq Nat /\ P # {}
  BY <1>2
<1>4. PICK p \in P : \A q \in P : p <= q
  <2> HIDE DEF P
  <2> QED
    BY <1>3, LeastNat
<1>5. p \in 1..n /\ loads[p] = v
  BY <1>4
<1>6. ASSUME NEW q \in 1..n PROVE loads[p] < loads[q] \/ (loads[p] = loads[q] /\ p <= q)
  <2>1. v <= loads[q] /\ loads[q] \in Nat /\ v \in Nat
    BY <1>1, <1>2
  <2>2. loads[q] = v => p <= q
    BY <1>4
  <2> QED
    BY <1>5, <2>1, <2>2
<1>7. p \in DOMAIN loads /\ Least(p)
  BY <1>5, <1>6
<1> HIDE DEF Least
<1>8. LeastLoaded(loads) \in DOMAIN loads /\ Least(LeastLoaded(loads))
  <2>1. LeastLoaded(loads) = CHOOSE x \in DOMAIN loads : Least(x)
    BY Zenon DEF LeastLoaded, Least
  <2> QED
    BY <1>7, <2>1, Zenon
<1> DEFINE l == LeastLoaded(loads)
<1>9. l \in 1..n /\ \A q \in 1..n : loads[l] < loads[q] \/ loads[l] = loads[q]
  BY <1>8 DEF l, Least
<1>10. \A q \in 1..n : loads[l] <= loads[q]
  <2>1. \A q \in 1..n : loads[q] \in Nat
    OBVIOUS
  <2> QED
    BY <1>9, <2>1
<1> QED
  BY <1>9, <1>10 DEF l

\* The step of group_by_file_count, from a state of its fold.
CountStates == [used : Int, groups : Seq(Seq(WholeTasks(Int)))]

LEMMA TakeFilesIs ==
    ASSUME NEW acc \in CountStates, NEW count \in Nat, NEW limit \in Nat, NEW k \in 1..limit
    PROVE  LET take == CeilDiv(count - acc.used, limit - (k - 1))
               next == TakeFiles(acc, k, count, limit)
           IN  /\ next \in CountStates /\ take \in Int
               /\ next.used = acc.used + take
               /\ next.groups = Append(acc.groups, [i \in 1..take |-> WholeFile(acc.used + i)])
<1> DEFINE take == CeilDiv(count - acc.used, limit - (k - 1))
           group == [i \in 1..take |-> WholeFile(acc.used + i)]
           next == TakeFiles(acc, k, count, limit)
<1>1. next = [used |-> acc.used + take, groups |-> Append(acc.groups, group)]
  BY Zenon DEF TakeFiles
<1>2. acc.used \in Int /\ acc.groups \in Seq(Seq(WholeTasks(Int)))
  BY DEF CountStates
<1>3. take \in Int
  <2>1. count - acc.used \in Int /\ limit - (k - 1) \in Nat \ {0}
    BY <1>2
  <2> QED
    BY <2>1, CeilDivBounds
<1> HIDE DEF take
<1>4. group \in Seq(WholeTasks(Int))
  <2>1. ASSUME NEW i \in 1..take PROVE WholeFile(acc.used + i) \in WholeTasks(Int)
    BY <1>2, <1>3 DEF WholeFile, WholeTasks
  <2>2. group \in [1..take -> WholeTasks(Int)]
    BY <2>1
  <2>3. CASE take \in Nat
    <3> HIDE DEF group
    <3> QED
      BY <2>2, <2>3
  <2>4. CASE take \notin Nat
    <3>1. 1..take = 1..0
      BY <1>3, <2>4
    <3>2. group \in [1..0 -> WholeTasks(Int)]
      BY <2>2, <3>1
    <3> HIDE DEF group
    <3> QED
      BY <3>2
  <2> QED
    BY <2>3, <2>4
<1> HIDE DEF group
<1>5. Append(acc.groups, group) \in Seq(Seq(WholeTasks(Int)))
  BY <1>2, <1>4
<1>6. next \in CountStates
  BY <1>1, <1>2, <1>3, <1>5 DEF CountStates
<1> QED
  BY <1>1, <1>3, <1>6 DEF take, group

CountInv(acc, k, count, limit, q) ==
    /\ acc \in CountStates /\ acc.used \in 0..count
    /\ Holding(acc.groups, 1..acc.used) /\ Len(acc.groups) = k
    /\ q * (limit - k) <= count - acc.used
    /\ count - acc.used <= q * (limit - k) + (limit - k)
    /\ \A p \in 1..k : Len(acc.groups[p]) \in {q, q + 1}

LEMMA CountStep ==
    ASSUME NEW count \in Nat, NEW limit \in Nat, NEW q \in Nat \ {0}, NEW k \in 1..limit,
           NEW acc, CountInv(acc, k - 1, count, limit, q)
    PROVE  CountInv(TakeFiles(acc, k, count, limit), k, count, limit, q)
<1> DEFINE parts == limit - (k - 1)
           left == count - acc.used
           take == CeilDiv(left, parts)
           next == TakeFiles(acc, k, count, limit)
           used == acc.used
           group == [i \in 1..take |-> WholeFile(acc.used + i)]
<1>1. /\ acc \in CountStates /\ used \in 0..count /\ Len(acc.groups) = k - 1
      /\ Holding(acc.groups, 1..used)
      /\ q * parts <= left /\ left <= q * parts + parts
      /\ \A p \in 1..(k - 1) : Len(acc.groups[p]) \in {q, q + 1}
  BY DEF CountInv
<1>2. next \in CountStates /\ next.used = used + take /\ next.groups = Append(acc.groups, group)
  BY <1>1, TakeFilesIs
<1>3. left \in Nat /\ parts \in Nat \ {0} /\ limit - k = parts - 1
  BY <1>1
<1> HIDE DEF parts, left, next
<1>4. /\ take \in {q, q + 1} /\ take <= left
      /\ q * (parts - 1) <= left - take /\ left - take <= q * (parts - 1) + (parts - 1)
  BY <1>1, <1>3, EvenShare
<1> HIDE DEF take
<1>5. take \in Nat \ {0}
  BY <1>4
<1>6. next.used \in 0..count /\ count - next.used = left - take
  BY <1>1, <1>2, <1>4, <1>5 DEF left
<1> DEFINE G == (used + 1)..(used + take)
<1>7. OneGroup(group, G) /\ Len(group) = take
  <2>1. ASSUME NEW i \in 1..take PROVE WholeFile(used + i) \in WholeTasks(G) /\ WholeFile(used + i).file = used + i
    BY <1>1, <1>5 DEF WholeFile, WholeTasks
  <2>2. group \in [1..take -> WholeTasks(G)] /\ \A i \in 1..take : group[i].file = used + i
    BY <2>1
  <2>3. ASSUME NEW f \in G PROVE \E i \in 1..take : used + i = f
    <3>1. used \in Nat /\ f \in (used + 1)..(used + take)
      BY <1>1
    <3>2. f - used \in 1..take /\ used + (f - used) = f
      BY ONLY <1>5, <3>1
    <3> QED
      BY <3>2
  <2>4. \A i, j \in 1..take : used + i = used + j => i = j
    BY <1>1, <1>5
  <2> HIDE DEF group, G
  <2>5. group \in Seq(WholeTasks(G)) /\ Len(group) = take /\ group # <<>>
    BY <1>5, <2>2
  <2> QED
    BY <2>2, <2>3, <2>4, <2>5 DEF OneGroup
<1>8. (1..used) \cap G = {} /\ (1..used) \cup G = 1..next.used
  BY <1>1, <1>2, <1>5
<1> HIDE DEF group, G
<1>9. Holding(next.groups, 1..next.used)
  <2> DEFINE one == 1..used
  <2>1. Holding(acc.groups, one) /\ one \cap G = {} /\ next.groups = Append(acc.groups, group)
    BY <1>1, <1>2, <1>8
  <2>2. one \cup G = 1..next.used
    BY <1>8
  <2> HIDE DEF one
  <2>3. Holding(Append(acc.groups, group), one \cup G)
    BY ONLY <1>7, <2>1, AddGroup
  <2> QED
    BY ONLY <2>1, <2>2, <2>3, Zenon
<1>10. Len(next.groups) = k /\ \A p \in 1..k : Len(next.groups[p]) \in {q, q + 1}
  <2>1. acc.groups \in Seq(Seq(WholeTasks(1..used)))
    BY <1>1 DEF Holding
  <2> DEFINE B == Seq(WholeTasks(1..used))
  <2>2. /\ Len(next.groups) = Len(acc.groups) + 1
        /\ \A p \in 1..Len(acc.groups) : next.groups[p] = acc.groups[p]
        /\ next.groups[Len(acc.groups) + 1] = group
    <3>1. acc.groups \in Seq(B)
      BY <2>1
    <3> HIDE DEF B
    <3> QED
      BY <1>2, <3>1
  <2>3. (k - 1) + 1 = k
    OBVIOUS
  <2>4. ASSUME NEW p \in 1..k PROVE Len(next.groups[p]) \in {q, q + 1}
    <3>1. CASE p = k
      BY <1>1, <1>4, <1>7, <2>2, <2>3, <3>1
    <3>2. CASE p # k
      <4>1. p \in 1..(k - 1)
        BY <3>2
      <4> QED
        BY <1>1, <2>2, <4>1
    <3> QED
      BY <3>1, <3>2
  <2> QED
    BY <1>1, <2>2, <2>3, <2>4
<1>11. CountInv(next, k, count, limit, q)
  BY <1>2, <1>3, <1>4, <1>6, <1>9, <1>10 DEF CountInv
<1> QED
  BY <1>11 DEF next

Even(groups) == \A p, q \in 1..Len(groups) : Len(groups[p]) - Len(groups[q]) \in -1..1

\* group_by_file_count gives each file to one partition, as evenly as possible.
LEMMA FileCountGroups ==
    ASSUME NEW sizes \in Seq(Nat), sizes # <<>>, NEW target \in Nat \ {0}
    PROVE  LET groups == GroupByFileCount(sizes, target)
           IN  Holding(groups, 1..Len(sizes)) /\ Len(groups) <= target /\ Even(groups)
<1> DEFINE m == Len(sizes)
           limit == Bounded(target, m)
           seq == [k \in 1..limit |-> k]
           base == [used |-> 0, groups |-> <<>>]
           Solves(iter) == iter = [d \in SUBSET (1..limit) |->
                             IF d = {} THEN base
                             ELSE TakeFiles(iter[d \ {Max(d)}], seq[Max(d)], m, limit)]
           fold == CHOOSE iter : Solves(iter)
           result == GroupByFileCount(sizes, target)
<1>1. m \in Nat \ {0} /\ limit \in 1..m /\ limit <= target /\ limit \in Nat
  BY DEF Bounded
<1>2. DOMAIN seq = 1..limit
  OBVIOUS
<1>3. result = fold[1..limit].groups
  BY <1>2, Zenon DEF GroupByFileCount, FoldLeft, MapThenFoldSet
<1> HIDE DEF limit, m
<1>4. \E iter : Solves(iter)
  <2> DEFINE step == [p \in CountStates \X (1..limit) |-> TakeFiles(p[1], p[2], m, limit)]
  <2>1. base \in CountStates
    BY DEF CountStates
  <2>2. \A a \in CountStates, k \in 1..limit : TakeFiles(a, k, m, limit) \in CountStates
    BY <1>1, TakeFilesIs
  <2>3. step \in [CountStates \X (1..limit) -> CountStates]
    BY <2>2
  <2>4. \A a \in CountStates, k \in 1..limit : step[<<a, k>>] = TakeFiles(a, k, m, limit)
    OBVIOUS
  <2> HIDE DEF step, base
  <2>5. PICK iter \in [SUBSET (1..limit) -> CountStates] : IsFold(iter, limit, base, step)
    BY <1>1, <2>1, <2>3, FoldExists
  <2>6. ASSUME NEW d \in SUBSET (1..limit), d # {}
        PROVE  iter[d] = TakeFiles(iter[d \ {Max(d)}], seq[Max(d)], m, limit)
    <3>1. d \subseteq 0..limit
      OBVIOUS
    <3>2. Max(d) \in 1..limit
      BY <1>1, <2>6, <3>1, MaxOf
    <3>3. iter[d \ {Max(d)}] \in CountStates
      OBVIOUS
    <3> QED
      BY <2>4, <2>5, <2>6, <3>2, <3>3 DEF IsFold
  <2> HIDE DEF seq
  <2>7. \A d \in SUBSET (1..limit) :
          iter[d] = IF d = {} THEN base ELSE TakeFiles(iter[d \ {Max(d)}], seq[Max(d)], m, limit)
    BY <2>5, <2>6 DEF IsFold
  <2>8. Solves(iter)
    BY <2>7
  <2> QED
    BY <2>8
<1>5. Solves(fold)
  BY <1>4, Zenon
<1> HIDE DEF fold
<1>6. fold[1..0] = base
  BY <1>5
<1>7. ASSUME NEW k \in 1..limit PROVE fold[1..k] = TakeFiles(fold[1..(k - 1)], k, m, limit)
  <2>1. k \in Nat \ {0}
    BY <1>1
  <2>2. Max(1..k) = k /\ (1..k) \ {k} = 1..(k - 1) /\ 1..k # {}
    BY <2>1, MaxInterval
  <2>3. 1..k \in SUBSET (1..limit)
    BY <1>1
  <2>4. fold[1..k] = TakeFiles(fold[(1..k) \ {Max(1..k)}], seq[Max(1..k)], m, limit)
    BY <1>5, <2>2, <2>3
  <2>5. seq[k] = k
    OBVIOUS
  <2> QED
    BY <2>2, <2>4, <2>5
<1> DEFINE q == m \div limit
           S == {k \in 0..limit : CountInv(fold[1..k], k, m, limit, q)}
<1>8. q \in Nat \ {0} /\ q * limit <= m /\ m < q * limit + limit
  <2>1. q \in Int /\ q * limit <= m /\ m < q * limit + limit
    BY <1>1, DivBounds
  <2> HIDE DEF q
  <2>2. CASE q < 1
    <3>1. (q + 1) * limit <= 1 * limit /\ (q + 1) * limit = q * limit + limit
      BY <1>1, <2>1, <2>2, ProductGrows
    <3>2. q * limit \in Int
      BY <1>1, <2>1
    <3> QED
      BY <1>1, <2>1, <3>1, <3>2
  <2> QED
    BY <2>1, <2>2
<1> HIDE DEF q
<1>9. 0 \in S
  <2>1. base.used = 0 /\ base.groups = <<>> /\ base \in CountStates
    BY DEF CountStates
  <2>2. Holding(<<>>, 1..0)
    <3>1. <<>> \in Seq(Seq(WholeTasks(1..0))) /\ Len(<<>>) = 0
      OBVIOUS
    <3> QED
      BY <3>1 DEF Holding
  <2> HIDE DEF base
  <2>3. CountInv(base, 0, m, limit, q)
    BY <1>1, <1>8, <2>1, <2>2 DEF CountInv
  <2> QED
    BY <1>1, <1>6, <2>3
<1>10. ASSUME NEW k \in 0..(limit - 1), k \in S PROVE k + 1 \in S
  <2>1. k + 1 \in 1..limit /\ (k + 1) - 1 = k /\ k + 1 \in 0..limit
    BY <1>1
  <2>2. fold[1..(k + 1)] = TakeFiles(fold[1..k], k + 1, m, limit)
    <3>1. fold[1..(k + 1)] = TakeFiles(fold[1..((k + 1) - 1)], k + 1, m, limit)
      BY <1>7, <2>1
    <3> QED
      BY <2>1, <3>1
  <2>3. CountInv(fold[1..k], (k + 1) - 1, m, limit, q)
    BY <1>10, <2>1
  <2>4. CountInv(TakeFiles(fold[1..k], k + 1, m, limit), k + 1, m, limit, q)
    BY <1>1, <1>8, <2>1, <2>3, CountStep
  <2> QED
    BY <2>1, <2>2, <2>4
<1> HIDE DEF S
<1>11. \A k \in 0..limit : k \in S
  BY ONLY <1>1, <1>9, <1>10, IntervalInduction
<1>12. CountInv(fold[1..limit], limit, m, limit, q)
  BY <1>1, <1>11 DEF S
<1>13. fold[1..limit].used = m
  <2>1. /\ fold[1..limit].used \in 0..m
        /\ m - fold[1..limit].used <= q * (limit - limit) + (limit - limit)
    BY <1>12 DEF CountInv
  <2>2. limit - limit = 0 /\ q * 0 = 0
    BY <1>1, <1>8
  <2>3. m - fold[1..limit].used <= 0
    BY <2>1, <2>2
  <2> QED
    BY <1>1, <2>1, <2>3
<1>14. Holding(result, 1..m) /\ Len(result) = limit /\ \A p \in 1..limit : Len(result[p]) \in {q, q + 1}
  BY <1>3, <1>12, <1>13 DEF CountInv
<1> HIDE DEF result
<1>15. Even(result)
  <2>1. ASSUME NEW p \in 1..limit, NEW r \in 1..limit PROVE Len(result[p]) - Len(result[r]) \in -1..1
    <3>1. Len(result[p]) \in {q, q + 1} /\ Len(result[r]) \in {q, q + 1}
      BY <1>14
    <3>2. \A a, b \in {q, q + 1} : a - b \in -1..1
      BY <1>8
    <3> QED
      BY <3>1, <3>2
  <2> QED
    BY <1>14, <2>1 DEF Even
<1> QED
  BY <1>1, <1>14, <1>15 DEF result, m

\* The bytes of a partition, file by file.
LEMMA LoadIs ==
    ASSUME NEW m \in Nat, NEW sizes \in [1..m -> Nat], NEW g \in Seq(WholeTasks(1..m)), NEW f \in 1..m
    PROVE  /\ LoadOf(g, sizes) \in Nat
           /\ LoadOf(Append(g, WholeFile(f)), sizes) = LoadOf(g, sizes) + sizes[f]
<1> DEFINE n == Len(g)
           h == Append(g, WholeFile(f))
           s == [i \in 1..n |-> sizes[g[i].file]]
           t == [i \in 1..(n + 1) |-> sizes[h[i].file]]
<1>1. n \in Nat /\ DOMAIN g = 1..n /\ \A i \in 1..n : g[i] \in WholeTasks(1..m)
  OBVIOUS
<1>2. WholeFile(f) \in WholeTasks(1..m) /\ WholeFile(f).file = f
  BY DEF WholeFile, WholeTasks
<1>3. /\ Len(h) = n + 1 /\ DOMAIN h = 1..(n + 1)
      /\ (\A i \in 1..n : h[i] = g[i]) /\ h[n + 1] = WholeFile(f)
  BY <1>2
<1>4. \A x \in WholeTasks(1..m) : sizes[x.file] \in Nat
  BY DEF WholeTasks
<1>5. s \in [1..n -> Nat] /\ t \in [1..(n + 1) -> Nat]
  <2>1. \A i \in 1..(n + 1) : h[i] \in WholeTasks(1..m)
    BY <1>1, <1>2, <1>3
  <2> HIDE DEF h, n
  <2> QED
    BY <1>1, <1>4, <2>1
<1>6. (\A i \in 1..n : t[i] = s[i]) /\ t[n + 1] = sizes[f]
  <2>1. \A i \in 1..n : i \in 1..(n + 1)
    BY <1>1
  <2>2. n + 1 \in 1..(n + 1)
    BY <1>1
  <2> HIDE DEF h, n
  <2> QED
    BY <1>2, <1>3, <2>1, <2>2
<1>7. LoadOf(g, sizes) = SumOf(s) /\ LoadOf(h, sizes) = SumOf(t)
  <2> HIDE DEF h, n
  <2> QED
    BY <1>1, <1>3, Zenon DEF LoadOf
<1> HIDE DEF s, t, n
<1>8. s \in [1..n -> Int] /\ t \in [1..(n + 1) -> Int]
  BY <1>5
<1>9. SumOf(t) = SumOf(s) + t[n + 1]
  BY <1>1, <1>6, <1>8, SumExtended
<1>10. SumOf(s) \in Nat
  BY <1>1, <1>5, PrefixGrows
<1> QED
  BY <1>6, <1>7, <1>9, <1>10

LEMMA WiderTasks ==
    ASSUME NEW F, NEW G, F \subseteq G, NEW groups \in Seq(Seq(WholeTasks(F)))
    PROVE  groups \in Seq(Seq(WholeTasks(G)))
<1>1. WholeTasks(F) \subseteq WholeTasks(G)
  BY DEF WholeTasks
<1>2. \A s \in Seq(WholeTasks(F)) : s \in Seq(WholeTasks(G))
  BY <1>1
<1> QED
  BY <1>2

\* No partition could give its last file to a lighter one.
Balanced(groups, sizes) ==
    \A p, q \in 1..Len(groups) :
      LoadOf(groups[p], sizes) - sizes[groups[p][Len(groups[p])].file] <= LoadOf(groups[q], sizes)

\* A step of group_by_estimated_bytes once every partition has a file.
ToLeastLoaded(next, groups, f, sizes) ==
    \E least \in 1..Len(groups) :
      /\ next = [groups EXCEPT ![least] = Append(@, WholeFile(f))]
      /\ \A q \in 1..Len(groups) : LoadOf(groups[least], sizes) <= LoadOf(groups[q], sizes)

LEMMA AssignFileIs ==
    ASSUME NEW m \in Nat, NEW sizes \in [1..m -> Nat], NEW limit \in Nat \ {0}, NEW f \in 1..m,
           NEW groups \in Seq(Seq(WholeTasks(1..m))), ~(Len(groups) < limit)
    PROVE  ToLeastLoaded(AssignFile(groups, f, sizes, limit), groups, f, sizes)
<1> DEFINE n == Len(groups)
           loads == [p \in DOMAIN groups |-> LoadOf(groups[p], sizes)]
           least == LeastLoaded(loads)
<1>1. n \in Nat \ {0} /\ DOMAIN groups = 1..n /\ \A p \in 1..n : groups[p] \in Seq(WholeTasks(1..m))
  OBVIOUS
<1>2. AssignFile(groups, f, sizes, limit) = [groups EXCEPT ![least] = Append(@, WholeFile(f))]
  BY Zenon DEF AssignFile
<1>3. \A p \in 1..n : LoadOf(groups[p], sizes) \in Nat
  BY <1>1, LoadIs
<1>4. loads \in [1..n -> Nat] /\ \A p \in 1..n : loads[p] = LoadOf(groups[p], sizes)
  BY <1>1, <1>3
<1> HIDE DEF loads, n
<1>5. least \in 1..n /\ \A q \in 1..n : loads[least] <= loads[q]
  BY <1>1, <1>4, LeastLoadedIs
<1> HIDE DEF least
<1>6. \A q \in 1..n : LoadOf(groups[least], sizes) <= LoadOf(groups[q], sizes)
  BY <1>4, <1>5
<1> QED
  BY <1>2, <1>5, <1>6 DEF n, ToLeastLoaded

LEMMA AssignFileType ==
    ASSUME NEW m \in Nat, NEW sizes \in [1..m -> Nat], NEW limit \in Nat \ {0}, NEW f \in 1..m,
           NEW groups \in Seq(Seq(WholeTasks(1..m)))
    PROVE  AssignFile(groups, f, sizes, limit) \in Seq(Seq(WholeTasks(1..m)))
<1> DEFINE B == WholeTasks(1..m)
<1>1. WholeFile(f) \in B
  BY DEF WholeFile, WholeTasks
<1>2. CASE Len(groups) < limit
  <2>1. AssignFile(groups, f, sizes, limit) = Append(groups, <<WholeFile(f)>>)
    BY <1>2 DEF AssignFile
  <2>2. groups \in Seq(Seq(B))
    OBVIOUS
  <2> HIDE DEF B
  <2>3. Append(groups, <<WholeFile(f)>>) \in Seq(Seq(B))
    BY <1>1, <2>2
  <2> QED
    BY <2>1, <2>3 DEF B
<1>3. CASE ~(Len(groups) < limit)
  <2>1. PICK least \in 1..Len(groups) :
          /\ AssignFile(groups, f, sizes, limit) = [groups EXCEPT ![least] = Append(@, WholeFile(f))]
          /\ \A q \in 1..Len(groups) : LoadOf(groups[least], sizes) <= LoadOf(groups[q], sizes)
    <3>1. ToLeastLoaded(AssignFile(groups, f, sizes, limit), groups, f, sizes)
      BY <1>3, AssignFileIs
    <3> QED
      BY <3>1, Zenon DEF ToLeastLoaded
  <2>2. groups \in Seq(Seq(B))
    OBVIOUS
  <2> HIDE DEF B
  <2>3. Append(groups[least], WholeFile(f)) \in Seq(B)
    BY <1>1, <2>2
  <2>4. [groups EXCEPT ![least] = Append(@, WholeFile(f))] \in Seq(Seq(B))
    BY <2>2, <2>3
  <2> QED
    BY <2>1, <2>4 DEF B
<1> QED
  BY <1>2, <1>3

LEMMA SingleLoad ==
    ASSUME NEW m \in Nat, NEW sizes \in [1..m -> Nat], NEW g \in Seq(WholeTasks(1..m)), Len(g) = 1
    PROVE  LoadOf(g, sizes) = sizes[g[1].file] /\ sizes[g[1].file] \in Nat
<1> DEFINE f == g[1].file
<1>1. g[1] \in WholeTasks(1..m)
  OBVIOUS
<1>2. f \in 1..m /\ g[1] = WholeFile(f)
  BY <1>1 DEF WholeTasks, WholeFile
<1>3. g = Append(<<>>, WholeFile(f))
  <2> HIDE DEF f
  <2> QED
    BY <1>2
<1>4. <<>> \in Seq(WholeTasks(1..m))
  OBVIOUS
<1> HIDE DEF f
<1>5. LoadOf(g, sizes) = LoadOf(<<>>, sizes) + sizes[f]
  BY <1>2, <1>3, <1>4, LoadIs
<1>6. LoadOf(<<>>, sizes) = 0
  <2>1. DOMAIN <<>> = 1..0
    OBVIOUS
  <2> DEFINE s == [i \in DOMAIN <<>> |-> sizes[<<>>[i].file]]
  <2>2. s \in [1..0 -> Int]
    BY <2>1
  <2>3. LoadOf(<<>>, sizes) = SumOf(s)
    BY Zenon DEF LoadOf
  <2> HIDE DEF s
  <2> QED
    BY <2>2, <2>3, SumOfNone
<1> QED
  BY <1>2, <1>5, <1>6 DEF f

Taken(order, k) == {order[j] : j \in 1..k}

BytesInv(groups, k, order, sizes, limit) ==
    /\ Holding(groups, Taken(order, k)) /\ Len(groups) <= limit /\ Balanced(groups, sizes)
    /\ Len(groups) < limit => \A p \in 1..Len(groups) : Len(groups[p]) = 1

LEMMA BytesStep ==
    ASSUME NEW m \in Nat, NEW sizes \in [1..m -> Nat], NEW limit \in Nat \ {0},
           NEW order, Enumerates(order, m, 1..m), NEW k \in 1..m,
           NEW groups, BytesInv(groups, k - 1, order, sizes, limit)
    PROVE  BytesInv(AssignFile(groups, order[k], sizes, limit), k, order, sizes, limit)
<1> DEFINE f == order[k]
           n == Len(groups)
           F == Taken(order, k - 1)
           B == WholeTasks(1..m)
           next == AssignFile(groups, f, sizes, limit)
           Load(g) == LoadOf(g, sizes)
           Size(g) == sizes[g[Len(g)].file]
<1>1. /\ Holding(groups, F) /\ n <= limit /\ Balanced(groups, sizes)
      /\ n < limit => \A p \in 1..n : Len(groups[p]) = 1
  BY DEF BytesInv
<1>2. /\ f \in 1..m /\ F \subseteq 1..m /\ f \notin F /\ F \cup {f} = Taken(order, k)
  <2>5. order \in [1..m -> 1..m] /\ \A i, j \in 1..m : order[i] = order[j] => i = j
    BY Zenon DEF Enumerates
  <2>6. \A j \in 1..k : j \in 1..m
    OBVIOUS
  <2>1. \A j \in 1..k : order[j] \in 1..m /\ (j # k => order[j] # order[k])
    BY <2>5, <2>6
  <2>2. \A j \in 1..(k - 1) : j \in 1..k /\ j # k
    OBVIOUS
  <2>3. \A j \in 1..k : j = k \/ j \in 1..(k - 1)
    OBVIOUS
  <2>4. k \in 1..k
    OBVIOUS
  <2> QED
    BY <2>1, <2>2, <2>3, <2>4 DEF Taken
<1> HIDE DEF f, F
<1>3. groups \in Seq(Seq(B)) /\ n \in Nat
  <2>1. groups \in Seq(Seq(WholeTasks(F)))
    BY <1>1 DEF Holding
  <2>2. groups \in Seq(Seq(B))
    BY <1>2, <2>1, WiderTasks
  <2> HIDE DEF B
  <2> QED
    BY <2>2
<1>4. ASSUME NEW p \in 1..n PROVE groups[p] \in Seq(B) /\ groups[p] # <<>> /\ Load(groups[p]) \in Nat
  <2>1. groups[p] \in Seq(B)
    <3> HIDE DEF B
    <3> QED
      BY <1>3
  <2>2. groups[p] # <<>>
    BY <1>1 DEF Holding
  <2>3. Load(groups[p]) \in Nat
    BY <1>2, <2>1, LoadIs
  <2> QED
    BY <2>1, <2>2, <2>3
<1>5. next \in Seq(Seq(B))
  BY <1>2, <1>3, AssignFileType
<1>6. CASE n < limit
  <2> DEFINE g == <<WholeFile(f)>>
  <2>1. next = Append(groups, g)
    BY <1>6 DEF AssignFile
  <2>2. OneGroup(g, {f}) /\ Len(g) = 1 /\ g \in Seq(B)
    <3>1. WholeFile(f) \in WholeTasks({f}) /\ WholeFile(f).file = f /\ WholeFile(f) \in B
      BY <1>2 DEF WholeFile, WholeTasks
    <3> HIDE DEF B
    <3>2. g \in Seq(WholeTasks({f})) /\ g # <<>> /\ Len(g) = 1 /\ g[1] = WholeFile(f) /\ g \in Seq(B)
      BY <3>1
    <3> HIDE DEF g
    <3> QED
      BY <3>1, <3>2 DEF OneGroup
  <2>3. F \cap {f} = {}
    BY <1>2
  <2> HIDE DEF g, next, B
  <2>4. Holding(next, Taken(order, k))
    <3>1. Holding(Append(groups, g), F \cup {f})
      BY <1>1, <2>2, <2>3, AddGroup, Zenon
    <3> QED
      BY <1>2, <2>1, <3>1
  <2>5. Len(next) = n + 1 /\ \A p \in 1..(n + 1) : next[p] = IF p = n + 1 THEN g ELSE groups[p]
    <3>1. groups \in Seq(Seq(B)) /\ g \in Seq(B)
      BY <1>3, <2>2
    <3>2. /\ Len(Append(groups, g)) = Len(groups) + 1
          /\ \A p \in 1..(Len(groups) + 1) :
               Append(groups, g)[p] = IF p = Len(groups) + 1 THEN g ELSE groups[p]
      BY ONLY <3>1, AppendIs
    <3> QED
      BY ONLY <2>1, <3>2, Zenon DEF n
  <2>6. Len(next) <= limit
    BY <1>3, <1>6, <2>5
  <2>7. ASSUME NEW p \in 1..(n + 1) PROVE Len(next[p]) = 1 /\ next[p] \in Seq(B)
    <3>1. p = n + 1 \/ p \in 1..n
      BY <1>3
    <3> QED
      BY <1>1, <1>4, <1>6, <2>2, <2>5, <3>1
  <2>8. Balanced(next, sizes)
    <3>1. ASSUME NEW p \in 1..(n + 1), NEW q \in 1..(n + 1)
          PROVE  Load(next[p]) - sizes[next[p][Len(next[p])].file] <= Load(next[q])
      <4>1. Load(next[p]) = sizes[next[p][1].file] /\ sizes[next[p][1].file] \in Nat
        BY <2>7, SingleLoad DEF B
      <4>2. Load(next[q]) \in Nat
        BY <1>2, <2>7, LoadIs DEF B
      <4>3. Len(next[p]) = 1
        BY <2>7
      <4> QED
        BY <4>1, <4>2, <4>3
    <3> QED
      BY <2>5, <3>1 DEF Balanced
  <2>9. BytesInv(next, k, order, sizes, limit)
    BY <2>4, <2>5, <2>6, <2>7, <2>8 DEF BytesInv
  <2> QED
    BY <2>9 DEF next, f
<1>7. CASE ~(n < limit)
  <2>0. ToLeastLoaded(next, groups, f, sizes)
    BY <1>2, <1>3, <1>7, AssignFileIs
  <2>1. PICK least \in 1..n :
          /\ next = [groups EXCEPT ![least] = Append(@, WholeFile(f))]
          /\ \A q \in 1..n : Load(groups[least]) <= Load(groups[q])
    BY <2>0 DEF ToLeastLoaded
  <2> DEFINE g == Append(groups[least], WholeFile(f))
  <2>2. Holding(next, Taken(order, k))
    <3>1. f \notin F
      BY <1>2
    <3>2. Holding([groups EXCEPT ![least] = Append(@, WholeFile(f))], F \cup {f})
      BY ONLY <1>1, <3>1, least \in 1..n, AddFile DEF n
    <3> QED
      BY <1>2, <2>1, <3>2
  <2>3. Len(next) = n /\ \A p \in 1..n : next[p] = IF p = least THEN g ELSE groups[p]
    <3> HIDE DEF B, next
    <3> QED
      BY <1>3, <2>1
  <2>4. Load(g) = Load(groups[least]) + sizes[f] /\ sizes[f] \in Nat
    <3>1. groups[least] \in Seq(B)
      BY <1>4
    <3>2. f \in 1..m /\ m \in Nat /\ sizes \in [1..m -> Nat] /\ groups[least] \in Seq(WholeTasks(1..m))
      BY <1>2, <3>1
    <3>3. LoadOf(g, sizes) = LoadOf(groups[least], sizes) + sizes[f]
      BY ONLY <3>2, LoadIs
    <3> QED
      BY <3>2, <3>3
  <2>5. g[Len(g)].file = f
    <3>1. groups[least] \in Seq(B) /\ WholeFile(f) \in B /\ WholeFile(f).file = f
      BY <1>2, <1>4 DEF WholeFile, WholeTasks
    <3> HIDE DEF B
    <3>2. g[Len(g)] = WholeFile(f)
      BY <3>1
    <3> QED
      BY <3>1, <3>2
  <2> HIDE DEF g, next
  <2>6. ASSUME NEW q \in 1..n PROVE Load(next[q]) \in Nat /\ Load(groups[q]) <= Load(next[q])
    <3>1. Load(groups[q]) \in Nat /\ Load(groups[least]) \in Nat
      BY <1>4
    <3>2. CASE q = least
      <4>1. next[q] = g
        BY <2>3, <3>2
      <4> HIDE DEF Load
      <4> QED
        BY <2>4, <3>1, <3>2, <4>1
    <3>3. CASE q # least
      <4>1. next[q] = groups[q]
        BY <2>3, <3>3
      <4> HIDE DEF Load
      <4> QED
        BY <3>1, <4>1
    <3> QED
      BY <3>2, <3>3
  <2>7. ASSUME NEW p \in 1..n, NEW q \in 1..n PROVE Load(next[p]) - Size(next[p]) <= Load(next[q])
    <3>1. CASE p = least
      <4>1. Load(next[p]) = Load(groups[least]) + sizes[f] /\ Size(next[p]) = sizes[f]
        BY <2>3, <2>4, <2>5, <3>1
      <4>2. Load(groups[least]) <= Load(groups[q]) /\ Load(groups[least]) \in Nat /\ Load(groups[q]) \in Nat
        BY <1>4, <2>1
      <4>3. Load(groups[q]) <= Load(next[q]) /\ Load(next[q]) \in Nat
        BY <2>6
      <4>4. sizes[f] \in Nat
        BY <2>4
      <4> HIDE DEF Load, Size, next
      <4> QED
        BY ONLY <4>1, <4>2, <4>3, <4>4
    <3>2. CASE p # least
      <4>1. next[p] = groups[p]
        BY <2>3, <3>2
      <4>2. Load(groups[p]) - Size(groups[p]) <= Load(groups[q])
        BY <1>1 DEF Balanced
      <4>3. Size(groups[p]) \in Nat
        <5>1. groups[p] \in Seq(B) /\ groups[p] # <<>>
          BY <1>4
        <5>2. groups[p][Len(groups[p])] \in B
          <6> HIDE DEF B
          <6> QED
            BY <5>1
        <5> QED
          BY <5>2 DEF WholeTasks
      <4>4. Load(groups[q]) <= Load(next[q]) /\ Load(next[q]) \in Nat
        BY <2>6
      <4>5. Load(groups[p]) \in Nat /\ Load(groups[q]) \in Nat
        BY <1>4
      <4> HIDE DEF Load, Size
      <4> QED
        BY <4>1, <4>2, <4>3, <4>4, <4>5
    <3> QED
      BY <3>1, <3>2
  <2>8. Balanced(next, sizes)
    BY <2>3, <2>7 DEF Balanced
  <2>9. BytesInv(next, k, order, sizes, limit)
    BY <1>1, <1>7, <2>2, <2>3, <2>8 DEF BytesInv
  <2> QED
    BY <2>9 DEF next, f
<1> QED
  BY <1>6, <1>7

\* group_by_estimated_bytes gives each file to one partition, and never to one
\* that another one undercuts.
LEMMA EstimatedBytesGroups ==
    ASSUME NEW sizes \in Seq(Nat), sizes # <<>>, NEW target \in Nat \ {0}
    PROVE  LET groups == GroupByEstimatedBytes(sizes, target)
           IN  Holding(groups, 1..Len(sizes)) /\ Len(groups) <= target /\ Balanced(groups, sizes)
<1> DEFINE m == Len(sizes)
           limit == Bounded(target, m)
           order == LargestFirst(sizes)
           Solves(iter) == iter = [d \in SUBSET (DOMAIN order) |->
                             IF d = {} THEN <<>>
                             ELSE AssignFile(iter[d \ {Max(d)}], order[Max(d)], sizes, limit)]
           fold == CHOOSE iter : Solves(iter)
           result == GroupByEstimatedBytes(sizes, target)
           A == Seq(Seq(WholeTasks(1..m)))
<1>1. m \in Nat \ {0} /\ limit \in Nat \ {0} /\ limit <= target /\ sizes \in [1..m -> Nat]
  BY DEF Bounded
<1>2. Enumerates(order, m, 1..m)
  BY <1>1, LargestFirstIs
<1>3. result = fold[DOMAIN order]
  BY Zenon DEF GroupByEstimatedBytes, FoldLeft, MapThenFoldSet
<1> HIDE DEF limit, m, order
<1>4. DOMAIN order = 1..m /\ order \in [1..m -> 1..m]
  BY <1>2 DEF Enumerates
<1>5. \E iter : Solves(iter)
  <2> DEFINE step == [p \in A \X (1..m) |-> AssignFile(p[1], order[p[2]], sizes, limit)]
             base == <<>>
  <2>1. base \in A
    OBVIOUS
  <2>2. \A a \in A, k \in 1..m : AssignFile(a, order[k], sizes, limit) \in A
    <3>1. ASSUME NEW a \in A, NEW k \in 1..m PROVE AssignFile(a, order[k], sizes, limit) \in A
      <4>1. order[k] \in 1..m
        BY <1>4
      <4> QED
        BY <1>1, <4>1, AssignFileType
    <3> QED
      BY <3>1
  <2> HIDE DEF A
  <2>3. step \in [A \X (1..m) -> A]
    BY <2>2
  <2>4. \A a \in A, k \in 1..m : step[<<a, k>>] = AssignFile(a, order[k], sizes, limit)
    OBVIOUS
  <2> HIDE DEF step, base
  <2>5. PICK iter \in [SUBSET (1..m) -> A] : IsFold(iter, m, base, step)
    BY <1>1, <2>1, <2>3, FoldExists
  <2>6. ASSUME NEW d \in SUBSET (1..m), d # {}
        PROVE  iter[d] = AssignFile(iter[d \ {Max(d)}], order[Max(d)], sizes, limit)
    <3>1. d \subseteq 0..m
      BY <1>1
    <3>2. Max(d) \in 1..m
      BY <1>1, <2>6, <3>1, MaxOf
    <3>3. iter[d \ {Max(d)}] \in A
      OBVIOUS
    <3> QED
      BY <2>4, <2>5, <2>6, <3>2, <3>3 DEF IsFold
  <2>7. \A d \in SUBSET (1..m) :
          iter[d] = IF d = {} THEN base ELSE AssignFile(iter[d \ {Max(d)}], order[Max(d)], sizes, limit)
    BY <2>5, <2>6 DEF IsFold
  <2>8. iter = [d \in SUBSET (1..m) |->
                  IF d = {} THEN base ELSE AssignFile(iter[d \ {Max(d)}], order[Max(d)], sizes, limit)]
    BY <2>7
  <2>9. Solves(iter)
    BY <1>4, <2>8, Zenon DEF base
  <2> QED
    BY <2>9
<1>6. Solves(fold)
  BY <1>5, Zenon
<1> HIDE DEF fold
<1>7. fold[1..0] = <<>>
  BY <1>1, <1>4, <1>6
<1>8. ASSUME NEW k \in 1..m PROVE fold[1..k] = AssignFile(fold[1..(k - 1)], order[k], sizes, limit)
  <2>1. k \in Nat \ {0}
    BY <1>1
  <2>2. Max(1..k) = k /\ (1..k) \ {k} = 1..(k - 1) /\ 1..k # {}
    BY <2>1, MaxInterval
  <2>3. 1..k \in SUBSET (DOMAIN order)
    BY <1>1, <1>4
  <2>4. fold[1..k] = AssignFile(fold[(1..k) \ {Max(1..k)}], order[Max(1..k)], sizes, limit)
    BY <1>6, <2>2, <2>3
  <2> QED
    BY <2>2, <2>4
<1> DEFINE S == {k \in 0..m : BytesInv(fold[1..k], k, order, sizes, limit)}
<1>9. 0 \in S
  <2>1. Taken(order, 0) = {}
    BY DEF Taken
  <2>2. Holding(<<>>, {})
    <3>1. <<>> \in Seq(Seq(WholeTasks({}))) /\ Len(<<>>) = 0
      OBVIOUS
    <3> QED
      BY <3>1 DEF Holding
  <2>3. Len(<<>>) = 0
    OBVIOUS
  <2>5. \A p \in 1..Len(<<>>) : FALSE
    BY <2>3
  <2>6. Balanced(<<>>, sizes)
    BY <2>5, Zenon DEF Balanced
  <2> DEFINE none == <<>>
  <2>7. Holding(none, Taken(order, 0)) /\ Len(none) = 0 /\ Balanced(none, sizes)
    BY <2>1, <2>2, <2>6
  <2> HIDE DEF none
  <2>8. BytesInv(none, 0, order, sizes, limit)
    BY <1>1, <2>7 DEF BytesInv
  <2>4. BytesInv(<<>>, 0, order, sizes, limit)
    BY <2>8 DEF none
  <2> QED
    BY <1>1, <1>7, <2>4
<1>10. ASSUME NEW k \in 0..(m - 1), k \in S PROVE k + 1 \in S
  <2>1. k + 1 \in 1..m /\ (k + 1) - 1 = k /\ k + 1 \in 0..m
    BY <1>1
  <2>2. fold[1..(k + 1)] = AssignFile(fold[1..k], order[k + 1], sizes, limit)
    <3>1. fold[1..(k + 1)] = AssignFile(fold[1..((k + 1) - 1)], order[k + 1], sizes, limit)
      BY <1>8, <2>1
    <3> QED
      BY <2>1, <3>1
  <2>3. BytesInv(fold[1..k], (k + 1) - 1, order, sizes, limit)
    BY <1>10, <2>1
  <2>4. BytesInv(AssignFile(fold[1..k], order[k + 1], sizes, limit), k + 1, order, sizes, limit)
    BY <1>1, <1>2, <2>1, <2>3, BytesStep
  <2> QED
    BY <2>1, <2>2, <2>4
<1> HIDE DEF S
<1>11. \A k \in 0..m : k \in S
  BY ONLY <1>1, <1>9, <1>10, IntervalInduction
<1>12. BytesInv(result, m, order, sizes, limit)
  <2>1. m \in S
    BY <1>1, <1>11
  <2> QED
    BY <1>3, <1>4, <2>1 DEF S
<1>13. Taken(order, m) = 1..m
  BY <1>2 DEF Enumerates, Taken
<1>14. Holding(result, 1..m) /\ Len(result) <= limit /\ Balanced(result, sizes)
  BY <1>12, <1>13 DEF BytesInv
<1>15. Len(result) \in Nat
  <2>1. result \in Seq(Seq(WholeTasks(1..m)))
    BY <1>14 DEF Holding
  <2> HIDE DEF result
  <2> QED
    BY <2>1
<1> HIDE DEF result
<1>16. Len(result) <= target
  BY <1>1, <1>14, <1>15
<1> QED
  BY <1>14, <1>16 DEF result, m

LEMMA GroupingIs ==
    ASSUME NEW sizes \in Seq(Nat), NEW target \in Nat \ {0}
    PROVE  LET groups == GroupScanFileTasks(sizes, target)
           IN  /\ Holding(groups, 1..Len(sizes)) /\ Len(groups) <= target /\ Balanced(groups, sizes)
               /\ SumOf(sizes) = 0 => Even(groups)
<1> DEFINE groups == GroupScanFileTasks(sizes, target)
           m == Len(sizes)
<1>1. m \in Nat /\ sizes \in [1..m -> Nat]
  OBVIOUS
<1>2. CASE sizes = <<>>
  <2>1. groups = <<>> /\ m = 0
    BY <1>2 DEF GroupScanFileTasks
  <2> HIDE DEF groups
  <2>2. Len(groups) = 0 /\ groups \in Seq(Seq(WholeTasks({}))) /\ 1..m = {}
    BY <2>1
  <2>3. \A p \in 1..Len(groups) : FALSE
    BY <2>2
  <2>4. Holding(groups, 1..m)
    BY <2>2, <2>3, Zenon DEF Holding
  <2>5. Balanced(groups, sizes) /\ Even(groups)
    BY <2>3, Zenon DEF Balanced, Even
  <2>6. Len(groups) <= target
    BY <2>2
  <2> QED
    BY <2>4, <2>5, <2>6 DEF groups
<1>3. CASE sizes # <<>> /\ SumOf(sizes) # 0
  <2>1. groups = GroupByEstimatedBytes(sizes, target)
    BY <1>3 DEF GroupScanFileTasks
  <2>2. Holding(groups, 1..m) /\ Len(groups) <= target /\ Balanced(groups, sizes)
    BY <1>3, <2>1, EstimatedBytesGroups
  <2> QED
    BY <1>3, <2>2
<1>4. CASE sizes # <<>> /\ SumOf(sizes) = 0
  <2>1. groups = GroupByFileCount(sizes, target)
    BY <1>4 DEF GroupScanFileTasks
  <2>2. Holding(groups, 1..m) /\ Len(groups) <= target /\ Even(groups)
    BY <1>4, <2>1, FileCountGroups
  <2> HIDE DEF groups, m
  <2>3. \A i \in 1..m : sizes[i] = 0
    BY <1>1, <1>4, ZeroSum
  <2>4. ASSUME NEW p \in 1..Len(groups)
        PROVE  LoadOf(groups[p], sizes) = 0 /\ sizes[groups[p][Len(groups[p])].file] = 0
    <3> DEFINE g == groups[p]
               s == [i \in DOMAIN g |-> sizes[g[i].file]]
    <3>1. g \in Seq(WholeTasks(1..m)) /\ g # <<>>
      <4>1. groups \in Seq(Seq(WholeTasks(1..m))) /\ g # <<>>
        BY <2>2 DEF Holding
      <4> QED
        BY <4>1
    <3> HIDE DEF g
    <3>2. Len(g) \in Nat \ {0} /\ DOMAIN g = 1..Len(g) /\ \A i \in 1..Len(g) : g[i] \in WholeTasks(1..m)
      BY <3>1
    <3>3. \A i \in 1..Len(g) : sizes[g[i].file] = 0
      BY <2>3, <3>2 DEF WholeTasks
    <3>4. s \in [1..Len(g) -> Int] /\ \A i \in 1..Len(g) : s[i] = 0
      BY <3>2, <3>3
    <3>5. LoadOf(g, sizes) = SumOf(s)
      BY Zenon DEF LoadOf
    <3> HIDE DEF s
    <3>6. SumOf(s) = 0
      BY <3>2, <3>4, SumOfZeros
    <3> QED
      BY <3>2, <3>3, <3>5, <3>6 DEF g
  <2>5. Balanced(groups, sizes)
    BY <2>4 DEF Balanced
  <2> QED
    BY <2>2, <2>5 DEF groups, m
<1> QED
  BY <1>2, <1>3, <1>4

-----------------------------------------------------------------------------
(* The plan of a scan.                                                     *)

LEMMA PlannedFilesIs ==
    ASSUME ValidInput(input)
    PROVE  /\ PlannedFiles \in Seq(Range(PlannedFiles)) /\ Len(PlannedFiles) \in Nat
           /\ Enumerates(PlannedFiles, Len(PlannedFiles), Range(PlannedFiles))
           /\ \A f : f \in Range(PlannedFiles) <=>
                f \in Files /\ \A q \in input.filters : Pushdown(q) # "Unsupported" => PassesPart(f, q)
           /\ Sizes \in [Files -> Nat]
           /\ PlannedSizes \in Seq(Nat) /\ Len(PlannedSizes) = Len(PlannedFiles)
           /\ \A i \in 1..Len(PlannedFiles) : PlannedSizes[i] = Sizes[PlannedFiles[i]]
<1> DEFINE F == {f \in Files : \A q \in input.filters : Pushdown(q) # "Unsupported" => PassesPart(f, q)}
           s == PlannedFiles
<1>1. F \subseteq Int /\ IsFiniteSet(F) /\ F \subseteq Files
  <2>1. PICK n \in Nat : Files = 1..n
    BY DEF ValidInput, Files
  <2>2. IsFiniteSet(1..n)
    BY FS_Interval
  <2>3. F \in SUBSET (1..n)
    BY <2>1
  <2> HIDE DEF F
  <2>4. IsFiniteSet(F)
    BY <2>2, <2>3, FS_Subset
  <2> QED
    BY <2>1, <2>3, <2>4
<1>2. s = Ascending(F)
  BY Zenon DEF PlannedFiles
<1>3. \A f : f \in F <=>
        f \in Files /\ \A q \in input.filters : Pushdown(q) # "Unsupported" => PassesPart(f, q)
  OBVIOUS
<1> HIDE DEF F, s
<1>4. IsAscending(s, F)
  BY <1>1, <1>2, AscendingIs, Zenon
<1>5. /\ s \in Seq(F) /\ Len(s) \in Nat
      /\ \A j, k \in 1..Len(s) : j < k => s[j] < s[k]
      /\ \A x \in F : \E k \in 1..Len(s) : s[k] = x
  BY <1>4 DEF IsAscending
<1>6. Range(s) = F /\ DOMAIN s = 1..Len(s)
  BY <1>5 DEF Range
<1>7. ASSUME NEW i \in 1..Len(s), NEW j \in 1..Len(s), s[i] = s[j] PROVE i = j
  <2>1. s[i] \in F /\ s[j] \in F
    <3>1. s \in [1..Len(s) -> F]
      BY ONLY <1>5
    <3> QED
      BY ONLY <3>1, i \in 1..Len(s), j \in 1..Len(s)
  <2>2. s[i] \in Int /\ s[j] \in Int
    BY <1>1, <2>1
  <2>3. ~(i < j) /\ ~(j < i)
    <3>1. (i < j => s[i] < s[j]) /\ (j < i => s[j] < s[i])
      BY ONLY <1>5, i \in 1..Len(s), j \in 1..Len(s), Zenon
    <3> QED
      BY ONLY <1>7, <2>2, <3>1
  <2>4. i \in Int /\ j \in Int
    BY ONLY i \in 1..Len(s), j \in 1..Len(s)
  <2> QED
    BY ONLY <2>3, <2>4
<1>8. Enumerates(s, Len(s), F)
  BY <1>5, <1>7 DEF Enumerates
<1>9. Sizes \in [Files -> Nat]
  BY DEF ValidInput, ValidFile, Sizes, Files
<1>10. PlannedSizes = [i \in 1..Len(s) |-> Sizes[s[i]]]
  <2>1. PlannedSizes = [i \in DOMAIN s |-> Sizes[s[i]]]
    BY Zenon DEF PlannedSizes, s
  <2> QED
    BY ONLY <1>6, <2>1
<1>11. ASSUME NEW i \in 1..Len(s) PROVE Sizes[s[i]] \in Nat
  <2>1. s[i] \in F
    BY ONLY <1>5, i \in 1..Len(s)
  <2>2. s[i] \in Files
    BY ONLY <1>1, <2>1
  <2> QED
    BY ONLY <1>9, <2>2
<1>12. /\ PlannedSizes \in Seq(Nat) /\ Len(PlannedSizes) = Len(s)
       /\ \A i \in 1..Len(s) : PlannedSizes[i] = Sizes[s[i]]
  BY <1>5, <1>10, <1>11
<1> QED
  BY <1>3, <1>5, <1>6, <1>8, <1>9, <1>12 DEF s

\* A plan of whole files: each planned file in one partition, within the target,
\* balanced, and even where there is nothing to balance.
WholePlan(plan) ==
    /\ Holding(plan, Range(PlannedFiles)) /\ Len(plan) <= Target /\ Balanced(plan, Sizes)
    /\ SumOf(PlannedSizes) = 0 => Even(plan)

LEMMA GroupedPlanIs ==
    ASSUME ValidInput(input), ~GroupingFails(PlannedSizes, Target)
    PROVE  Target \in Nat \ {0} /\ WholePlan(GroupedPlan)
<1> DEFINE groups == GroupScanFileTasks(PlannedSizes, Target)
           s == PlannedFiles
           m == Len(s)
           F == Range(PlannedFiles)
           plan == GroupedPlan
<1>1. Target \in Nat \ {0}
  BY TargetIsNat DEF ValidInput, Target, GroupingFails
<1>2. /\ s \in Seq(F) /\ m \in Nat /\ PlannedSizes \in Seq(Nat) /\ Len(PlannedSizes) = m
      /\ Enumerates(s, m, F) /\ \A i \in 1..m : PlannedSizes[i] = Sizes[s[i]]
  BY PlannedFilesIs
<1>3. /\ Holding(groups, 1..m) /\ Len(groups) <= Target /\ Balanced(groups, PlannedSizes)
      /\ SumOf(PlannedSizes) = 0 => Even(groups)
  BY <1>1, <1>2, GroupingIs
<1>4. plan = [p \in DOMAIN groups |-> [i \in DOMAIN groups[p] |-> WholeFile(s[groups[p][i].file])]]
  BY Zenon DEF GroupedPlan
<1> HIDE DEF groups, s, m, F, plan
<1> DEFINE n == Len(groups)
<1>5. groups \in Seq(Seq(WholeTasks(1..m))) /\ \A p \in 1..n : groups[p] # <<>>
  BY <1>3 DEF Holding
<1>6. n \in Nat /\ DOMAIN groups = 1..n /\ \A p \in 1..n : groups[p] \in Seq(WholeTasks(1..m))
  BY <1>5
<1>7. ASSUME NEW p \in 1..n
      PROVE  /\ Len(groups[p]) \in Nat \ {0} /\ DOMAIN groups[p] = 1..Len(groups[p])
             /\ \A i \in 1..Len(groups[p]) : groups[p][i].file \in 1..m
  <2>1. groups[p] \in Seq(WholeTasks(1..m)) /\ groups[p] # <<>>
    BY <1>5, <1>6
  <2>2. Len(groups[p]) \in Nat \ {0} /\ DOMAIN groups[p] = 1..Len(groups[p])
    BY <2>1
  <2>3. \A i \in 1..Len(groups[p]) : groups[p][i] \in WholeTasks(1..m)
    BY <2>1
  <2> QED
    BY <2>2, <2>3 DEF WholeTasks
<1>8. ASSUME NEW p \in 1..n
      PROVE  /\ plan[p] = [i \in 1..Len(groups[p]) |-> WholeFile(s[groups[p][i].file])]
             /\ plan[p] \in Seq(WholeTasks(F)) /\ Len(plan[p]) = Len(groups[p])
             /\ \A i \in 1..Len(groups[p]) : plan[p][i].file = s[groups[p][i].file]
  <2>1. plan[p] = [i \in 1..Len(groups[p]) |-> WholeFile(s[groups[p][i].file])]
    BY <1>4, <1>6, <1>7
  <2>2. ASSUME NEW i \in 1..Len(groups[p])
        PROVE  WholeFile(s[groups[p][i].file]) \in WholeTasks(F)
    <3>1. groups[p][i].file \in 1..m
      BY <1>7
    <3>2. s \in [1..m -> F]
      BY <1>2 DEF m
    <3>3. s[groups[p][i].file] \in F
      BY ONLY <3>1, <3>2
    <3> QED
      BY <3>3 DEF WholeFile, WholeTasks
  <2>3. plan[p] \in [1..Len(groups[p]) -> WholeTasks(F)]
    BY <2>1, <2>2
  <2>4. plan[p] \in Seq(WholeTasks(F)) /\ Len(plan[p]) = Len(groups[p])
    BY <1>7, <2>3
  <2>5. \A i \in 1..Len(groups[p]) : plan[p][i].file = s[groups[p][i].file]
    BY <2>1 DEF WholeFile
  <2> QED
    BY <2>1, <2>4, <2>5
<1>9. plan \in Seq(Seq(WholeTasks(F))) /\ Len(plan) = n
  <2>1. plan \in [1..n -> Seq(WholeTasks(F))]
    <3> DEFINE g(p) == [i \in DOMAIN groups[p] |-> WholeFile(s[groups[p][i].file])]
    <3>1. plan = [p \in 1..n |-> g(p)]
      BY <1>4, <1>6
    <3> HIDE DEF g
    <3>2. DOMAIN plan = 1..n /\ plan = [p \in 1..n |-> plan[p]]
      BY <3>1
    <3>3. \A p \in 1..n : plan[p] \in Seq(WholeTasks(F))
      BY <1>8
    <3> QED
      BY <3>2, <3>3
  <2> QED
    BY <1>6, <2>1
<1> HIDE DEF n
<1>10. Holding(plan, F)
  <2>1. \A p \in 1..n : plan[p] # <<>>
    <3>1. ASSUME NEW p \in 1..n PROVE plan[p] # <<>>
      <4>1. Len(plan[p]) # 0
        BY <1>7, <1>8
      <4> QED
        BY <4>1
    <3> QED
      BY <3>1
  <2>2. ASSUME NEW f \in F PROVE \E p \in 1..n : \E i \in 1..Len(plan[p]) : plan[p][i].file = f
    <3>1. PICK k \in 1..m : s[k] = f
      BY <1>2 DEF Enumerates
    <3>2. PICK p \in 1..n : \E i \in 1..Len(groups[p]) : groups[p][i].file = k
      <4>1. Holding(groups, 1..m)
        BY <1>3
      <4> QED
        BY ONLY <4>1, k \in 1..m, Zenon DEF Holding, n
    <3>3. PICK i \in 1..Len(groups[p]) : groups[p][i].file = k
      BY <3>2
    <3>4. plan[p][i].file = f /\ i \in 1..Len(plan[p])
      BY <1>8, <3>1, <3>3
    <3> QED
      BY <3>4
  <2>3. ASSUME NEW p \in 1..n, NEW q \in 1..n, NEW i \in 1..Len(plan[p]), NEW j \in 1..Len(plan[q]),
               plan[p][i].file = plan[q][j].file
        PROVE  p = q /\ i = j
    <3>1. i \in 1..Len(groups[p]) /\ j \in 1..Len(groups[q])
      <4>1. Len(plan[p]) = Len(groups[p]) /\ Len(plan[q]) = Len(groups[q])
        BY ONLY <1>8, p \in 1..n, q \in 1..n
      <4> QED
        BY ONLY <4>1, i \in 1..Len(plan[p]), j \in 1..Len(plan[q]), Zenon
    <3>2. s[groups[p][i].file] = s[groups[q][j].file]
      BY <1>8, <2>3, <3>1
    <3>3. groups[p][i].file \in 1..m /\ groups[q][j].file \in 1..m
      BY <1>7, <3>1
    <3>4. groups[p][i].file = groups[q][j].file
      <4>1. \A a, b \in 1..m : s[a] = s[b] => a = b
        BY ONLY <1>2, Zenon DEF Enumerates
      <4> QED
        BY ONLY <3>2, <3>3, <4>1, Zenon
    <3>5. Holding(groups, 1..m)
      BY <1>3
    <3>6. Twice(groups, p, q, i, j)
      BY ONLY <3>1, <3>4, p \in 1..n, q \in 1..n, Zenon DEF n, Twice
    <3> QED
      BY ONLY <3>5, <3>6, HoldsOnce, Zenon
  <2> QED
    BY <1>9, <2>1, <2>2, <2>3 DEF Holding
<1>11. ASSUME NEW p \in 1..n
       PROVE  /\ LoadOf(plan[p], Sizes) = LoadOf(groups[p], PlannedSizes)
              /\ Sizes[plan[p][Len(plan[p])].file] = PlannedSizes[groups[p][Len(groups[p])].file]
  <2>1. ASSUME NEW i \in 1..Len(groups[p]) PROVE Sizes[plan[p][i].file] = PlannedSizes[groups[p][i].file]
    <3>1. groups[p][i].file \in 1..m /\ plan[p][i].file = s[groups[p][i].file]
      BY <1>7, <1>8
    <3> QED
      BY <1>2, <3>1
  <2>2. DOMAIN plan[p] = 1..Len(groups[p]) /\ DOMAIN groups[p] = 1..Len(groups[p])
    BY <1>7, <1>8
  <2>3. [i \in DOMAIN plan[p] |-> Sizes[plan[p][i].file]]
          = [i \in DOMAIN groups[p] |-> PlannedSizes[groups[p][i].file]]
    BY <2>1, <2>2
  <2>4. LoadOf(plan[p], Sizes) = LoadOf(groups[p], PlannedSizes)
    BY <2>3, Zenon DEF LoadOf
  <2>5. Len(groups[p]) \in 1..Len(groups[p]) /\ Len(plan[p]) = Len(groups[p])
    <3>1. Len(groups[p]) \in Nat \ {0}
      BY <1>7
    <3>2. Len(plan[p]) = Len(groups[p])
      BY <1>8
    <3> QED
      BY ONLY <3>1, <3>2
  <2>6. Sizes[plan[p][Len(plan[p])].file] = PlannedSizes[groups[p][Len(groups[p])].file]
    BY ONLY <2>1, <2>5
  <2> QED
    BY ONLY <2>4, <2>6
<1>12. Balanced(plan, Sizes)
  <2>1. ASSUME NEW p \in 1..n, NEW q \in 1..n
        PROVE  LoadOf(plan[p], Sizes) - Sizes[plan[p][Len(plan[p])].file] <= LoadOf(plan[q], Sizes)
    <3>1. LoadOf(groups[p], PlannedSizes) - PlannedSizes[groups[p][Len(groups[p])].file]
            <= LoadOf(groups[q], PlannedSizes)
      BY <1>3 DEF Balanced, n
    <3> QED
      BY <1>11, <3>1
  <2> QED
    BY <1>9, <2>1 DEF Balanced
<1>13. SumOf(PlannedSizes) = 0 => Even(plan)
  <2>1. ASSUME SumOf(PlannedSizes) = 0, NEW p \in 1..n, NEW q \in 1..n
        PROVE  Len(plan[p]) - Len(plan[q]) \in -1..1
    <3>1. Len(groups[p]) - Len(groups[q]) \in -1..1
      BY <1>3, <2>1 DEF Even, n
    <3> QED
      BY <1>8, <3>1
  <2> QED
    BY <1>9, <2>1 DEF Even
<1> QED
  BY <1>1, <1>3, <1>9, <1>10, <1>12, <1>13 DEF WholePlan, plan, F, n

-----------------------------------------------------------------------------
(* The places of a plan's tasks.                                           *)

AnyTasks == [file : Files, range : {Whole} \cup (Nat \X Nat)]
Planned(plan) == plan \in Seq(Seq(AnyTasks))

LEMMA PlacesAre ==
    ASSUME NEW A, partitions \in Seq(Seq(A))
    PROVE  /\ Len(partitions) \in Nat /\ DOMAIN partitions = 1..Len(partitions)
           /\ \A p \in 1..Len(partitions) :
                Len(partitions[p]) \in Nat /\ DOMAIN partitions[p] = 1..Len(partitions[p])
           /\ \A p \in 1..Len(partitions) : \A i \in 1..Len(partitions[p]) :
                <<p, i>> \in Places /\ partitions[p][i] \in A
           /\ \A t \in Places : \E p \in 1..Len(partitions) : \E i \in 1..Len(partitions[p]) : t = <<p, i>>
<1>1. Len(partitions) \in Nat /\ DOMAIN partitions = 1..Len(partitions)
  OBVIOUS
<1>2. ASSUME NEW p \in 1..Len(partitions)
      PROVE  Len(partitions[p]) \in Nat /\ DOMAIN partitions[p] = 1..Len(partitions[p])
  <2>1. partitions[p] \in Seq(A)
    OBVIOUS
  <2> QED
    BY ONLY <2>1
<1>3. ASSUME NEW p \in 1..Len(partitions), NEW i \in 1..Len(partitions[p])
      PROVE  <<p, i>> \in Places /\ partitions[p][i] \in A
  <2>1. partitions[p] \in Seq(A)
    OBVIOUS
  <2>2. partitions[p][i] \in A
    BY ONLY <2>1, i \in 1..Len(partitions[p])
  <2>3. <<p, i>> \in {p} \X DOMAIN partitions[p]
    BY <1>2
  <2>4. <<p, i>> \in Places
    BY <1>1, <2>3 DEF Places
  <2> QED
    BY <2>2, <2>4
<1>4. ASSUME NEW t \in Places
      PROVE  \E p \in 1..Len(partitions) : \E i \in 1..Len(partitions[p]) : t = <<p, i>>
  <2>1. PICK p \in DOMAIN partitions : t \in {p} \X DOMAIN partitions[p]
    BY DEF Places
  <2>2. p \in 1..Len(partitions) /\ DOMAIN partitions[p] = 1..Len(partitions[p])
    BY <1>1, <1>2
  <2>3. t = <<p, t[2]>> /\ t[2] \in 1..Len(partitions[p])
    BY <2>1, <2>2
  <2> QED
    BY <2>2, <2>3
<1> QED
  BY <1>1, <1>2, <1>3, <1>4

LEMMA WholeRange ==
    ASSUME NEW p, NEW i, NEW F, partitions[p][i] \in WholeTasks(F)
    PROVE  RangeOf(<<p, i>>) = <<0, Sizes[partitions[p][i].file]>>
BY DEF RangeOf, WholeTasks

LEMMA WholeFilesTiled ==
    ASSUME NEW F, F \subseteq Files, Holding(partitions, F), Sizes \in [Files -> Nat]
    PROVE  /\ \A f \in F : Tiled(f)
           /\ \A f \in Files \ F : TasksOf(f) = {}
           /\ \A p \in 1..Len(partitions) : BytesIn(p) = LoadOf(partitions[p], Sizes)
           /\ Planned(partitions)
<1>1. partitions \in Seq(Seq(WholeTasks(F)))
  BY DEF Holding
<1>2. /\ Len(partitions) \in Nat /\ DOMAIN partitions = 1..Len(partitions)
      /\ \A p \in 1..Len(partitions) :
           Len(partitions[p]) \in Nat /\ DOMAIN partitions[p] = 1..Len(partitions[p])
      /\ \A p \in 1..Len(partitions) : \A i \in 1..Len(partitions[p]) :
           <<p, i>> \in Places /\ partitions[p][i] \in WholeTasks(F)
      /\ \A t \in Places : \E p \in 1..Len(partitions) : \E i \in 1..Len(partitions[p]) : t = <<p, i>>
  BY <1>1, PlacesAre
<1>3. ASSUME NEW f \in F PROVE Tiled(f)
  <2>1. PICK p \in 1..Len(partitions) : \E i \in 1..Len(partitions[p]) : partitions[p][i].file = f
    BY DEF Holding
  <2>2. PICK i \in 1..Len(partitions[p]) : partitions[p][i].file = f
    BY <2>1
  <2>3. <<p, i>> \in TasksOf(f)
    BY <1>2, <2>2 DEF TasksOf
  <2>4. ASSUME NEW t \in TasksOf(f) PROVE t = <<p, i>>
    <3>1. t \in Places /\ partitions[t[1]][t[2]].file = f
      BY DEF TasksOf
    <3>2. PICK q \in 1..Len(partitions) : \E j \in 1..Len(partitions[q]) : t = <<q, j>>
      BY <1>2, <3>1
    <3>3. PICK j \in 1..Len(partitions[q]) : t = <<q, j>>
      BY <3>2
    <3>4. partitions[q][j].file = f
      BY <3>1, <3>3
    <3>5. p = q /\ i = j
      <4>1. Twice(partitions, p, q, i, j)
        BY ONLY p \in 1..Len(partitions), q \in 1..Len(partitions), i \in 1..Len(partitions[p]),
                j \in 1..Len(partitions[q]), <2>2, <3>4, Zenon DEF Twice
      <4> QED
        BY ONLY Holding(partitions, F), <4>1, HoldsOnce, Zenon
    <3> QED
      BY <3>3, <3>5
  <2>5. TasksOf(f) = {<<p, i>>}
    BY <2>3, <2>4
  <2>6. RangeOf(<<p, i>>) = <<0, Sizes[f]>>
    BY <1>2, <2>2, WholeRange
  <2>7. Sizes[f] \in Nat
    OBVIOUS
  <2> DEFINE t == <<p, i>>
  <2>8. TasksOf(f) = {t} /\ RangeOf(t)[1] = 0 /\ RangeOf(t)[2] = Sizes[f]
    BY <2>5, <2>6
  <2> HIDE DEF t
  <2> QED
    BY ONLY <2>7, <2>8 DEF Tiled, Holds
<1>4. ASSUME NEW f \in Files \ F PROVE TasksOf(f) = {}
  <2> SUFFICES ASSUME NEW t \in TasksOf(f) PROVE FALSE
    OBVIOUS
  <2>1. t \in Places /\ partitions[t[1]][t[2]].file = f
    BY DEF TasksOf
  <2>2. PICK q \in 1..Len(partitions) : \E j \in 1..Len(partitions[q]) : t = <<q, j>>
    BY <1>2, <2>1
  <2>3. PICK j \in 1..Len(partitions[q]) : t = <<q, j>>
    BY <2>2
  <2>4. partitions[q][j].file = f /\ partitions[q][j] \in WholeTasks(F)
    BY <1>2, <2>1, <2>3
  <2> QED
    BY <2>4 DEF WholeTasks
<1>5. ASSUME NEW p \in 1..Len(partitions) PROVE BytesIn(p) = LoadOf(partitions[p], Sizes)
  <2> DEFINE g == partitions[p]
  <2>1. ASSUME NEW i \in 1..Len(g) PROVE RangeOf(<<p, i>>)[2] - RangeOf(<<p, i>>)[1] = Sizes[g[i].file]
    <3>1. g[i] \in WholeTasks(F)
      BY <1>2
    <3>2. RangeOf(<<p, i>>) = <<0, Sizes[g[i].file]>>
      BY <3>1, WholeRange
    <3>3. Sizes[g[i].file] \in Nat
      BY <3>1 DEF WholeTasks
    <3> QED
      BY ONLY <3>2, <3>3
  <2>2. DOMAIN g = 1..Len(g)
    BY <1>2
  <2>3. [i \in DOMAIN g |-> RangeOf(<<p, i>>)[2] - RangeOf(<<p, i>>)[1]] = [i \in DOMAIN g |-> Sizes[g[i].file]]
    BY <2>1, <2>2
  <2> QED
    BY <2>3, Zenon DEF BytesIn, LoadOf
<1>6. Planned(partitions)
  <2> DEFINE T == WholeTasks(F)
  <2>1. \A x \in T : x \in AnyTasks
    BY DEF WholeTasks, AnyTasks
  <2>2. partitions \in Seq(Seq(T))
    BY <1>1
  <2> HIDE DEF T
  <2>3. \A s \in Seq(T) : s \in Seq(AnyTasks)
    BY <2>1
  <2> DEFINE ST == Seq(T)
             SA == Seq(AnyTasks)
  <2>4. partitions \in Seq(ST) /\ \A s \in ST : s \in SA
    BY <2>2, <2>3
  <2> HIDE DEF ST, SA
  <2>5. partitions \in Seq(SA)
    BY <2>4
  <2> QED
    BY <2>5 DEF SA, Planned
<1> QED
  BY <1>3, <1>4, <1>5, <1>6

-----------------------------------------------------------------------------
(* Repartitioning: files end to end, cut into cells of equal length.       *)

\* Cell c of length step meets the bytes from start to start + size.
Meets(c, step, start, size) == start < c * step + step /\ c * step < start + size
From(c, step, start) == IF start < c * step THEN c * step - start ELSE 0
Until(c, step, start, size) == Bounded(start + size, (c + 1) * step) - start

LEMMA CellMeets ==
    ASSUME NEW start \in Nat, NEW size \in Nat \ {0}, NEW step \in Nat \ {0}, NEW c \in Int
    PROVE  c \in (start \div step)..((start + size - 1) \div step) <=> Meets(c, step, start, size)
<1> DEFINE a == start \div step
           last == start + size - 1
           b == last \div step
<1>1. a \in Int /\ a * step <= start /\ start < a * step + step
  BY DivBounds
<1>2. last \in Int
  OBVIOUS
<1>3. b \in Int /\ b * step <= last /\ last < b * step + step
  BY <1>2, DivBounds
<1> HIDE DEF a, b
<1>4. c * step \in Int /\ a * step \in Int /\ b * step \in Int
  BY <1>1, <1>3
<1>5. ASSUME a <= c PROVE start < c * step + step
  <2>1. a * step <= c * step
    BY <1>1, <1>5, ProductGrows
  <2> QED
    BY <1>1, <1>4, <2>1
<1>6. ASSUME ~(a <= c) PROVE ~(start < c * step + step)
  <2>1. c + 1 <= a
    BY <1>1, <1>6
  <2>2. (c + 1) * step <= a * step /\ (c + 1) * step = c * step + step
    BY <1>1, <2>1, ProductGrows
  <2> QED
    BY <1>1, <1>4, <2>2
<1>7. ASSUME c <= b PROVE c * step < start + size
  <2>1. c * step <= b * step
    BY <1>3, <1>7, ProductGrows
  <2> QED
    BY <1>3, <1>4, <2>1
<1>8. ASSUME ~(c <= b) PROVE ~(c * step < start + size)
  <2>1. b + 1 <= c
    BY <1>3, <1>8
  <2>2. (b + 1) * step <= c * step /\ (b + 1) * step = b * step + step
    BY <1>3, <2>1, ProductGrows
  <2> QED
    BY <1>3, <1>4, <2>2
<1>9. c \in a..b <=> a <= c /\ c <= b
  BY <1>1, <1>3
<1> QED
  BY <1>5, <1>6, <1>7, <1>8, <1>9 DEF Meets, a, b

\* The part of a file in a cell it meets: not empty, inside the file, and the
\* bytes whose cell it is.
IsPiece(c, step, start, size, lo, hi) ==
    /\ lo \in Nat /\ hi \in Nat /\ lo < hi /\ hi <= size
    /\ c * step <= start + lo /\ start + hi <= c * step + step
    /\ \A x \in Nat : lo <= x /\ x < hi => c = (start + x) \div step
    /\ \A x \in 0..(size - 1) : c = (start + x) \div step => lo <= x /\ x < hi

LEMMA PieceBounds ==
    ASSUME NEW start \in Nat, NEW size \in Nat \ {0}, NEW step \in Nat \ {0}, NEW c \in Nat,
           Meets(c, step, start, size)
    PROVE  IsPiece(c, step, start, size, From(c, step, start), Until(c, step, start, size))
<1> DEFINE e == c * step
<1>1. e \in Nat /\ (c + 1) * step = e + step
  OBVIOUS
<1>2. From(c, step, start) = (IF start < e THEN e - start ELSE 0)
  BY DEF From
<1>3. Until(c, step, start, size) = Bounded(start + size, e + step) - start
  BY <1>1 DEF Until
<1>4. start < e + step /\ e < start + size
  BY DEF Meets
<1> HIDE DEF e
<1>5. /\ From(c, step, start) \in Nat /\ Until(c, step, start, size) \in Nat
      /\ From(c, step, start) < Until(c, step, start, size)
      /\ Until(c, step, start, size) <= size
      /\ e <= start + From(c, step, start)
      /\ start <= start + From(c, step, start)
      /\ start + Until(c, step, start, size) <= e + step
  BY <1>1, <1>2, <1>3, <1>4 DEF Bounded
<1>6. ASSUME NEW x \in Nat, From(c, step, start) <= x, x < Until(c, step, start, size)
      PROVE  c = (start + x) \div step
  <2>1. e <= start + x /\ start + x < e + step /\ start + x \in Int /\ c \in Int
    BY <1>1, <1>5, <1>6
  <2>2. c * step <= start + x /\ start + x < c * step + step
    BY <2>1 DEF e
  <2> QED
    BY <2>1, <2>2, DivIs
<1>7. ASSUME NEW x \in 0..(size - 1), c = (start + x) \div step
      PROVE  From(c, step, start) <= x /\ x < Until(c, step, start, size)
  <2>1. c * step <= start + x /\ start + x < c * step + step
    <3>1. start + x \in Int /\ step \in Nat \ {0}
      OBVIOUS
    <3> QED
      BY ONLY <1>7, <3>1, DivBounds
  <2>2. e <= start + x /\ start + x < e + step
    BY <2>1 DEF e
  <2> QED
    BY <1>1, <1>2, <1>3, <1>4, <2>2 DEF Bounded
<1> QED
  BY <1>5, <1>6, <1>7, Zenon DEF e, IsPiece

\* A plan of whole files lists each of its files once.
LEMMA FilesOfIs ==
    ASSUME NEW plan, NEW F, Holding(plan, F)
    PROVE  LET files == FilesOf(plan)
           IN  files \in Seq(F) /\ Len(files) \in Nat /\ Enumerates(files, Len(files), F)
<1> DEFINE ss == [p \in DOMAIN plan |-> [i \in DOMAIN plan[p] |-> plan[p][i].file]]
           s == FilesOf(plan)
           n == Len(plan)
<1>1. plan \in Seq(Seq(WholeTasks(F)))
  BY DEF Holding
<1>2. n \in Nat /\ DOMAIN plan = 1..n
  BY <1>1
<1>3. ASSUME NEW p \in 1..n
      PROVE  /\ Len(plan[p]) \in Nat /\ DOMAIN plan[p] = 1..Len(plan[p])
             /\ \A i \in 1..Len(plan[p]) : plan[p][i].file \in F
  <2>1. plan[p] \in Seq(WholeTasks(F))
    BY <1>1
  <2>2. \A i \in 1..Len(plan[p]) : plan[p][i] \in WholeTasks(F)
    BY <2>1
  <2> QED
    BY <2>1, <2>2 DEF WholeTasks
<1>4. s = FlattenSeq(ss)
  BY Zenon DEF FilesOf
<1>5. ASSUME NEW p \in 1..n
      PROVE  /\ ss[p] = [i \in 1..Len(plan[p]) |-> plan[p][i].file]
             /\ ss[p] \in Seq(F) /\ Len(ss[p]) = Len(plan[p])
             /\ \A i \in 1..Len(plan[p]) : ss[p][i] = plan[p][i].file
  <2>1. ss[p] = [i \in 1..Len(plan[p]) |-> plan[p][i].file]
    BY <1>2, <1>3
  <2> HIDE DEF ss
  <2>2. ss[p] \in [1..Len(plan[p]) -> F]
    BY <1>3, <2>1
  <2>3. ss[p] \in Seq(F) /\ Len(ss[p]) = Len(plan[p])
    BY <1>3, <2>2
  <2> QED
    BY <2>1, <2>3
<1>6. ss \in Seq(Seq(F)) /\ Len(ss) = n
  <2>1. DOMAIN ss = 1..n /\ ss = [p \in 1..n |-> ss[p]]
    BY <1>2
  <2> DEFINE SF == Seq(F)
  <2>2. \A p \in 1..n : ss[p] \in SF
    BY <1>5
  <2> HIDE DEF ss, SF
  <2>3. ss \in [1..n -> SF]
    BY <2>1, <2>2
  <2>4. ss \in Seq(SF) /\ Len(ss) = n
    BY <1>2, <2>3
  <2> QED
    BY <2>4 DEF SF
<1> HIDE DEF ss, s, n
<1>7. IsFlat(s, ss, F)
  BY <1>4, <1>6, FlattenIs
<1>8. /\ s \in Seq(F) /\ Len(s) \in Nat /\ s \in [1..Len(s) -> F]
  BY <1>7 DEF IsFlat
<1>9. ASSUME NEW f \in F PROVE \E x \in 1..Len(s) : s[x] = f
  <2>1. PICK p \in 1..n : \E i \in 1..Len(plan[p]) : plan[p][i].file = f
    BY DEF Holding, n
  <2>2. PICK i \in 1..Len(plan[p]) : plan[p][i].file = f
    BY <2>1
  <2>3. ss[p][i] = f /\ p \in 1..Len(ss) /\ i \in 1..Len(ss[p])
    BY <1>5, <1>6, <2>2
  <2>4. At(ss, p, i) \in 1..Len(s) /\ s[At(ss, p, i)] = ss[p][i]
    BY <1>7, <2>3 DEF IsFlat
  <2> QED
    BY <2>3, <2>4
<1>10. ASSUME NEW x \in 1..Len(s), NEW y \in 1..Len(s), s[x] = s[y] PROVE x = y
  <2>1. PICK p \in 1..Len(ss) : \E i \in 1..Len(ss[p]) : x = At(ss, p, i)
    BY <1>7 DEF IsFlat
  <2>2. PICK i \in 1..Len(ss[p]) : x = At(ss, p, i)
    BY <2>1
  <2>3. PICK q \in 1..Len(ss) : \E j \in 1..Len(ss[q]) : y = At(ss, q, j)
    BY <1>7 DEF IsFlat
  <2>4. PICK j \in 1..Len(ss[q]) : y = At(ss, q, j)
    BY <2>3
  <2>5. s[x] = ss[p][i] /\ s[y] = ss[q][j]
    BY <1>7, <2>2, <2>4 DEF IsFlat
  <2>6. p \in 1..n /\ q \in 1..n /\ i \in 1..Len(plan[p]) /\ j \in 1..Len(plan[q])
    BY <1>5, <1>6
  <2>7. plan[p][i].file = plan[q][j].file
    BY <1>5, <1>10, <2>5, <2>6
  <2>8. p = q /\ i = j
    <3>1. Twice(plan, p, q, i, j)
      BY ONLY <2>6, <2>7, Zenon DEF n, Twice
    <3> QED
      BY ONLY Holding(plan, F), <3>1, HoldsOnce, Zenon
  <2> QED
    BY <2>2, <2>4, <2>8
<1>11. Enumerates(s, Len(s), F)
  BY <1>8, <1>9, <1>10 DEF Enumerates
<1> QED
  BY <1>8, <1>11 DEF s

\* The cells of total bytes: no more than the target, and each begins inside.
LEMMA CellCount ==
    ASSUME NEW total \in Nat \ {0}, NEW target \in Nat \ {0}
    PROVE  LET step == CeilDiv(total, target)
               count == CeilDiv(total, step)
           IN  /\ step \in Nat \ {0} /\ count \in Nat /\ count <= target
               /\ \A c \in 0..(count - 1) : c * step < total
               /\ \A x \in 0..(total - 1) : x \div step \in 0..(count - 1)
<1> DEFINE step == CeilDiv(total, target)
           count == CeilDiv(total, step)
<1>1. step \in Int /\ total <= step * target /\ step * target < total + target
  BY CeilDivBounds
<1> HIDE DEF step
<1>2. step \in Nat \ {0}
  <2>1. CASE step <= 0
    <3>1. step * target <= 0 * target
      BY <1>1, <2>1, ProductGrows
    <3> QED
      BY <1>1, <3>1
  <2> QED
    BY <1>1, <2>1
<1>3. count \in Int /\ total <= count * step /\ count * step < total + step
  BY <1>2, CeilDivBounds
<1> HIDE DEF count
<1>4. count >= 1
  <2>1. CASE count <= 0
    <3>1. count * step <= 0 * step
      BY <1>2, <1>3, <2>1, ProductGrows
    <3> QED
      BY <1>2, <1>3, <3>1
  <2> QED
    BY <1>3, <2>1
<1>5. count <= target
  <2>1. CASE target + 1 <= count
    <3>1. (target + 1) * step <= count * step /\ (target + 1) * step = target * step + step
      BY <1>2, <1>3, <2>1, ProductGrows
    <3>2. target * step = step * target
      BY <1>2
    <3> QED
      BY <1>1, <1>2, <1>3, <3>1, <3>2
  <2> QED
    BY <1>3, <2>1
<1>6. ASSUME NEW c \in 0..(count - 1) PROVE c * step < total
  <2>1. c + 1 <= count /\ c \in Int /\ c + 1 \in Int
    BY <1>3
  <2>2. (c + 1) * step <= count * step /\ (c + 1) * step = c * step + step /\ c * step \in Int
    BY <1>2, <1>3, <2>1, ProductGrows
  <2> QED
    BY <1>2, <1>3, <2>2
<1>7. ASSUME NEW x \in 0..(total - 1) PROVE x \div step \in 0..(count - 1)
  <2> DEFINE q == x \div step
  <2>1. q \in Int /\ q * step <= x /\ x < q * step + step
    BY <1>2, DivBounds
  <2> HIDE DEF q
  <2>2. q >= 0
    <3>1. CASE q + 1 <= 0
      <4>1. (q + 1) * step <= 0 * step /\ (q + 1) * step = q * step + step
        BY <1>2, <2>1, <3>1, ProductGrows
      <4> QED
        BY <1>2, <2>1, <4>1
    <3> QED
      BY <2>1, <3>1
  <2>3. q < count
    <3>1. CASE count <= q
      <4>1. count * step <= q * step
        BY <1>2, <1>3, <2>1, <3>1, ProductGrows
      <4> QED
        BY <1>2, <1>3, <2>1, <4>1
    <3> QED
      BY <1>3, <2>1, <3>1
  <2> QED
    BY <1>3, <2>1, <2>2, <2>3 DEF q
<1> QED
  BY <1>2, <1>3, <1>4, <1>5, <1>6, <1>7 DEF step, count

\* The files that cell c meets, and the task that reads the part of one in it.
Meeting(files, sizes, n, step, c) ==
    {i \in 1..n : Meets(c, step, BytesBefore(files, sizes, i), sizes[files[i]])}
Slice(files, sizes, step, i, c) == TaskFromPartitionedFile(Piece(files, sizes, step, i, c), sizes)

LaidOut(s, files, sizes, n) ==
    /\ s \in [1..n -> Nat]
    /\ \A i \in 1..n : BytesBefore(files, sizes, i) = Prefix(s, i - 1)
    /\ \A i \in 1..n : BytesBefore(files, sizes, i) \in Nat
    /\ TotalBytes(files, sizes) = SumOf(s)

LEMMA BeforeIs ==
    ASSUME NEW X, NEW sizes \in [X -> Nat], NEW n \in Nat, NEW files \in [1..n -> X], NEW s,
           s = [i \in 1..n |-> sizes[files[i]]]
    PROVE  LaidOut(s, files, sizes, n)
<1>1. s \in [1..n -> Nat]
  OBVIOUS
<1>2. ASSUME NEW i \in 1..n PROVE BytesBefore(files, sizes, i) = Prefix(s, i - 1)
  <2>1. \A j \in 1..(i - 1) : j \in 1..n
    OBVIOUS
  <2>2. [j \in 1..(i - 1) |-> sizes[files[j]]] = [j \in 1..(i - 1) |-> s[j]]
    BY <2>1
  <2> QED
    BY <2>2, Zenon DEF BytesBefore, Prefix
<1>3. \A i \in 1..n : i - 1 \in 0..n
  OBVIOUS
<1>4. \A k \in 0..n : Prefix(s, k) \in Nat
  BY <1>1, PrefixGrows
<1>5. \A i \in 1..n : BytesBefore(files, sizes, i) \in Nat
  BY <1>2, <1>3, <1>4
<1>6. TotalBytes(files, sizes) = SumOf(s)
  <2>1. DOMAIN files = 1..n
    OBVIOUS
  <2>2. [i \in DOMAIN files |-> sizes[files[i]]] = s
    BY <2>1
  <2> QED
    BY <2>2, Zenon DEF TotalBytes
<1> QED
  BY <1>1, <1>2, <1>5, <1>6, Zenon DEF LaidOut

\* A task of file f that reads this range.
IsSlice(task, f, sizes, range) ==
    /\ task = [file |-> f, range |-> task.range] /\ task.range \in {Whole} \cup (Nat \X Nat)
    /\ (IF task.range = Whole THEN <<0, sizes[task.file]>> ELSE task.range) = range

LEMMA SliceIs ==
    ASSUME NEW files, NEW sizes, NEW step \in Nat \ {0}, NEW i, NEW c \in Nat, NEW start \in Nat,
           NEW size \in Nat \ {0}, start = BytesBefore(files, sizes, i), size = sizes[files[i]],
           Meets(c, step, start, size)
    PROVE  IsSlice(Slice(files, sizes, step, i, c), files[i], sizes,
                   <<From(c, step, start), Until(c, step, start, size)>>)
<1> DEFINE range == <<From(c, step, start), Until(c, step, start, size)>>
           task == Slice(files, sizes, step, i, c)
<1>1. range \in Nat \X Nat
  BY PieceBounds DEF IsPiece
<1>2. Piece(files, sizes, step, i, c) = [file |-> files[i], range |-> range]
  BY DEF Piece, From, Until
<1> HIDE DEF range
<1>3. range # Whole
  BY <1>1, FileGroupingAssumption
<1>4. task = IF range = <<0, size>> THEN [file |-> files[i], range |-> Whole]
             ELSE [file |-> files[i], range |-> range]
  BY <1>2 DEF Slice, TaskFromPartitionedFile, WholeFile
<1> HIDE DEF task
<1>5. CASE range = <<0, size>>
  <2>1. task = [file |-> files[i], range |-> Whole]
    BY <1>4, <1>5
  <2>2. task.range = Whole /\ task.file = files[i]
    BY <2>1
  <2> QED
    BY <1>5, <2>1, <2>2 DEF task, range, IsSlice
<1>6. CASE range # <<0, size>>
  <2>1. task = [file |-> files[i], range |-> range]
    BY <1>4, <1>6
  <2>2. task.range = range /\ task.file = files[i]
    BY <2>1
  <2> QED
    BY <1>1, <1>3, <2>1, <2>2 DEF task, range, IsSlice
<1> QED
  BY <1>5, <1>6

\* What repartition_file_tasks makes of the files: cell by cell, the files that
\* the cell meets, in order, each cut to the cell.
IsCut(plan, files, sizes, n, step, count) ==
    /\ plan \in [1..count -> Seq(AnyTasks)]
    /\ \A p \in 1..count : \E m :
         /\ IsAscending(m, Meeting(files, sizes, n, step, p - 1)) /\ Len(plan[p]) = Len(m)
         /\ \A k \in 1..Len(m) : plan[p][k] = Slice(files, sizes, step, m[k], p - 1)

LEMMA CellGroupIs ==
    ASSUME NEW X, NEW sizes \in [X -> Nat], NEW n \in Nat, NEW files \in [1..n -> X],
           \A i \in 1..n : sizes[files[i]] # 0, NEW step \in Nat \ {0}, NEW c \in Nat
    PROVE  \E m : /\ IsAscending(m, Meeting(files, sizes, n, step, c))
                  /\ CellGroup(files, sizes, step, c)
                       = [k \in DOMAIN m |-> Piece(files, sizes, step, m[k], c)]
<1> DEFINE M == {i \in DOMAIN files : c \in Cells(files, sizes, step, i)}
           m == Ascending(M)
<1>1. CellGroup(files, sizes, step, c) = [k \in DOMAIN m |-> Piece(files, sizes, step, m[k], c)]
  BY Zenon DEF CellGroup
<1>2. ASSUME NEW i \in 1..n
      PROVE  c \in Cells(files, sizes, step, i)
               <=> Meets(c, step, BytesBefore(files, sizes, i), sizes[files[i]])
  <2> DEFINE start == BytesBefore(files, sizes, i)
             size == sizes[files[i]]
             s == [j \in 1..n |-> sizes[files[j]]]
  <2>1. start \in Nat
    <3>1. LaidOut(s, files, sizes, n)
      BY BeforeIs
    <3> QED
      BY <3>1, Zenon DEF LaidOut
  <2>2. size \in Nat \ {0}
    OBVIOUS
  <2>3. Cells(files, sizes, step, i) = (start \div step)..((start + size - 1) \div step)
    BY Zenon DEF Cells
  <2> HIDE DEF start, size
  <2>4. c \in (start \div step)..((start + size - 1) \div step) <=> Meets(c, step, start, size)
    <3>1. c \in Int
      OBVIOUS
    <3> QED
      BY ONLY <2>1, <2>2, <3>1, step \in Nat \ {0}, CellMeets
  <2> QED
    BY <2>3, <2>4 DEF start, size
<1>3. M = Meeting(files, sizes, n, step, c)
  <2>1. DOMAIN files = 1..n
    OBVIOUS
  <2> QED
    BY <1>2, <2>1 DEF Meeting
<1>4. M \subseteq Int /\ IsFiniteSet(M)
  <2>1. M \in SUBSET (1..n) /\ IsFiniteSet(1..n)
    BY FS_Interval
  <2> HIDE DEF M
  <2>2. IsFiniteSet(M)
    BY <2>1, FS_Subset
  <2> QED
    BY <2>1, <2>2
<1> HIDE DEF M
<1>5. IsAscending(m, M)
  BY <1>4, AscendingIs, Zenon
<1> QED
  BY <1>1, <1>3, <1>5

LEMMA RepartitionIs ==
    ASSUME NEW X, X \subseteq Files, NEW sizes \in [X -> Nat], NEW plan, NEW n \in Nat, NEW files \in [1..n -> X],
           files = FilesOf(plan), \A i \in 1..n : sizes[files[i]] # 0,
           NEW target, NEW step \in Nat \ {0}, step = CeilDiv(TotalBytes(files, sizes), target),
           NEW count \in Nat, count = CeilDiv(TotalBytes(files, sizes), step)
    PROVE  IsCut(RepartitionFileTasks(plan, sizes, target), files, sizes, n, step, count)
<1> DEFINE groups == RepartitionFileGroups(files, sizes, target)
           R == RepartitionFileTasks(plan, sizes, target)
<1>1. R = [p \in DOMAIN groups |-> [i \in DOMAIN groups[p] |-> TaskFromPartitionedFile(groups[p][i], sizes)]]
  BY Zenon DEF RepartitionFileTasks
<1>2. groups = [c \in 1..count |-> CellGroup(files, sizes, step, c - 1)]
  BY Zenon DEF RepartitionFileGroups
<1> HIDE DEF groups, R
<1>3. DOMAIN groups = 1..count /\ \A p \in 1..count : groups[p] = CellGroup(files, sizes, step, p - 1)
  BY <1>2
<1>4. ASSUME NEW p \in 1..count
      PROVE  R[p] = [i \in DOMAIN groups[p] |-> TaskFromPartitionedFile(groups[p][i], sizes)]
  BY <1>1, <1>3
<1>5. ASSUME NEW p \in 1..count
      PROVE  /\ R[p] \in Seq(AnyTasks)
             /\ \E m : /\ IsAscending(m, Meeting(files, sizes, n, step, p - 1)) /\ Len(R[p]) = Len(m)
                       /\ \A k \in 1..Len(m) : R[p][k] = Slice(files, sizes, step, m[k], p - 1)
  <2> DEFINE c == p - 1
             M == Meeting(files, sizes, n, step, c)
  <2>1. c \in Nat
    OBVIOUS
  <2> HIDE DEF c
  <2>2. PICK m : /\ IsAscending(m, M)
                 /\ CellGroup(files, sizes, step, c) = [k \in DOMAIN m |-> Piece(files, sizes, step, m[k], c)]
    BY <2>1, CellGroupIs
  <2>3. m \in Seq(M) /\ Len(m) \in Nat /\ DOMAIN m = 1..Len(m)
    BY <2>2 DEF IsAscending
  <2>4. groups[p] = [k \in 1..Len(m) |-> Piece(files, sizes, step, m[k], c)]
    BY <1>3, <2>2, <2>3 DEF c
  <2>5. R[p] = [k \in 1..Len(m) |-> Slice(files, sizes, step, m[k], c)]
    <3> DEFINE piece(k) == Piece(files, sizes, step, m[k], c)
    <3>1. groups[p] = [k \in 1..Len(m) |-> piece(k)]
      BY <2>4
    <3> HIDE DEF piece
    <3>2. R[p] = [k \in 1..Len(m) |-> TaskFromPartitionedFile(piece(k), sizes)]
      <4>1. R[p] = [i \in DOMAIN groups[p] |-> TaskFromPartitionedFile(groups[p][i], sizes)]
        BY <1>4
      <4>2. DOMAIN groups[p] = 1..Len(m) /\ \A k \in 1..Len(m) : groups[p][k] = piece(k)
        BY ONLY <3>1
      <4> QED
        BY ONLY <4>1, <4>2
    <3> QED
      BY <3>2, Zenon DEF Slice, piece
  <2>6. ASSUME NEW k \in 1..Len(m) PROVE Slice(files, sizes, step, m[k], c) \in AnyTasks
    <3> DEFINE i == m[k]
               start == BytesBefore(files, sizes, i)
               size == sizes[files[i]]
               task == Slice(files, sizes, step, i, c)
    <3>1. i \in M
      BY <2>3
    <3>2. i \in 1..n /\ Meets(c, step, start, size)
      BY <3>1 DEF Meeting
    <3> HIDE DEF i
    <3>3. start \in Nat
      <4>1. LaidOut([j \in 1..n |-> sizes[files[j]]], files, sizes, n)
        BY BeforeIs
      <4> QED
        BY <3>2, <4>1, Zenon DEF LaidOut
    <3>4. size \in Nat \ {0} /\ files[i] \in Files
      BY <3>2
    <3>5. task = [file |-> files[i], range |-> task.range] /\ task.range \in {Whole} \cup (Nat \X Nat)
      <4>1. IsSlice(task, files[i], sizes, <<From(c, step, start), Until(c, step, start, size)>>)
        BY ONLY <2>1, <3>2, <3>3, <3>4, step \in Nat \ {0}, SliceIs, Zenon
      <4> QED
        BY <4>1 DEF IsSlice
    <3> HIDE DEF task
    <3>6. task \in AnyTasks
      BY <3>4, <3>5 DEF AnyTasks
    <3> QED
      BY <3>6 DEF task, i
  <2>7. R[p] \in [1..Len(m) -> AnyTasks]
    BY <2>5, <2>6
  <2>8. R[p] \in Seq(AnyTasks) /\ Len(R[p]) = Len(m)
    <3> DEFINE l == Len(m)
    <3>1. l \in Nat /\ R[p] \in [1..l -> AnyTasks]
      BY <2>3, <2>7
    <3> HIDE DEF l
    <3>2. R[p] \in Seq(AnyTasks) /\ Len(R[p]) = l
      BY ONLY <3>1
    <3> QED
      BY <3>2 DEF l
  <2>9. \A k \in 1..Len(m) : R[p][k] = Slice(files, sizes, step, m[k], c)
    BY <2>5
  <2> QED
    BY <2>2, <2>8, <2>9 DEF c
<1>6. R \in [1..count -> Seq(AnyTasks)]
  <2>1. DOMAIN R = 1..count /\ R = [p \in 1..count |-> R[p]]
    BY <1>1, <1>3
  <2>2. \A p \in 1..count : R[p] \in Seq(AnyTasks)
    BY <1>5
  <2> QED
    BY <2>1, <2>2
<1>7. IsCut(R, files, sizes, n, step, count)
  BY <1>5, <1>6, Zenon DEF IsCut
<1> QED
  BY <1>7 DEF R

\* The same of the current plan, place by place.
StartOf(files, i) == BytesBefore(files, Sizes, i)
InCell(files, n, step, p, k, i) ==
    /\ i \in 1..n /\ partitions[p][k].file = files[i]
    /\ RangeOf(<<p, k>>) = <<From(p - 1, step, StartOf(files, i)),
                             Until(p - 1, step, StartOf(files, i), Sizes[files[i]])>>
    /\ Meets(p - 1, step, StartOf(files, i), Sizes[files[i]])
CellsHold(files, n, step) ==
    \A p \in 1..Len(partitions) :
      /\ \A k \in 1..Len(partitions[p]) : \E i \in 1..n : InCell(files, n, step, p, k, i)
      /\ \A j, k \in 1..Len(partitions[p]) : partitions[p][j].file = partitions[p][k].file => j = k
      /\ \A i \in 1..n : Meets(p - 1, step, StartOf(files, i), Sizes[files[i]]) =>
           \E k \in 1..Len(partitions[p]) : partitions[p][k].file = files[i]

LEMMA InCellWhen ==
    ASSUME Sizes \in [Files -> Nat], NEW n \in Nat, NEW files \in [1..n -> Files],
           \A i \in 1..n : Sizes[files[i]] # 0, NEW step \in Nat \ {0}, NEW p \in Nat \ {0}, NEW k,
           NEW i \in Meeting(files, Sizes, n, step, p - 1),
           partitions[p][k] = Slice(files, Sizes, step, i, p - 1)
    PROVE  InCell(files, n, step, p, k, i)
<1> DEFINE c == p - 1
           start == StartOf(files, i)
           size == Sizes[files[i]]
           range == <<From(c, step, start), Until(c, step, start, size)>>
           task == Slice(files, Sizes, step, i, c)
<1>1. i \in 1..n /\ Meets(c, step, start, size) /\ c \in Nat
  BY DEF Meeting, StartOf
<1>2. start \in Nat
  <2>1. LaidOut([j \in 1..n |-> Sizes[files[j]]], files, Sizes, n)
    BY BeforeIs
  <2> QED
    BY <1>1, <2>1, Zenon DEF LaidOut, StartOf
<1>3. size \in Nat \ {0} /\ start = BytesBefore(files, Sizes, i) /\ size = Sizes[files[i]]
  BY <1>1 DEF StartOf
<1> HIDE DEF start, size
<1>4. IsSlice(task, files[i], Sizes, range)
  BY ONLY <1>1, <1>2, <1>3, step \in Nat \ {0}, SliceIs, Zenon
<1>5. partitions[p][k] = task
  OBVIOUS
<1> HIDE DEF task, range, c
<1>6. task.file = files[i] /\ (IF task.range = Whole THEN <<0, Sizes[task.file]>> ELSE task.range) = range
  BY <1>4 DEF IsSlice
<1>7. RangeOf(<<p, k>>) = range
  BY <1>5, <1>6 DEF RangeOf
<1> QED
  BY <1>1, <1>5, <1>6, <1>7 DEF InCell, range, start, size, c

LEMMA CutHolds ==
    ASSUME Sizes \in [Files -> Nat], NEW n \in Nat, NEW F, F \subseteq Files, NEW files,
           Enumerates(files, n, F), \A i \in 1..n : Sizes[files[i]] # 0, NEW step \in Nat \ {0},
           NEW count \in Nat, IsCut(partitions, files, Sizes, n, step, count)
    PROVE  Planned(partitions) /\ Len(partitions) = count /\ CellsHold(files, n, step)
<1>1. files \in [1..n -> Files] /\ \A i, j \in 1..n : files[i] = files[j] => i = j
  BY DEF Enumerates
<1>2. Planned(partitions) /\ Len(partitions) = count
  <2> DEFINE SA == Seq(AnyTasks)
  <2>1. partitions \in [1..count -> SA]
    BY DEF IsCut
  <2> HIDE DEF SA
  <2>2. partitions \in Seq(SA) /\ Len(partitions) = count
    BY <2>1
  <2> QED
    BY <2>2 DEF Planned, SA
<1>3. ASSUME NEW p \in 1..count
      PROVE  /\ \A k \in 1..Len(partitions[p]) : \E i \in 1..n : InCell(files, n, step, p, k, i)
             /\ \A j, k \in 1..Len(partitions[p]) : partitions[p][j].file = partitions[p][k].file => j = k
             /\ \A i \in 1..n : Meets(p - 1, step, StartOf(files, i), Sizes[files[i]]) =>
                  \E k \in 1..Len(partitions[p]) : partitions[p][k].file = files[i]
  <2> DEFINE M == Meeting(files, Sizes, n, step, p - 1)
  <2>1. PICK m : /\ IsAscending(m, M) /\ Len(partitions[p]) = Len(m)
                 /\ \A k \in 1..Len(m) : partitions[p][k] = Slice(files, Sizes, step, m[k], p - 1)
    BY DEF IsCut
  <2>2. m \in Seq(M) /\ Len(m) \in Nat /\ \A j, k \in 1..Len(m) : j < k => m[j] < m[k]
    BY <2>1 DEF IsAscending
  <2>3. p \in Nat \ {0}
    OBVIOUS
  <2>4. ASSUME NEW k \in 1..Len(m) PROVE InCell(files, n, step, p, k, m[k]) /\ m[k] \in 1..n
    <3>1. m[k] \in M
      BY <2>2
    <3>2. partitions[p][k] = Slice(files, Sizes, step, m[k], p - 1)
      BY <2>1
    <3>3. InCell(files, n, step, p, k, m[k])
      BY <1>1, <2>3, <3>1, <3>2, InCellWhen
    <3> QED
      BY <3>3 DEF InCell
  <2>5. ASSUME NEW j \in 1..Len(m), NEW k \in 1..Len(m), partitions[p][j].file = partitions[p][k].file
        PROVE  j = k
    <3>1. m[j] \in 1..n /\ m[k] \in 1..n /\ files[m[j]] = files[m[k]]
      BY <2>4, <2>5 DEF InCell
    <3>2. m[j] = m[k]
      BY <1>1, <3>1
    <3>3. ~(m[j] < m[k]) /\ ~(m[k] < m[j])
      BY <3>1, <3>2
    <3>4. ~(j < k) /\ ~(k < j)
      BY <2>2, <3>3
    <3> QED
      BY <2>2, <3>4
  <2>6. ASSUME NEW i \in 1..n, Meets(p - 1, step, StartOf(files, i), Sizes[files[i]])
        PROVE  \E k \in 1..Len(m) : partitions[p][k].file = files[i]
    <3>1. i \in M
      BY <2>6 DEF Meeting, StartOf
    <3>2. PICK k \in 1..Len(m) : m[k] = i
      BY <2>1, <3>1 DEF IsAscending
    <3> QED
      BY <2>4, <3>2 DEF InCell
  <2>7. \A k \in 1..Len(m) : \E i \in 1..n : InCell(files, n, step, p, k, i)
    BY <2>4
  <2> QED
    BY ONLY <2>1, <2>5, <2>6, <2>7
<1>4. CellsHold(files, n, step)
  BY <1>2, <1>3 DEF CellsHold
<1> QED
  BY <1>2, <1>4

\* Every byte of a file lies in one cell, so in one of its tasks.
LEMMA CellsTile ==
    ASSUME Sizes \in [Files -> Nat], NEW n \in Nat, NEW F, F \subseteq Files, NEW files,
           Enumerates(files, n, F), \A i \in 1..n : Sizes[files[i]] # 0, NEW step \in Nat \ {0},
           Planned(partitions), CellsHold(files, n, step),
           \A x \in 0..(TotalBytes(files, Sizes) - 1) : x \div step \in 0..(Len(partitions) - 1)
    PROVE  (\A f \in F : Tiled(f)) /\ \A f \in Files \ F : TasksOf(f) = {}
<1> DEFINE s == [i \in 1..n |-> Sizes[files[i]]]
           N == Len(partitions)
<1>1. files \in [1..n -> Files] /\ files \in [1..n -> F] /\ \A i, j \in 1..n : files[i] = files[j] => i = j
  BY DEF Enumerates
<1>2. /\ N \in Nat /\ DOMAIN partitions = 1..N
      /\ \A p \in 1..N : \A i \in 1..Len(partitions[p]) :
           <<p, i>> \in Places /\ partitions[p][i] \in AnyTasks
      /\ \A t \in Places : \E p \in 1..N : \E i \in 1..Len(partitions[p]) : t = <<p, i>>
  <2>1. partitions \in Seq(Seq(AnyTasks))
    BY DEF Planned
  <2> QED
    BY <2>1, PlacesAre
<1>3. ASSUME NEW f, NEW t \in TasksOf(f)
      PROVE  \E p \in 1..N : \E k \in 1..Len(partitions[p]) : t = <<p, k>> /\ partitions[p][k].file = f
  <2>1. t \in Places /\ partitions[t[1]][t[2]].file = f
    BY DEF TasksOf
  <2>2. PICK p \in 1..N : \E k \in 1..Len(partitions[p]) : t = <<p, k>>
    BY <1>2, <2>1
  <2>3. PICK k \in 1..Len(partitions[p]) : t = <<p, k>>
    BY <2>2
  <2>4. partitions[p][k].file = f
    BY <2>1, <2>3
  <2> QED
    BY <2>3, <2>4
<1>4. ASSUME NEW f \in Files \ F PROVE TasksOf(f) = {}
  <2> SUFFICES ASSUME NEW t \in TasksOf(f) PROVE FALSE
    OBVIOUS
  <2>1. PICK p \in 1..N : \E k \in 1..Len(partitions[p]) : t = <<p, k>> /\ partitions[p][k].file = f
    BY <1>3
  <2>2. PICK k \in 1..Len(partitions[p]) : partitions[p][k].file = f
    BY <2>1
  <2>3. PICK i \in 1..n : InCell(files, n, step, p, k, i)
    BY DEF CellsHold
  <2> QED
    BY <1>1, <2>2, <2>3 DEF InCell
<1>5. /\ s \in [1..n -> Nat] /\ \A i \in 1..n : StartOf(files, i) = Prefix(s, i - 1)
      /\ \A i \in 1..n : StartOf(files, i) \in Nat
      /\ TotalBytes(files, Sizes) = SumOf(s)
  <2>1. LaidOut(s, files, Sizes, n)
    BY <1>1, BeforeIs
  <2> QED
    BY <2>1, Zenon DEF LaidOut, StartOf
<1> HIDE DEF s
<1>6. ASSUME NEW f \in F PROVE Tiled(f)
  <2>1. PICK i \in 1..n : files[i] = f
    BY DEF Enumerates
  <2> DEFINE start == StartOf(files, i)
             size == Sizes[f]
             lo(p) == From(p - 1, step, start)
             hi(p) == Until(p - 1, step, start, size)
  <2>2. start \in Nat /\ size \in Nat \ {0}
    BY <1>5, <2>1
  <2>3. start + size <= TotalBytes(files, Sizes)
    <3>1. Prefix(s, i) = Prefix(s, i - 1) + s[i] /\ SumOf(s) = Prefix(s, n)
      <4>1. s \in [1..n -> Int]
        BY <1>5
      <4> QED
        BY <4>1, PrefixSums
    <3>2. Prefix(s, i) <= Prefix(s, n)
      <4>1. i \in 0..n /\ n \in 0..n /\ i <= n
        OBVIOUS
      <4> QED
        BY <1>5, <4>1, PrefixGrows
    <3>3. s[i] = size
      BY <2>1 DEF s
    <3>4. start = Prefix(s, i - 1)
      BY <1>5
    <3> QED
      BY <1>5, <3>1, <3>2, <3>3, <3>4
  <2>4. ASSUME NEW p \in 1..N, NEW k \in 1..Len(partitions[p]), partitions[p][k].file = f
        PROVE  RangeOf(<<p, k>>) = <<lo(p), hi(p)>> /\ Meets(p - 1, step, start, size)
    <3>1. PICK j \in 1..n : InCell(files, n, step, p, k, j)
      BY DEF CellsHold
    <3>2. j = i
      BY <1>1, <2>1, <2>4, <3>1 DEF InCell
    <3> QED
      BY <2>1, <3>1, <3>2 DEF InCell
  <2> HIDE DEF start, size
  <2>5. ASSUME NEW p \in 1..N, Meets(p - 1, step, start, size)
        PROVE  /\ lo(p) \in Nat /\ hi(p) \in Nat /\ lo(p) < hi(p) /\ hi(p) <= size
               /\ \A x \in 0..(size - 1) : lo(p) <= x /\ x < hi(p) <=> p - 1 = (start + x) \div step
    <3>1. p - 1 \in Nat
      BY <1>2
    <3>2. IsPiece(p - 1, step, start, size, lo(p), hi(p))
      BY ONLY <2>2, <2>5, <3>1, step \in Nat \ {0}, PieceBounds, Zenon
    <3> HIDE DEF lo, hi
    <3> QED
      BY ONLY <2>2, <3>2 DEF IsPiece
  <2>6. ASSUME NEW x \in 0..(size - 1)
        PROVE  \E t \in TasksOf(f) : Holds(t, x) /\ \A u \in TasksOf(f) : Holds(u, x) => u = t
    <3> DEFINE c == (start + x) \div step
               p == c + 1
    <3>1. start + x \in 0..(TotalBytes(files, Sizes) - 1) /\ start + x \in Int
      <4>1. TotalBytes(files, Sizes) \in Nat
        BY <1>5, PrefixGrows
      <4> QED
        BY ONLY <2>2, <2>3, <4>1, x \in 0..(size - 1)
    <3>2. c \in 0..(N - 1) /\ c \in Int /\ c * step <= start + x /\ start + x < c * step + step
      <4>1. c \in 0..(N - 1)
        BY <3>1
      <4>2. c \in Int /\ c * step <= start + x /\ start + x < c * step + step
        BY ONLY <3>1, step \in Nat \ {0}, DivBounds
      <4> QED
        BY <4>1, <4>2
    <3> HIDE DEF c
    <3>3. Meets(c, step, start, size)
      BY <2>2, <3>2 DEF Meets
    <3>4. p \in 1..N /\ p - 1 = c
      BY <1>2, <3>2
    <3> HIDE DEF p
    <3>5. Meets(p - 1, step, start, size)
      BY <3>3, <3>4
    <3>6. PICK k \in 1..Len(partitions[p]) : partitions[p][k].file = f
      <4>1. \A j \in 1..n : Meets(p - 1, step, StartOf(files, j), Sizes[files[j]]) =>
              \E k \in 1..Len(partitions[p]) : partitions[p][k].file = files[j]
        BY <3>4, Zenon DEF CellsHold
      <4> QED
        BY <2>1, <3>5, <4>1 DEF start, size
    <3> DEFINE t == <<p, k>>
    <3>7. t \in TasksOf(f)
      BY <1>2, <3>4, <3>6 DEF TasksOf
    <3>8. Holds(t, x)
      <4>1. lo(p) <= x /\ x < hi(p)
        BY <2>5, <3>4, <3>5 DEF c
      <4> HIDE DEF lo, hi
      <4>2. RangeOf(t) = <<lo(p), hi(p)>>
        BY <2>4, <3>4, <3>6
      <4>3. RangeOf(t)[1] = lo(p) /\ RangeOf(t)[2] = hi(p)
        BY ONLY <4>2
      <4> HIDE DEF t
      <4> QED
        BY ONLY <4>1, <4>3, Zenon DEF Holds
    <3>9. ASSUME NEW u \in TasksOf(f), Holds(u, x) PROVE u = t
      <4>1. PICK q \in 1..N : \E j \in 1..Len(partitions[q]) : u = <<q, j>> /\ partitions[q][j].file = f
        BY <1>3
      <4>2. PICK j \in 1..Len(partitions[q]) : u = <<q, j>> /\ partitions[q][j].file = f
        BY <4>1
      <4>3. RangeOf(u) = <<lo(q), hi(q)>> /\ Meets(q - 1, step, start, size)
        BY <2>4, <4>2
      <4>4. lo(q) <= x /\ x < hi(q)
        <5> HIDE DEF lo, hi
        <5> QED
          BY <3>9, <4>3 DEF Holds
      <4>5. q - 1 = (start + x) \div step
        BY <2>5, <4>3, <4>4
      <4>6. q = p
        BY <1>2, <3>2, <3>4, <4>5 DEF c
      <4>7. j = k
        <5>1. \A a, b \in 1..Len(partitions[p]) : partitions[p][a].file = partitions[p][b].file => a = b
          BY <3>4, Zenon DEF CellsHold
        <5> QED
          BY <3>6, <4>2, <4>6, <5>1
      <4> QED
        BY <4>2, <4>6, <4>7
    <3> QED
      BY <3>7, <3>8, <3>9
  <2>7. TasksOf(f) # {}
    <3>1. 0 \in 0..(size - 1)
      BY <2>2
    <3> QED
      BY <2>6, <3>1
  <2>8. ASSUME NEW t \in TasksOf(f)
        PROVE  0 <= RangeOf(t)[1] /\ RangeOf(t)[2] <= size /\ RangeOf(t)[1] < RangeOf(t)[2]
    <3>1. PICK p \in 1..N : \E k \in 1..Len(partitions[p]) : t = <<p, k>> /\ partitions[p][k].file = f
      BY <1>3
    <3>2. PICK k \in 1..Len(partitions[p]) : t = <<p, k>> /\ partitions[p][k].file = f
      BY <3>1
    <3>3. RangeOf(t) = <<lo(p), hi(p)>> /\ Meets(p - 1, step, start, size)
      BY <2>4, <3>2
    <3>4. lo(p) \in Nat /\ hi(p) \in Nat /\ lo(p) < hi(p) /\ hi(p) <= size
      BY <2>5, <3>3
    <3> HIDE DEF lo, hi
    <3> QED
      BY <3>3, <3>4
  <2> QED
    BY <2>6, <2>7, <2>8 DEF Tiled, size
<1> QED
  BY <1>4, <1>6

\* Intervals in order that lie within a cell are no longer than it.
LEMMA Telescope ==
    ASSUME NEW n \in Nat, NEW a \in [1..n -> Int], NEW b \in [1..n -> Int], NEW d, NEW e \in Int,
           NEW width \in Nat, d = [k \in 1..n |-> b[k] - a[k]],
           \A k \in 1..n : e <= a[k] /\ b[k] <= e + width,
           \A k \in 1..n : \A j \in 1..n : j = k + 1 => b[k] <= a[j]
    PROVE  SumOf(d) <= width
<1> DEFINE S == {k \in 0..n : k = 0 \/ Prefix(d, k) <= b[k] - e}
<1>1. d \in [1..n -> Int]
  OBVIOUS
<1>2. /\ Prefix(d, 0) = 0 /\ \A k \in 0..n : Prefix(d, k) \in Int
      /\ \A k \in 1..n : Prefix(d, k) = Prefix(d, k - 1) + d[k]
      /\ SumOf(d) = Prefix(d, n)
  BY <1>1, PrefixSums
<1>3. 0 \in S
  OBVIOUS
<1>4. ASSUME NEW k \in 0..(n - 1), k \in S PROVE k + 1 \in S
  <2>1. k + 1 \in 1..n /\ (k + 1) - 1 = k
    OBVIOUS
  <2>2. Prefix(d, k + 1) = Prefix(d, k) + (b[k + 1] - a[k + 1])
    BY <1>2, <2>1
  <2>3. a[k + 1] \in Int /\ b[k + 1] \in Int /\ e <= a[k + 1] /\ Prefix(d, k) \in Int
    BY <1>2, <2>1
  <2>4. CASE k = 0
    <3>1. Prefix(d, k + 1) <= b[k + 1] - e
      BY <1>2, <2>2, <2>3, <2>4
    <3> QED
      BY <2>1, <3>1
  <2>5. CASE k # 0
    <3>1. k \in 1..n /\ Prefix(d, k) <= b[k] - e
      BY <1>4, <2>5
    <3>2. b[k] <= a[k + 1] /\ b[k] \in Int
      BY <2>1, <3>1
    <3>3. Prefix(d, k + 1) <= b[k + 1] - e
      BY <2>2, <2>3, <3>1, <3>2
    <3> QED
      BY <2>1, <3>3
  <2> QED
    BY <2>4, <2>5
<1> HIDE DEF S
<1>5. \A k \in 0..n : k \in S
  BY <1>3, <1>4, IntervalInduction
<1>6. n \in S
  BY <1>5
<1>7. CASE n = 0
  BY <1>2, <1>7
<1>8. CASE n # 0
  <2>1. Prefix(d, n) <= b[n] - e /\ n \in 1..n
    BY <1>6, <1>8 DEF S
  <2>2. b[n] <= e + width /\ b[n] \in Int
    BY <2>1
  <2>3. Prefix(d, n) \in Int
    BY <1>2, <2>1
  <2> QED
    BY ONLY <1>2, <2>1, <2>2, <2>3, e \in Int, width \in Nat
<1> QED
  BY <1>7, <1>8

\* No partition of a cut plan reads more than a cell.
LEMMA CellBytes ==
    ASSUME Sizes \in [Files -> Nat], NEW n \in Nat, NEW files \in [1..n -> Files],
           \A i \in 1..n : Sizes[files[i]] # 0, NEW step \in Nat \ {0},
           NEW count \in Nat, IsCut(partitions, files, Sizes, n, step, count), NEW p \in 1..count
    PROVE  BytesIn(p) <= step
<1> DEFINE c == p - 1
           s == [i \in 1..n |-> Sizes[files[i]]]
           M == Meeting(files, Sizes, n, step, c)
<1>1. PICK m : /\ IsAscending(m, M) /\ Len(partitions[p]) = Len(m)
               /\ \A k \in 1..Len(m) : partitions[p][k] = Slice(files, Sizes, step, m[k], c)
  BY DEF IsCut
<1>2. m \in Seq(M) /\ Len(m) \in Nat /\ \A j, k \in 1..Len(m) : j < k => m[j] < m[k]
  BY <1>1 DEF IsAscending
<1>3. DOMAIN partitions[p] = 1..Len(m)
  <2>1. partitions[p] \in Seq(AnyTasks)
    BY DEF IsCut
  <2> QED
    BY <1>1, <2>1
<1>4. /\ s \in [1..n -> Nat] /\ \A i \in 1..n : StartOf(files, i) = Prefix(s, i - 1)
      /\ \A i \in 1..n : StartOf(files, i) \in Nat
  <2>1. LaidOut(s, files, Sizes, n)
    BY BeforeIs
  <2> QED
    BY <2>1, Zenon DEF LaidOut, StartOf
<1>5. \A i \in 1..n : s[i] = Sizes[files[i]] /\ Sizes[files[i]] \in Nat \ {0}
  OBVIOUS
<1> HIDE DEF s
<1> DEFINE start(k) == StartOf(files, m[k])
           size(k) == Sizes[files[m[k]]]
           lo(k) == From(c, step, start(k))
           hi(k) == Until(c, step, start(k), size(k))
           e == c * step
           a == [k \in 1..Len(m) |-> start(k) + lo(k)]
           b == [k \in 1..Len(m) |-> start(k) + hi(k)]
<1>6. c \in Nat /\ e \in Int
  OBVIOUS
<1>7. ASSUME NEW k \in 1..Len(m)
      PROVE  /\ m[k] \in 1..n /\ RangeOf(<<p, k>>) = <<lo(k), hi(k)>>
             /\ start(k) \in Nat /\ size(k) \in Nat \ {0}
             /\ lo(k) \in Nat /\ hi(k) \in Nat /\ hi(k) <= size(k)
             /\ e <= start(k) + lo(k) /\ start(k) + hi(k) <= e + step
  <2>1. m[k] \in M
    BY <1>2
  <2>2. partitions[p][k] = Slice(files, Sizes, step, m[k], p - 1) /\ p \in Nat \ {0}
    BY <1>1
  <2>3. InCell(files, n, step, p, k, m[k])
    BY <2>1, <2>2, InCellWhen
  <2>4. /\ m[k] \in 1..n /\ RangeOf(<<p, k>>) = <<lo(k), hi(k)>>
        /\ Meets(c, step, start(k), size(k))
    BY <2>3 DEF InCell
  <2>5. start(k) \in Nat /\ size(k) \in Nat \ {0}
    BY <1>4, <1>5, <2>4
  <2> HIDE DEF start, size, c
  <2>6. IsPiece(c, step, start(k), size(k), lo(k), hi(k))
    BY ONLY <1>6, <2>4, <2>5, step \in Nat \ {0}, PieceBounds, Zenon
  <2> QED
    BY <2>4, <2>5, <2>6 DEF IsPiece
<1> HIDE DEF lo, hi
<1>8. a \in [1..Len(m) -> Int] /\ b \in [1..Len(m) -> Int]
  <2>1. ASSUME NEW k \in 1..Len(m) PROVE start(k) + lo(k) \in Int /\ start(k) + hi(k) \in Int
    <3>1. start(k) \in Nat /\ lo(k) \in Nat /\ hi(k) \in Nat
      BY <1>7
    <3> HIDE DEF start
    <3> QED
      BY <3>1
  <2> HIDE DEF start
  <2> QED
    BY <2>1
<1>9. ASSUME NEW k \in 1..Len(m) PROVE e <= a[k] /\ b[k] <= e + step
  BY <1>7
<1>10. ASSUME NEW k \in 1..Len(m), NEW j \in 1..Len(m), j = k + 1 PROVE b[k] <= a[j]
  <2>1. m[k] \in 1..n /\ m[j] \in 1..n /\ m[k] < m[j]
    <3>1. k < j
      BY <1>2, <1>10
    <3> QED
      BY <1>2, <1>7, <3>1
  <2>2. m[k] \in 0..n /\ m[j] - 1 \in 0..n /\ m[k] <= m[j] - 1
    BY ONLY <2>1, n \in Nat
  <2>3. Prefix(s, m[k]) <= Prefix(s, m[j] - 1)
    BY <1>4, <2>2, PrefixGrows
  <2>4. Prefix(s, m[k]) = Prefix(s, m[k] - 1) + s[m[k]]
    <3>1. s \in [1..n -> Int]
      BY <1>4
    <3> QED
      BY <2>1, <3>1, PrefixSums
  <2>5. start(k) = Prefix(s, m[k] - 1) /\ start(j) = Prefix(s, m[j] - 1) /\ s[m[k]] = size(k)
    BY <1>4, <1>5, <2>1
  <2>6. start(k) \in Nat /\ size(k) \in Nat /\ hi(k) \in Nat /\ hi(k) <= size(k)
        /\ start(j) \in Nat /\ lo(j) \in Nat
    BY <1>7
  <2>7. b[k] = start(k) + hi(k) /\ a[j] = start(j) + lo(j)
    OBVIOUS
  <2> HIDE DEF a, b, start, size
  <2> QED
    BY <2>3, <2>4, <2>5, <2>6, <2>7
<1> DEFINE d == [k \in 1..Len(m) |-> b[k] - a[k]]
<1>11. BytesIn(p) = SumOf(d)
  <2>1. ASSUME NEW k \in 1..Len(m) PROVE RangeOf(<<p, k>>)[2] - RangeOf(<<p, k>>)[1] = b[k] - a[k]
    <3>1. RangeOf(<<p, k>>) = <<lo(k), hi(k)>> /\ start(k) \in Nat /\ lo(k) \in Nat /\ hi(k) \in Nat
      BY <1>7
    <3>2. b[k] = start(k) + hi(k) /\ a[k] = start(k) + lo(k)
      OBVIOUS
    <3> HIDE DEF a, b, start
    <3> QED
      BY <3>1, <3>2
  <2> HIDE DEF a, b
  <2>2. [k \in DOMAIN partitions[p] |-> RangeOf(<<p, k>>)[2] - RangeOf(<<p, k>>)[1]] = d
    BY <1>3, <2>1
  <2> QED
    BY <2>2, Zenon DEF BytesIn
<1>12. \A k \in 1..Len(m) : e <= a[k] /\ b[k] <= e + step
  BY <1>9
<1>13. \A k \in 1..Len(m) : \A j \in 1..Len(m) : j = k + 1 => b[k] <= a[j]
  BY <1>10
<1>14. d = [k \in 1..Len(m) |-> b[k] - a[k]] /\ step \in Nat
  OBVIOUS
<1> HIDE DEF a, b, d, e
<1>15. SumOf(d) <= step
  BY ONLY <1>2, <1>6, <1>8, <1>12, <1>13, <1>14, Telescope
<1> QED
  BY <1>11, <1>15

-----------------------------------------------------------------------------
(* The plan that is read.                                                  *)

TilesFiles == \A f \in Files : IF f \in Range(PlannedFiles) THEN Tiled(f) ELSE TasksOf(f) = {}
FilledPlan ==
    /\ Planned(partitions) /\ TilesFiles /\ Len(partitions) <= Target
    /\ \A p \in 1..Len(partitions) : partitions[p] # <<>>

LEMMA WholePlanTiles ==
    ASSUME ValidInput(input), ~GroupingFails(PlannedSizes, Target), partitions = GroupedPlan
    PROVE  /\ FilledPlan
           /\ \A p, q \in 1..Len(partitions) :
                /\ BytesIn(p) - Sizes[Last(partitions[p]).file] <= BytesIn(q)
                /\ SumOf(PlannedSizes) = 0 => Len(partitions[p]) - Len(partitions[q]) \in -1..1
<1> DEFINE F == Range(PlannedFiles)
<1>1. Target \in Nat \ {0} /\ WholePlan(partitions)
  BY GroupedPlanIs
<1>2. Sizes \in [Files -> Nat] /\ \A f : f \in F => f \in Files
  BY PlannedFilesIs
<1> HIDE DEF F
<1>3. Holding(partitions, F) /\ Len(partitions) <= Target /\ Balanced(partitions, Sizes)
      /\ (SumOf(PlannedSizes) = 0 => Even(partitions))
  BY <1>1 DEF WholePlan, F
<1>4. F \subseteq Files
  BY <1>2
<1>5. /\ \A f \in F : Tiled(f)
      /\ \A f \in Files \ F : TasksOf(f) = {}
      /\ \A p \in 1..Len(partitions) : BytesIn(p) = LoadOf(partitions[p], Sizes)
      /\ Planned(partitions)
  BY <1>2, <1>3, <1>4, WholeFilesTiled
<1>6. TilesFiles
  BY <1>5 DEF TilesFiles, F
<1>7. \A p \in 1..Len(partitions) : partitions[p] # <<>>
  BY <1>3 DEF Holding
<1>8. FilledPlan
  BY <1>3, <1>5, <1>6, <1>7 DEF FilledPlan
<1>9. ASSUME NEW p \in 1..Len(partitions), NEW q \in 1..Len(partitions)
      PROVE  /\ BytesIn(p) - Sizes[Last(partitions[p]).file] <= BytesIn(q)
             /\ SumOf(PlannedSizes) = 0 => Len(partitions[p]) - Len(partitions[q]) \in -1..1
  <2>1. Last(partitions[p]) = partitions[p][Len(partitions[p])]
    BY DEF Last
  <2>2. BytesIn(p) = LoadOf(partitions[p], Sizes) /\ BytesIn(q) = LoadOf(partitions[q], Sizes)
    BY <1>5
  <2>3. LoadOf(partitions[p], Sizes) - Sizes[partitions[p][Len(partitions[p])].file]
          <= LoadOf(partitions[q], Sizes)
    BY <1>3 DEF Balanced
  <2>4. SumOf(PlannedSizes) = 0 => Len(partitions[p]) - Len(partitions[q]) \in -1..1
    BY <1>3 DEF Even
  <2> QED
    BY <2>1, <2>2, <2>3, <2>4
<1> QED
  BY <1>8, <1>9

LEMMA CutPlanTiles ==
    ASSUME ValidInput(input), ~GroupingFails(PlannedSizes, Target), NEW minimum, NEW policy,
           Repartitions(GroupedPlan, Sizes, Target, minimum, policy),
           partitions = RepartitionFileTasks(GroupedPlan, Sizes, Target)
    PROVE  /\ FilledPlan
           /\ \A p \in 1..Len(partitions) : BytesIn(p) <= CeilDiv(SumOf(PlannedSizes), Target)
<1> DEFINE F == Range(PlannedFiles)
           plan == GroupedPlan
           files == FilesOf(plan)
           n == Len(files)
           s == [i \in 1..n |-> Sizes[files[i]]]
           total == TotalBytes(files, Sizes)
           step == CeilDiv(total, Target)
           count == CeilDiv(total, step)
<1>1. Target \in Nat \ {0} /\ Holding(plan, F)
  BY GroupedPlanIs DEF WholePlan
<1>2. /\ Sizes \in [Files -> Nat] /\ \A f : f \in F => f \in Files
      /\ Enumerates(PlannedFiles, Len(PlannedFiles), F) /\ Len(PlannedFiles) \in Nat
      /\ PlannedSizes \in Seq(Nat) /\ Len(PlannedSizes) = Len(PlannedFiles)
      /\ \A i \in 1..Len(PlannedFiles) : PlannedSizes[i] = Sizes[PlannedFiles[i]]
  BY PlannedFilesIs
<1>3. \A i \in DOMAIN files : Sizes[files[i]] # 0
  BY Zenon DEF Repartitions
<1>4. files # <<>>
  BY Zenon DEF Repartitions
<1> HIDE DEF F, plan
<1>5. files \in Seq(F) /\ n \in Nat /\ Enumerates(files, n, F)
  BY <1>1, FilesOfIs
<1> HIDE DEF files
<1>6. F \subseteq Files
  BY <1>2
<1>7. n \in Nat \ {0} /\ \A i \in 1..n : Sizes[files[i]] # 0
  <2>1. DOMAIN files = 1..n /\ n # 0
    BY <1>4, <1>5
  <2> QED
    BY <1>3, <1>5, <2>1
<1> HIDE DEF n
<1>8. files \in [1..n -> Files]
  BY <1>5, <1>6 DEF Enumerates
<1>9. s \in [1..n -> Nat] /\ total = SumOf(s) /\ \A i \in 1..n : s[i] # 0
  <2>1. LaidOut(s, files, Sizes, n)
    BY <1>2, <1>7, <1>8, BeforeIs
  <2>2. \A i \in 1..n : s[i] # 0
    BY <1>7
  <2> QED
    BY <2>1, <2>2, Zenon DEF LaidOut
<1>10. total \in Nat \ {0}
  <2> HIDE DEF s
  <2>1. SumOf(s) \in Nat
    BY <1>7, <1>9, PrefixGrows
  <2>2. CASE SumOf(s) = 0
    <3>1. 1 \in 1..n
      BY <1>7
    <3>2. s[1] = 0
      BY <1>7, <1>9, <2>2, <3>1, ZeroSum
    <3> QED
      BY <1>9, <3>1, <3>2
  <2> QED
    BY <1>9, <2>1, <2>2
<1>11. SumOf(PlannedSizes) = total
  <2> DEFINE w == [f \in F |-> Sizes[f]]
             m == Len(PlannedFiles)
  <2>1. w \in [F -> Int]
    BY <1>2
  <2>2. Weight(files, n, w) = Weight(PlannedFiles, m, w)
    <3> HIDE DEF w
    <3> QED
      BY <1>2, <1>5, <1>7, <2>1, SameWeight
  <2>3. Weight(files, n, w) = SumOf(s)
    <3>1. \A i \in 1..n : files[i] \in F
      BY <1>5 DEF Enumerates
    <3>2. [i \in 1..n |-> w[files[i]]] = s
      BY <3>1
    <3> QED
      BY <3>2, Zenon DEF Weight
  <2>4. Weight(PlannedFiles, m, w) = SumOf(PlannedSizes)
    <3>1. \A i \in 1..m : PlannedFiles[i] \in F
      BY <1>2 DEF Enumerates
    <3>2. PlannedSizes = [i \in 1..m |-> PlannedSizes[i]]
      BY <1>2
    <3>3. \A i \in 1..m : w[PlannedFiles[i]] = PlannedSizes[i]
      BY <1>2, <3>1
    <3> HIDE DEF w
    <3>4. [i \in 1..m |-> w[PlannedFiles[i]]] = PlannedSizes
      BY <3>2, <3>3
    <3> QED
      BY <3>4, Zenon DEF Weight
  <2> QED
    BY <1>9, <2>2, <2>3, <2>4
<1> HIDE DEF s, total
<1>12. /\ step \in Nat \ {0} /\ count \in Nat /\ count <= Target
       /\ \A c \in 0..(count - 1) : c * step < total
       /\ \A x \in 0..(total - 1) : x \div step \in 0..(count - 1)
  BY <1>1, <1>10, CellCount
<1>13. IsCut(partitions, files, Sizes, n, step, count)
  <2>1. step = CeilDiv(TotalBytes(files, Sizes), Target) /\ count = CeilDiv(TotalBytes(files, Sizes), step)
    BY DEF total
  <2>2. step \in Nat \ {0} /\ count \in Nat /\ n \in Nat
    BY <1>7, <1>12
  <2>3. files = FilesOf(plan) /\ partitions = RepartitionFileTasks(plan, Sizes, Target) /\ Files \subseteq Files
    BY DEF files, plan
  <2> HIDE DEF step, count
  <2> QED
    BY ONLY <1>2, <1>7, <1>8, <2>1, <2>2, <2>3, RepartitionIs
<1> HIDE DEF step, count
<1>14. Planned(partitions) /\ Len(partitions) = count /\ CellsHold(files, n, step)
  BY <1>2, <1>5, <1>6, <1>7, <1>12, <1>13, CutHolds
<1>15. (\A f \in F : Tiled(f)) /\ \A f \in Files \ F : TasksOf(f) = {}
  <2>1. \A x \in 0..(TotalBytes(files, Sizes) - 1) : x \div step \in 0..(Len(partitions) - 1)
    BY <1>12, <1>14 DEF total
  <2> QED
    BY ONLY <1>2, <1>5, <1>6, <1>7, <1>12, <1>14, <2>1, CellsTile
<1>16. TilesFiles
  BY <1>15 DEF TilesFiles, F
<1>17. ASSUME NEW p \in 1..Len(partitions)
       PROVE  partitions[p] # <<>> /\ BytesIn(p) <= step
  <2>1. p \in 1..count /\ p - 1 \in 0..(count - 1) /\ p - 1 \in Int
    BY <1>12, <1>14
  <2>2. BytesIn(p) <= step
    BY <1>2, <1>7, <1>8, <1>12, <1>13, <2>1, CellBytes
  <2> DEFINE x == (p - 1) * step
  <2>3. x \in Nat /\ x < total
    <3>1. x < total
      BY <1>12, <2>1
    <3>2. p - 1 \in Nat /\ step \in Nat
      BY <1>12, <2>1
    <3>3. x \in Nat
      BY ONLY <3>2
    <3> QED
      BY <3>1, <3>3
  <2> HIDE DEF x
  <2>4. PICK i \in 1..n : Prefix(s, i - 1) <= x /\ x < Prefix(s, i)
    BY <1>7, <1>9, <2>3, PrefixLocates
  <2>5. Prefix(s, i) = Prefix(s, i - 1) + s[i] /\ Prefix(s, i - 1) \in Int
    <3>1. s \in [1..n -> Int] /\ i - 1 \in 0..n
      BY <1>7, <1>9
    <3> QED
      BY <1>7, <3>1, PrefixSums
  <2>6. StartOf(files, i) = Prefix(s, i - 1) /\ s[i] = Sizes[files[i]] /\ s[i] \in Nat
    <3>1. LaidOut(s, files, Sizes, n)
      BY <1>2, <1>7, <1>8, BeforeIs DEF s
    <3>2. s[i] = Sizes[files[i]] /\ s[i] \in Nat
      BY <1>9 DEF s
    <3> QED
      BY <3>1, <3>2, Zenon DEF LaidOut, StartOf
  <2>7. Meets(p - 1, step, StartOf(files, i), Sizes[files[i]])
    <3>1. Prefix(s, i - 1) < x + step /\ x < Prefix(s, i - 1) + s[i]
      <4>1. step \in Nat \ {0} /\ x \in Nat
        BY <1>12, <2>3
      <4>2. Prefix(s, i) = Prefix(s, i - 1) + s[i] /\ Prefix(s, i - 1) \in Int
        BY <2>5
      <4>3. s[i] \in Nat
        BY <2>6
      <4> QED
        BY ONLY <2>4, <4>1, <4>2, <4>3
    <3> QED
      BY <2>6, <3>1 DEF Meets, x
  <2>8. PICK k \in 1..Len(partitions[p]) : partitions[p][k].file = files[i]
    <3>1. \A j \in 1..n : Meets(p - 1, step, StartOf(files, j), Sizes[files[j]]) =>
            \E k \in 1..Len(partitions[p]) : partitions[p][k].file = files[j]
      BY <1>14, Zenon DEF CellsHold
    <3> QED
      BY <2>7, <3>1
  <2>9. partitions[p] # <<>>
    BY <2>8
  <2> QED
    BY <2>2, <2>9
<1>18. FilledPlan
  BY <1>12, <1>14, <1>16, <1>17 DEF FilledPlan
<1> QED
  BY <1>11, <1>17, <1>18 DEF step

\* What depends on the input only.
LEMMA InputOnly ==
    ASSUME input' = input
    PROVE  /\ Files' = Files /\ Sizes' = Sizes /\ Target' = Target
           /\ PlannedFiles' = PlannedFiles /\ PlannedSizes' = PlannedSizes /\ GroupedPlan' = GroupedPlan
<1>1. Files' = Files
  BY DEF Files
<1>2. Sizes' = Sizes
  BY <1>1 DEF Sizes
<1>3. Target' = Target
  BY DEF Target
<1>4. PlannedFiles' = PlannedFiles
  <2>1. ASSUME NEW q PROVE Pushdown(q)' = Pushdown(q)
    BY Zenon DEF Pushdown
  <2>2. ASSUME NEW f, NEW q PROVE PassesPart(f, q)' <=> PassesPart(f, q)
    BY DEF PassesPart
  <2>3. {f \in Files' : \A q \in input'.filters : Pushdown(q)' # "Unsupported" => PassesPart(f, q)'}
          = {f \in Files : \A q \in input.filters : Pushdown(q) # "Unsupported" => PassesPart(f, q)}
    BY <1>1, <2>1, <2>2
  <2> QED
    BY <2>3, Zenon DEF PlannedFiles
<1>5. PlannedSizes' = PlannedSizes
  BY <1>2, <1>4, Zenon DEF PlannedSizes
<1>6. GroupedPlan' = GroupedPlan
  BY <1>3, <1>4, <1>5, Zenon DEF GroupedPlan
<1> QED
  BY <1>1, <1>2, <1>3, <1>4, <1>5, <1>6

LEMMA PlanInvInit == FileRowsInit => PlanInv
BY InputsAssumption DEF FileRowsInit, PlanInv

LEMMA PlanInvStep == PlanInv /\ [FileRowsNext]_rowVars => PlanInv'
<1> SUFFICES ASSUME PlanInv, [FileRowsNext]_rowVars PROVE PlanInv'
  OBVIOUS
<1>0. input' = input /\ ValidInput(input)'
  <2>1. input' = input
    BY DEF FileRowsNext, rowVars, PlanScan, Repartition, StartReading, PublishFilter, AdmitTask,
           ReadBatch, FinishFile, EndScan, Over
  <2>2. ValidInput(input)
    BY DEF PlanInv
  <2> QED
    BY <2>1, <2>2 DEF ValidInput, ValidFile, ValidGroup, ValidOptions, ValidFilter
<1>1. /\ Sizes' = Sizes /\ Target' = Target /\ PlannedSizes' = PlannedSizes /\ GroupedPlan' = GroupedPlan
  BY <1>0, InputOnly
<1> DEFINE Grouped == ~GroupingFails(PlannedSizes, Target)
           Split == /\ repartitioned = TRUE /\ input.backend = "Direct"
                    /\ Repartitions(GroupedPlan, Sizes, Target, input.minimum, input.policy)
                    /\ partitions = RepartitionFileTasks(GroupedPlan, Sizes, Target)
           Kept == repartitioned = FALSE /\ partitions = GroupedPlan
           Live == phase \in {"planned", "reading", "ended"}
           Phases == {"planning", "planned", "reading", "ended", "failed"}
<1>2. PlanInv <=> /\ ValidInput(input) /\ phase \in Phases
                  /\ phase = "planning" => partitions = <<>> /\ repartitioned = FALSE
                  /\ Live => Grouped /\ (Kept \/ Split)
  BY DEF PlanInv
<1>3. Grouped' = Grouped
  BY <1>1 DEF GroupingFails
<1>4. ASSUME UNCHANGED <<partitions, repartitioned>> PROVE Kept' = Kept /\ Split' = Split
  <2>1. /\ repartitioned' = repartitioned /\ partitions' = partitions /\ input' = input
        /\ Sizes' = Sizes /\ Target' = Target /\ GroupedPlan' = GroupedPlan
    BY <1>0, <1>1, <1>4
  <2>2. Repartitions(GroupedPlan, Sizes, Target, input.minimum, input.policy)'
          = Repartitions(GroupedPlan, Sizes, Target, input.minimum, input.policy)
    BY <2>1, Zenon DEF Repartitions
  <2>3. RepartitionFileTasks(GroupedPlan, Sizes, Target)' = RepartitionFileTasks(GroupedPlan, Sizes, Target)
    BY <2>1, Zenon DEF RepartitionFileTasks
  <2> QED
    BY <2>1, <2>2, <2>3
<1>5. PlanInv' <=> /\ ValidInput(input)' /\ phase' \in Phases
                   /\ phase' = "planning" => partitions' = <<>> /\ repartitioned' = FALSE
                   /\ Live' => Grouped' /\ (Kept' \/ Split')
  BY DEF PlanInv
<1>6. CASE PlanScan
  <2>1. phase = "planning" /\ repartitioned' = repartitioned /\ repartitioned = FALSE
    BY <1>2, <1>6 DEF PlanScan
  <2>2. CASE OptionsRefused(input.options) \/ GroupingFails(PlannedSizes, Target)
    <3>1. phase' = "failed"
      BY <1>6, <2>2 DEF PlanScan
    <3> QED
      BY <1>0, <1>5, <3>1
  <2>3. CASE ~(OptionsRefused(input.options) \/ GroupingFails(PlannedSizes, Target))
    <3>1. phase' = "planned" /\ partitions' = GroupedPlan
      BY <1>6, <2>3 DEF PlanScan
    <3>2. Kept'
      BY <1>1, <2>1, <3>1
    <3>3. Grouped'
      BY <1>3, <2>3
    <3> QED
      BY <1>0, <1>5, <3>1, <3>2, <3>3
  <2> QED
    BY <2>2, <2>3
<1>7. CASE Repartition
  <2>1. /\ phase = "planned" /\ ~repartitioned /\ input.backend = "Direct" /\ phase' = phase
        /\ Repartitions(partitions, Sizes, Target, input.minimum, input.policy)
        /\ partitions' = RepartitionFileTasks(partitions, Sizes, Target) /\ repartitioned' = TRUE
    BY <1>7 DEF Repartition
  <2>2. Grouped /\ partitions = GroupedPlan
    BY <1>2, <2>1
  <2>3. Repartitions(GroupedPlan, Sizes, Target, input.minimum, input.policy)'
          = Repartitions(GroupedPlan, Sizes, Target, input.minimum, input.policy)
    BY <1>0, <1>1, Zenon DEF Repartitions
  <2>4. RepartitionFileTasks(GroupedPlan, Sizes, Target)' = RepartitionFileTasks(GroupedPlan, Sizes, Target)
    BY <1>1, Zenon DEF RepartitionFileTasks
  <2>5. Split'
    BY <1>0, <2>1, <2>2, <2>3, <2>4
  <2> QED
    BY <1>0, <1>3, <1>5, <2>1, <2>2, <2>5
<1>8. ASSUME UNCHANGED <<partitions, repartitioned>>, phase' \in Phases, phase' = "planning" => phase = "planning",
             Live' => Live
      PROVE  PlanInv'
  BY <1>0, <1>2, <1>3, <1>4, <1>5, <1>8
<1> HIDE DEF Grouped, Split, Kept
<1>9. CASE StartReading
  BY <1>2, <1>8, <1>9 DEF StartReading
<1>10. CASE PublishFilter
  BY <1>2, <1>8, <1>10 DEF PublishFilter
<1>11. CASE AdmitTask
  <2>1. phase = "reading" /\ phase' \in {phase, "failed"} /\ UNCHANGED <<partitions, repartitioned>>
    BY <1>11 DEF AdmitTask
  <2> QED
    BY <1>8, <2>1
<1>12. CASE ReadBatch
  <2>1. phase = "reading" /\ phase' \in {phase, "failed"} /\ UNCHANGED <<partitions, repartitioned>>
    BY <1>12 DEF ReadBatch
  <2> QED
    BY <1>8, <2>1
<1>13. CASE FinishFile
  <2>1. phase = "reading" /\ phase' \in {phase, "failed"} /\ UNCHANGED <<partitions, repartitioned>>
    BY <1>13 DEF FinishFile
  <2> QED
    BY <1>8, <2>1
<1>14. CASE EndScan
  BY <1>2, <1>8, <1>14 DEF EndScan
<1>15. CASE UNCHANGED rowVars
  BY <1>2, <1>8, <1>15 DEF rowVars
<1> QED
  BY <1>6, <1>7, <1>9, <1>10, <1>11, <1>12, <1>13, <1>14, <1>15 DEF FileRowsNext, Over

LEMMA PlanInvHolds == FileRowsSpec => []PlanInv
BY PlanInvInit, PlanInvStep, PTL DEF FileRowsSpec

LEMMA PlanIsFilled ==
    ASSUME PlanInv, phase \in {"planned", "reading", "ended"}
    PROVE  FilledPlan
<1>1. ValidInput(input) /\ ~GroupingFails(PlannedSizes, Target)
  BY DEF PlanInv
<1>2. CASE partitions = GroupedPlan
  BY <1>1, <1>2, WholePlanTiles
<1>3. CASE /\ Repartitions(GroupedPlan, Sizes, Target, input.minimum, input.policy)
           /\ partitions = RepartitionFileTasks(GroupedPlan, Sizes, Target)
  BY <1>1, <1>3, CutPlanTiles
<1> QED
  BY <1>2, <1>3 DEF PlanInv

\* group_scan_file_tasks, repartition_file_tasks and task_from_partitioned_file,
\* for every table, option and filter: the tasks of a planned file read each of
\* its bytes once, a file that is not planned has no task, no partition is empty
\* or above the target, and the partitions are balanced.
THEOREM PlanTilesFilesHolds == FileRowsSpec => []PlanTilesFiles
<1>1. PlanInv => PlanTilesFiles
  <2> SUFFICES ASSUME PlanInv, phase \in {"planned", "reading", "ended"}
               PROVE  /\ TilesFiles /\ Len(partitions) <= Target
                      /\ \A p, q \in DOMAIN partitions :
                           /\ partitions[p] # <<>>
                           /\ IF repartitioned THEN BytesIn(p) <= CeilDiv(SumOf(PlannedSizes), Target)
                              ELSE /\ BytesIn(p) - Sizes[Last(partitions[p]).file] <= BytesIn(q)
                                   /\ SumOf(PlannedSizes) = 0 =>
                                        Len(partitions[p]) - Len(partitions[q]) \in -1..1
    BY DEF PlanTilesFiles, TilesFiles
  <2>1. FilledPlan
    BY PlanIsFilled
  <2>2. TilesFiles /\ Len(partitions) <= Target /\ \A p \in 1..Len(partitions) : partitions[p] # <<>>
    BY <2>1 DEF FilledPlan
  <2>3. DOMAIN partitions = 1..Len(partitions)
    <3>1. partitions \in Seq(Seq(AnyTasks))
      BY <2>1 DEF FilledPlan, Planned
    <3> QED
      BY <3>1
  <2>4. ValidInput(input) /\ ~GroupingFails(PlannedSizes, Target)
    BY DEF PlanInv
  <2>5. ASSUME NEW p \in 1..Len(partitions), NEW q \in 1..Len(partitions)
        PROVE  IF repartitioned THEN BytesIn(p) <= CeilDiv(SumOf(PlannedSizes), Target)
               ELSE /\ BytesIn(p) - Sizes[Last(partitions[p]).file] <= BytesIn(q)
                    /\ SumOf(PlannedSizes) = 0 => Len(partitions[p]) - Len(partitions[q]) \in -1..1
    <3>1. CASE repartitioned = FALSE /\ partitions = GroupedPlan
      <4>1. /\ BytesIn(p) - Sizes[Last(partitions[p]).file] <= BytesIn(q)
            /\ SumOf(PlannedSizes) = 0 => Len(partitions[p]) - Len(partitions[q]) \in -1..1
        BY <2>4, <3>1, WholePlanTiles
      <4> QED
        BY <3>1, <4>1
    <3>2. CASE /\ repartitioned = TRUE
               /\ Repartitions(GroupedPlan, Sizes, Target, input.minimum, input.policy)
               /\ partitions = RepartitionFileTasks(GroupedPlan, Sizes, Target)
      <4>1. BytesIn(p) <= CeilDiv(SumOf(PlannedSizes), Target)
        BY <2>4, <3>2, CutPlanTiles
      <4> QED
        BY <3>2, <4>1
    <3> QED
      BY <3>1, <3>2 DEF PlanInv
  <2> QED
    BY <2>2, <2>3, <2>5
<1> QED
  BY <1>1, PlanInvHolds, PTL

-----------------------------------------------------------------------------
(* Rows and the tasks that read them.                                      *)

\* A step that keeps the input and the plan keeps what they determine.
LEMMA SameInput ==
    ASSUME input' = input
    PROVE  /\ \A f : RowCount(f)' = RowCount(f) /\ (Masked(f)' <=> Masked(f)) /\ (Beyond(f)' <=> Beyond(f))
           /\ \A f : PrunedByJoin(f)' <=> PrunedByJoin(f)
           /\ \A f, row : Wanted(f, row)' <=> Wanted(f, row)
           /\ \A task, f, row : Reads(task, f, row)' <=> Reads(task, f, row)
           /\ \A f, row, q : Pushdown(q)' = Pushdown(q) /\ (Passes(f, row, q)' <=> Passes(f, row, q))
<1>1. ASSUME NEW f PROVE RowCount(f)' = RowCount(f) /\ RowValues(f)' = RowValues(f)
  <2>1. RowValues(f)' = RowValues(f)
    BY Zenon DEF RowValues
  <2> QED
    BY <2>1, Zenon DEF RowCount
<1>2. ASSUME NEW f PROVE Masked(f)' <=> Masked(f)
  BY DEF Masked
<1>3. ASSUME NEW f PROVE Beyond(f)' <=> Beyond(f)
  BY <1>1, <1>2 DEF Beyond
<1>4. ASSUME NEW f PROVE PrunedByJoin(f)' <=> PrunedByJoin(f)
  BY DEF PrunedByJoin
<1>5. ASSUME NEW f, NEW row PROVE ValueOf(f, row)' = ValueOf(f, row)
  BY <1>1, Zenon DEF ValueOf
<1>6. ASSUME NEW f, NEW row, NEW q PROVE Passes(f, row, q)' <=> Passes(f, row, q)
  <2>1. PassesRow(f, row, q)' <=> PassesRow(f, row, q)
    BY <1>5 DEF PassesRow
  <2>2. PassesPart(f, q)' <=> PassesPart(f, q)
    BY DEF PassesPart
  <2> QED
    BY <2>1, <2>2 DEF Passes
<1>7. ASSUME NEW q PROVE Pushdown(q)' = Pushdown(q)
  BY Zenon DEF Pushdown
<1>8. ASSUME NEW f, NEW row PROVE Wanted(f, row)' <=> Wanted(f, row)
  <2>1. LiveRow(f, row)' <=> LiveRow(f, row)
    BY DEF LiveRow
  <2> QED
    BY <1>6, <2>1 DEF Wanted
<1>9. ASSUME NEW task, NEW f, NEW row PROVE Reads(task, f, row)' <=> Reads(task, f, row)
  BY Zenon DEF Reads
<1> QED
  BY <1>1, <1>2, <1>3, <1>4, <1>6, <1>7, <1>8, <1>9

LEMMA TasksAre ==
    ASSUME FilledPlan
    PROVE  /\ Tasks \in Seq(AnyTasks) /\ Len(Tasks) \in Nat /\ IsFlat(Tasks, partitions, AnyTasks)
           /\ \A k \in 1..Len(Tasks) : Tasks[k] \in AnyTasks
<1>1. partitions \in Seq(Seq(AnyTasks))
  BY DEF FilledPlan, Planned
<1>2. IsFlat(Tasks, partitions, AnyTasks)
  BY <1>1, FlattenIs DEF Tasks
<1>3. Tasks \in Seq(AnyTasks)
  BY <1>2 DEF IsFlat
<1> HIDE DEF Tasks
<1> QED
  BY <1>2, <1>3

\* The task at a place reads a row if its range holds the row group's first page.
LEMMA ReadsAt ==
    ASSUME ValidInput(input), FilledPlan, NEW f \in Files, NEW row \in 0..(RowCount(f) - 1)
    PROVE  \E byte \in 0..(Sizes[f] - 1) :
             \A p \in 1..Len(partitions) : \A i \in 1..Len(partitions[p]) :
               Reads(partitions[p][i], f, row) <=> <<p, i>> \in TasksOf(f) /\ Holds(<<p, i>>, byte)
<1> DEFINE groups == input.files[f].groups
           g == GroupOf(groups, row)
           byte == groups[g].first
<1>1. g \in DOMAIN groups
  BY RowsLie
<1>2. ValidFile(input, input.files[f])
  BY ValidFiles
<1>3. ValidGroup(input, input.files[f], groups[g])
  BY <1>1, <1>2 DEF ValidFile
<1>4. Sizes[f] = input.files[f].size
  BY DEF Sizes
<1>5. byte \in Nat /\ byte < Sizes[f] /\ Sizes[f] \in Nat
  BY <1>2, <1>3, <1>4 DEF ValidGroup, ValidFile
<1>6. byte \in 0..(Sizes[f] - 1)
  BY <1>5
<1>7. ASSUME NEW p \in 1..Len(partitions), NEW i \in 1..Len(partitions[p])
      PROVE  Reads(partitions[p][i], f, row) <=> <<p, i>> \in TasksOf(f) /\ Holds(<<p, i>>, byte)
  <2> DEFINE task == partitions[p][i]
  <2>1. partitions \in Seq(Seq(AnyTasks))
    BY DEF FilledPlan, Planned
  <2>2. <<p, i>> \in Places
    BY <2>1, PlacesAre
  <2>3. <<p, i>> \in TasksOf(f) <=> task.file = f
    BY <2>2 DEF TasksOf
  <2>4. Reads(task, f, row) <=> task.file = f /\ (task.range = Whole \/ Owns(task.range, groups[g]))
    BY DEF Reads
  <2>5. Owns(task.range, groups[g]) <=> task.range[1] <= byte /\ byte < task.range[2]
    BY DEF Owns
  <2>6. RangeOf(<<p, i>>) = IF task.range = Whole THEN <<0, Sizes[task.file]>> ELSE task.range
    BY DEF RangeOf
  <2> HIDE DEF task, byte, g
  <2>7. CASE task.file = f /\ task.range = Whole
    <3>1. Holds(<<p, i>>, byte)
      BY <1>5, <2>6, <2>7 DEF Holds
    <3> QED
      BY <2>3, <2>4, <2>7, <3>1 DEF task
  <2>8. CASE task.file = f /\ task.range # Whole
    <3>1. Holds(<<p, i>>, byte) <=> Owns(task.range, groups[g])
      BY <2>5, <2>6, <2>8 DEF Holds
    <3> QED
      BY <2>3, <2>4, <2>8, <3>1 DEF task
  <2>9. CASE task.file # f
    BY <2>3, <2>4, <2>9 DEF task
  <2> QED
    BY <2>7, <2>8, <2>9
<1> QED
  BY <1>6, <1>7

\* Splitting a file gives each of its rows to one task.
OneReader(f, row) ==
    /\ \A j, k \in 1..Len(Tasks) : Reads(Tasks[j], f, row) /\ Reads(Tasks[k], f, row) => j = k
    /\ f \in Range(PlannedFiles) => \E k \in 1..Len(Tasks) : Reads(Tasks[k], f, row)

LEMMA RowsHaveOneReader ==
    ASSUME ValidInput(input), FilledPlan, NEW f \in Files, NEW row \in 0..(RowCount(f) - 1)
    PROVE  OneReader(f, row)
<1>1. PICK byte \in 0..(Sizes[f] - 1) :
        \A p \in 1..Len(partitions) : \A i \in 1..Len(partitions[p]) :
          Reads(partitions[p][i], f, row) <=> <<p, i>> \in TasksOf(f) /\ Holds(<<p, i>>, byte)
  BY ReadsAt
<1>2. IsFlat(Tasks, partitions, AnyTasks)
  BY TasksAre
<1>3. IF f \in Range(PlannedFiles) THEN Tiled(f) ELSE TasksOf(f) = {}
  BY DEF FilledPlan, TilesFiles
<1>4. ASSUME NEW j \in 1..Len(Tasks), NEW k \in 1..Len(Tasks), Reads(Tasks[j], f, row), Reads(Tasks[k], f, row)
      PROVE  j = k
  <2>1. PICK p \in 1..Len(partitions) : \E i \in 1..Len(partitions[p]) : j = At(partitions, p, i)
    BY <1>2 DEF IsFlat
  <2>2. PICK i \in 1..Len(partitions[p]) : j = At(partitions, p, i)
    BY <2>1
  <2>3. PICK q \in 1..Len(partitions) : \E l \in 1..Len(partitions[q]) : k = At(partitions, q, l)
    BY <1>2 DEF IsFlat
  <2>4. PICK l \in 1..Len(partitions[q]) : k = At(partitions, q, l)
    BY <2>3
  <2>5. Tasks[j] = partitions[p][i] /\ Tasks[k] = partitions[q][l]
    BY <1>2, <2>2, <2>4 DEF IsFlat
  <2>6. /\ <<p, i>> \in TasksOf(f) /\ Holds(<<p, i>>, byte)
        /\ <<q, l>> \in TasksOf(f) /\ Holds(<<q, l>>, byte)
    BY <1>1, <1>4, <2>5
  <2>7. Tiled(f)
    BY <1>3, <2>6
  <2>8. PICK t \in TasksOf(f) : \A u \in TasksOf(f) : Holds(u, byte) => u = t
    BY <2>7 DEF Tiled
  <2>9. <<p, i>> = <<q, l>>
    BY <2>6, <2>8
  <2>10. p = q /\ i = l
    BY <2>9
  <2> QED
    BY <2>2, <2>4, <2>10
<1>5. ASSUME f \in Range(PlannedFiles) PROVE \E k \in 1..Len(Tasks) : Reads(Tasks[k], f, row)
  <2>1. PICK t \in TasksOf(f) : Holds(t, byte)
    BY <1>3, <1>5 DEF Tiled
  <2>2. partitions \in Seq(Seq(AnyTasks))
    BY DEF FilledPlan, Planned
  <2>3. t \in Places
    BY DEF TasksOf
  <2>4. PICK p \in 1..Len(partitions) : \E i \in 1..Len(partitions[p]) : t = <<p, i>>
    BY <2>2, <2>3, PlacesAre
  <2>5. PICK i \in 1..Len(partitions[p]) : t = <<p, i>>
    BY <2>4
  <2>6. Reads(partitions[p][i], f, row)
    BY <1>1, <2>1, <2>5
  <2>7. At(partitions, p, i) \in 1..Len(Tasks) /\ Tasks[At(partitions, p, i)] = partitions[p][i]
    BY <1>2 DEF IsFlat
  <2> QED
    BY <2>6, <2>7
<1> QED
  BY <1>4, <1>5 DEF OneReader

\* Every task is a task of a planned file, and each planned file has one.
LEMMA PlannedHaveTasks ==
    ASSUME FilledPlan
    PROVE  /\ \A k \in 1..Len(Tasks) : Tasks[k].file \in Files /\ Tasks[k].file \in Range(PlannedFiles)
           /\ \A f \in Files : f \in Range(PlannedFiles) => \E k \in 1..Len(Tasks) : Tasks[k].file = f
<1>1. IsFlat(Tasks, partitions, AnyTasks)
  BY TasksAre
<1>2. partitions \in Seq(Seq(AnyTasks))
  BY DEF FilledPlan, Planned
<1>3. ASSUME NEW k \in 1..Len(Tasks) PROVE Tasks[k].file \in Files /\ Tasks[k].file \in Range(PlannedFiles)
  <2> DEFINE f == Tasks[k].file
  <2>1. PICK p \in 1..Len(partitions) : \E i \in 1..Len(partitions[p]) : k = At(partitions, p, i)
    BY <1>1 DEF IsFlat
  <2>2. PICK i \in 1..Len(partitions[p]) : k = At(partitions, p, i)
    BY <2>1
  <2>3. Tasks[k] = partitions[p][i]
    BY <1>1, <2>2 DEF IsFlat
  <2>4. <<p, i>> \in Places
    BY <1>2, PlacesAre
  <2>5. <<p, i>> \in TasksOf(f)
    BY <2>3, <2>4 DEF TasksOf
  <2>6. f \in Files
    <3>1. Tasks[k] \in AnyTasks
      BY TasksAre
    <3> QED
      BY <3>1 DEF AnyTasks
  <2> QED
    BY <2>5, <2>6 DEF FilledPlan, TilesFiles
<1>4. ASSUME NEW f \in Files, f \in Range(PlannedFiles) PROVE \E k \in 1..Len(Tasks) : Tasks[k].file = f
  <2>1. TasksOf(f) # {}
    BY <1>4 DEF FilledPlan, TilesFiles, Tiled
  <2>2. PICK t \in TasksOf(f) : TRUE
    BY <2>1
  <2>3. t \in Places /\ partitions[t[1]][t[2]].file = f
    BY DEF TasksOf
  <2>4. PICK p \in 1..Len(partitions) : \E i \in 1..Len(partitions[p]) : t = <<p, i>>
    BY <1>2, <2>3, PlacesAre
  <2>5. PICK i \in 1..Len(partitions[p]) : t = <<p, i>>
    BY <2>4
  <2>6. At(partitions, p, i) \in 1..Len(Tasks) /\ Tasks[At(partitions, p, i)] = partitions[p][i]
    BY <1>1 DEF IsFlat
  <2> QED
    BY <2>3, <2>5, <2>6
<1> QED
  BY <1>3, <1>4

\* Only a planned file has rows that the query wants.
LEMMA WantedIsPlanned ==
    ASSUME ValidInput(input), NEW f \in Files, NEW row, Wanted(f, row)
    PROVE  f \in Range(PlannedFiles)
<1>1. \A q \in input.filters : PassesPart(f, q)
  BY DEF Wanted, Passes
<1> QED
  BY <1>1, PlannedFilesIs

-----------------------------------------------------------------------------
(* What a task opens: rows that it has to read and that the filters pushed  *)
(* down exactly let pass, and among them every row that the query wants.    *)

RowsToRead(task, rows) ==
    LET f == task.file
    IN  /\ rows \subseteq 0..(RowCount(f) - 1)
        /\ \A row \in rows :
             /\ Reads(task, f, row)
             /\ \A q \in input.filters : Pushdown(q) = "Exact" => Passes(f, row, q)
        /\ \A row \in 0..(RowCount(f) - 1) : Reads(task, f, row) /\ Wanted(f, row) => row \in rows
        /\ input.backend = "DeltaKernel" /\ Masked(f) => rows = 0..(RowCount(f) - 1)

\* A predicate that prunes, or filters rows, is one that the query asks for.
LEMMA WantedSatisfies ==
    ASSUME NEW f, NEW row, Wanted(f, row), NEW p
    PROVE  /\ p \in PruningPredicates => Satisfies(ValueOf(f, row), p)
           /\ p \in ExactRowPredicates => Satisfies(ValueOf(f, row), p)
<1>1. ASSUME NEW q \in input.filters, q.predicate # NotSet, p = q.predicate PROVE Satisfies(ValueOf(f, row), p)
  <2>1. PassesRow(f, row, q)
    BY DEF Wanted, Passes
  <2> QED
    BY <1>1, <2>1 DEF PassesRow
<1>2. ASSUME p \in PruningPredicates PROVE \E q \in input.filters : q.predicate # NotSet /\ p = q.predicate
  BY <1>2 DEF PruningPredicates
<1>3. ASSUME p \in ExactRowPredicates PROVE \E q \in input.filters : q.predicate # NotSet /\ p = q.predicate
  BY <1>3 DEF ExactRowPredicates
<1> QED
  BY <1>1, <1>2, <1>3

\* A planned file passes the partition part of every filter that is pushed down.
LEMMA PlannedPass ==
    ASSUME ValidInput(input), NEW f \in Range(PlannedFiles), NEW q \in input.filters, Pushdown(q) = "Exact"
    PROVE  PassesPart(f, q)
<1>1. Pushdown(q) # "Unsupported"
  OBVIOUS
<1>2. \A x \in input.filters : Pushdown(x) # "Unsupported" => PassesPart(f, x)
  BY PlannedFilesIs
<1> QED
  BY <1>1, <1>2

\* Which filters are exact.
LEMMA ExactKinds ==
    ASSUME ValidInput(input), NEW q \in input.filters, Pushdown(q) = "Exact"
    PROVE  \/ q.kind = "Partition" /\ q.predicate = NotSet
           \/ q.kind = "DataStats" /\ q.part = NotSet /\ input.backend = "Direct"
<1>1. ValidFilter(q)
  BY DEF ValidInput
<1>2. q.kind \in {"Unsupported", "Partition", "DataStats", "MixedAnd"}
  BY <1>1 DEF ValidFilter
<1>3. CASE q.kind = "Unsupported"
  BY <1>3 DEF Pushdown
<1>4. CASE q.kind = "Partition"
  BY <1>1, <1>4 DEF ValidFilter
<1>5. CASE q.kind = "DataStats"
  <2>1. Pushdown(q) = IF input.backend = "Direct" THEN "Exact" ELSE "Inexact"
    BY <1>5 DEF Pushdown
  <2>2. input.backend = "Direct"
    BY <2>1
  <2> QED
    BY <1>1, <1>5, <2>2 DEF ValidFilter
<1>6. CASE q.kind = "MixedAnd"
  BY <1>6 DEF Pushdown
<1> QED
  BY <1>2, <1>3, <1>4, <1>5, <1>6

LEMMA DirectRowsToRead ==
    ASSUME ValidInput(input), input.backend = "Direct", NEW task \in AnyTasks, task.file \in Range(PlannedFiles)
    PROVE  RowsToRead(task, DirectRows(task))
<1> DEFINE f == task.file
           file == input.files[f]
           groups == PrunedRowGroups(input.type, file.groups, task.range = Whole, task.range, PruningPredicates)
           rows == DirectRows(task)
<1>1. f \in Files
  BY DEF AnyTasks
<1>2. ASSUME NEW row
      PROVE  row \in rows <=> /\ row \in 0..(RowCount(f) - 1) /\ GroupOf(file.groups, row) \in groups
                              /\ \A p \in ExactRowPredicates : Satisfies(ValueOf(f, row), p)
  BY DEF DirectRows
<1>3. ASSUME NEW g
      PROVE  g \in groups <=> /\ g \in DOMAIN file.groups
                              /\ task.range = Whole \/ Owns(task.range, file.groups[g])
                              /\ MayContainMatchingRows(input.type, file.groups[g], PruningPredicates)
  BY DEF PrunedRowGroups
<1> HIDE DEF rows, groups
<1>4. ASSUME NEW row \in rows
      PROVE  /\ Reads(task, f, row)
             /\ \A q \in input.filters : Pushdown(q) = "Exact" => Passes(f, row, q)
  <2>1. task.range = Whole \/ Owns(task.range, file.groups[GroupOf(file.groups, row)])
    BY <1>2, <1>3
  <2>2. Reads(task, f, row)
    BY <2>1 DEF Reads
  <2>3. ASSUME NEW q \in input.filters, Pushdown(q) = "Exact" PROVE Passes(f, row, q)
    <3>1. PassesPart(f, q)
      BY <2>3, PlannedPass
    <3>2. CASE q.predicate = NotSet
      BY <3>1, <3>2 DEF Passes, PassesRow
    <3>3. CASE q.predicate # NotSet
      <4>1. q.part = NotSet
        BY <2>3, <3>3, ExactKinds
      <4>2. q.predicate \in ExactRowPredicates
        BY <2>3, <3>3, <4>1 DEF ExactRowPredicates
      <4>3. Satisfies(ValueOf(f, row), q.predicate)
        BY <1>2, <4>2
      <4> QED
        BY <3>1, <4>3 DEF Passes, PassesRow
    <3> QED
      BY <3>2, <3>3
  <2> QED
    BY <2>2, <2>3
<1>5. ASSUME NEW row \in 0..(RowCount(f) - 1), Reads(task, f, row), Wanted(f, row) PROVE row \in rows
  <2> DEFINE g == GroupOf(file.groups, row)
  <2>1. g \in DOMAIN file.groups
    BY <1>1, RowsLie
  <2>2. task.range = Whole \/ Owns(task.range, file.groups[g])
    BY <1>5 DEF Reads
  <2>3. MayContainMatchingRows(input.type, file.groups[g], PruningPredicates)
    <3> SUFFICES ASSUME ~MayContainMatchingRows(input.type, file.groups[g], PruningPredicates) PROVE FALSE
      OBVIOUS
    <3>1. PICK p \in PruningPredicates : ~Satisfies(ValueOf(f, row), p)
      BY <1>1, PrunedRowsFail
    <3> QED
      BY <1>5, <3>1, WantedSatisfies
  <2>4. g \in groups
    BY <1>3, <2>1, <2>2, <2>3
  <2>5. \A p \in ExactRowPredicates : Satisfies(ValueOf(f, row), p)
    BY <1>5, WantedSatisfies
  <2> QED
    BY <1>2, <2>4, <2>5
<1>6. rows \subseteq 0..(RowCount(f) - 1)
  BY <1>2
<1>7. input.backend # "DeltaKernel"
  OBVIOUS
<1> QED
  BY <1>4, <1>5, <1>6, <1>7 DEF RowsToRead, rows

LEMMA KernelRowsToRead ==
    ASSUME ValidInput(input), input.backend = "DeltaKernel", NEW task \in AnyTasks,
           task.file \in Range(PlannedFiles), task.range = Whole,
           NEW skipped \in {{}, UnmatchedRows(task.file)}
    PROVE  RowsToRead(task, KernelRows(task, skipped))
<1> DEFINE f == task.file
           rows == KernelRows(task, skipped)
<1>1. ASSUME NEW row
      PROVE  row \in rows <=> row \in 0..(RowCount(f) - 1)
                              /\ (input.files[f].deleted = NoVector => row \notin skipped)
  BY DEF KernelRows
<1> HIDE DEF rows
<1>2. ASSUME NEW row \in rows
      PROVE  /\ Reads(task, f, row)
             /\ \A q \in input.filters : Pushdown(q) = "Exact" => Passes(f, row, q)
  <2>1. Reads(task, f, row)
    BY DEF Reads
  <2>2. ASSUME NEW q \in input.filters, Pushdown(q) = "Exact" PROVE Passes(f, row, q)
    <3>1. PassesPart(f, q)
      BY <2>2, PlannedPass
    <3>2. q.predicate = NotSet
      <4>1. input.backend # "Direct"
        OBVIOUS
      <4> QED
        BY <2>2, <4>1, ExactKinds
    <3> QED
      BY <3>1, <3>2 DEF Passes, PassesRow
  <2> QED
    BY <2>1, <2>2
<1>3. ASSUME NEW row \in 0..(RowCount(f) - 1), Wanted(f, row) PROVE row \in rows
  <2>1. row \notin skipped
    <3> SUFFICES ASSUME row \in UnmatchedRows(f) PROVE FALSE
      OBVIOUS
    <3> DEFINE groups == input.files[f].groups
               Rows(g) == RowsUpTo(groups, g - 1)..(RowsUpTo(groups, g) - 1)
               Unmatched(h) == \A r \in Rows(h) : \E p \in PruningPredicates : ~Satisfies(ValueOf(f, r), p)
    <3>1. UnmatchedRows(f) = UNION {Rows(g) : g \in {h \in DOMAIN groups : Unmatched(h)}}
      BY Zenon DEF UnmatchedRows
    <3> HIDE DEF Rows
    <3>2. PICK h \in DOMAIN groups : row \in Rows(h) /\ Unmatched(h)
      BY <3>1
    <3>3. PICK p \in PruningPredicates : ~Satisfies(ValueOf(f, row), p)
      BY <3>2
    <3> QED
      BY <1>3, <3>3, WantedSatisfies
  <2> QED
    BY <1>1, <2>1
<1>4. Masked(f) => rows = 0..(RowCount(f) - 1)
  BY <1>1 DEF Masked
<1>5. rows \subseteq 0..(RowCount(f) - 1)
  BY <1>1
<1> QED
  BY <1>2, <1>3, <1>4, <1>5 DEF RowsToRead, rows

-----------------------------------------------------------------------------
(* Steps of a read.                                                        *)

LEMMA SameRead ==
    ASSUME input' = input, partitions' = partitions,
           NEW left, NEW filter, NEW r, NEW counts, NEW admitted
    PROVE  ReadOK(left, filter, r, counts, admitted)' <=> ReadOK(left, filter, r, counts, admitted)
<1>1. Tasks' = Tasks
  BY Zenon DEF Tasks
<1>2. Files' = Files
  BY InputOnly
<1>3. /\ \A f : RowCount(f)' = RowCount(f) /\ (Masked(f)' <=> Masked(f)) /\ (Beyond(f)' <=> Beyond(f))
      /\ \A f : PrunedByJoin(f)' <=> PrunedByJoin(f)
      /\ \A f, row : Wanted(f, row)' <=> Wanted(f, row)
      /\ \A task, f, row : Reads(task, f, row)' <=> Reads(task, f, row)
      /\ \A f, row, q : Pushdown(q)' = Pushdown(q) /\ (Passes(f, row, q)' <=> Passes(f, row, q))
  BY SameInput
<1>4. ASSUME NEW k, NEW f, NEW row PROVE Reads(Tasks[k], f, row)' <=> Reads(Tasks[k], f, row)
  BY <1>1, <1>3
<1>5. ASSUME NEW count, NEW inHand, NEW f, NEW row
      PROVE  RowOK(count, inHand, admitted, f, row)' <=> RowOK(count, inHand, admitted, f, row)
  BY <1>3, <1>4 DEF RowOK
<1>6. RowsOK(counts, r, admitted)' <=> RowsOK(counts, r, admitted)
  <2>1. ASSUME NEW f, NEW row
        PROVE  RowOK(counts[f][row], InHand(r, f, row), admitted, f, row)'
                 <=> RowOK(counts[f][row], InHand(r, f, row), admitted, f, row)
    <3>1. RowOK(counts[f][row], InHand(r, f, row), admitted, f, row)'
            <=> RowOK(counts[f][row], r.file = f /\ row \in Range(r.rows), admitted, f, row)'
      BY DEF InHand
    <3> QED
      BY <1>5, <3>1 DEF InHand
  <2> QED
    BY <1>2, <1>3, <2>1 DEF RowsOK
<1>7. ASSUME NEW m, NEW f, NEW rows PROVE MaskerOK(m, f, rows)' <=> MaskerOK(m, f, rows)
  BY <1>3, Zenon DEF MaskerOK
<1>8. OpenOK(r, r.file, admitted)' <=> OpenOK(r, r.file, admitted)
  <2>1. ASSUME NEW f PROVE OpenOK(r, f, admitted)' <=> OpenOK(r, f, admitted)
    <3>1. (r.rows \in Seq(0..(RowCount(f) - 1)))' <=> r.rows \in Seq(0..(RowCount(f) - 1))
      BY <1>3
    <3>2. ASSUME NEW row
          PROVE  /\ Reads(Tasks[admitted], f, row)' <=> Reads(Tasks[admitted], f, row)
                 /\ (\A q \in input.filters : Pushdown(q) = "Exact" => Passes(f, row, q))'
                      <=> \A q \in input.filters : Pushdown(q) = "Exact" => Passes(f, row, q)
      BY <1>3, <1>4
    <3>3. (Masked(f) => MaskerOK(r.masker, f, r.rows))' <=> (Masked(f) => MaskerOK(r.masker, f, r.rows))
      BY <1>3, <1>7
    <3>4. (f \in Files /\ admitted >= 1 /\ Tasks[admitted].file = f)'
            <=> (f \in Files /\ admitted >= 1 /\ Tasks[admitted].file = f)
      BY <1>1, <1>2
    <3> QED
      BY <3>1, <3>2, <3>3, <3>4, Zenon DEF OpenOK
  <2> QED
    BY <2>1
<1>9. BeyondOK(r, admitted)' <=> BeyondOK(r, admitted)
  <2>1. ASSUME NEW k PROVE /\ Beyond(Tasks[k].file)' <=> Beyond(Tasks[k].file)
                           /\ PrunedByJoin(Tasks[k].file)' <=> PrunedByJoin(Tasks[k].file)
    BY <1>1, <1>3
  <2> QED
    BY <2>1 DEF BeyondOK, Idle
<1> QED
  BY <1>1, <1>6, <1>8, <1>9, Zenon DEF ReadOK, Idle

LEMMA ReadNext ==
    ASSUME input' = input, partitions' = partitions
    PROVE  /\ ReadInv' <=> ReadOK(todo', dynamicFilter', reading', returned', Len(Tasks) - Len(todo'))
           /\ Admitted' = Len(Tasks) - Len(todo')
<1>1. Tasks' = Tasks
  BY Zenon DEF Tasks
<1>2. Admitted' = Len(Tasks) - Len(todo')
  BY <1>1 DEF Admitted
<1>3. ReadInv' <=> ReadOK(todo, dynamicFilter, reading, returned, Admitted)'
  BY DEF ReadInv
<1>4. ReadOK(todo, dynamicFilter, reading, returned, Admitted)'
        <=> ReadOK(todo', dynamicFilter', reading', returned', Admitted')
  BY SameRead
<1> QED
  BY <1>2, <1>3, <1>4

LEMMA IdleHolds ==
    ASSUME ValidInput(input), NEW f \in Files
    PROVE  f # 0 /\ \A row : ~InHand(Idle, f, row)
BY DEF ValidInput, Files, Idle, InHand

\* Nothing is admitted yet.
LEMMA ReadStarts ==
    ASSUME ValidInput(input), FilledPlan, NEW counts,
           \A f \in Files : \A row \in 0..(RowCount(f) - 1) : counts[f][row] = 0
    PROVE  ReadOK(Tasks, NotSet, Idle, counts, 0)
<1>1. Tasks \in Seq(AnyTasks) /\ Len(Tasks) \in Nat
  BY TasksAre
<1> DEFINE n == Len(Tasks)
<1>2. Tasks = SubSeq(Tasks, 0 + 1, n) /\ 0 \in 0..n
  BY <1>1
<1>3. RowsOK(counts, Idle, 0)
  <2>1. \A k \in 1..0 : FALSE
    OBVIOUS
  <2> QED
    BY <2>1 DEF RowsOK, RowOK
<1>4. BeyondOK(Idle, 0)
  BY DEF BeyondOK
<1> QED
  BY <1>2, <1>3, <1>4 DEF ReadOK

\* A task that the join's filter rules out is dropped.
LEMMA ReadSkips ==
    ASSUME NEW left, NEW filter, NEW counts, NEW n \in Nat, FilledPlan, n < Len(Tasks),
           ReadOK(left, filter, Idle, counts, n),
           PrunedByJoin(Tasks[n + 1].file)
    PROVE  ReadOK(Tail(left), filter, Idle, counts, n + 1)
<1>1. Tasks \in Seq(AnyTasks) /\ Len(Tasks) \in Nat
  BY TasksAre
<1>2. n + 1 \in 0..Len(Tasks) /\ Tail(left) = SubSeq(Tasks, (n + 1) + 1, Len(Tasks))
  <2>1. left = SubSeq(Tasks, n + 1, Len(Tasks))
    BY DEF ReadOK
  <2> QED
    BY <1>1, <2>1
<1>3. \A k \in 1..(n + 1) : k \in 1..n \/ k = n + 1
  OBVIOUS
<1>4. RowsOK(counts, Idle, n + 1)
  <2> SUFFICES ASSUME NEW f \in Files, NEW row \in 0..(RowCount(f) - 1)
               PROVE  RowOK(counts[f][row], InHand(Idle, f, row), n + 1, f, row)
    BY DEF RowsOK
  <2>1. RowOK(counts[f][row], InHand(Idle, f, row), n, f, row)
    BY DEF ReadOK, RowsOK
  <2>2. Reads(Tasks[n + 1], f, row) => PrunedByJoin(f)
    BY DEF Reads
  <2>3. \A k \in 1..n : k \in 1..(n + 1)
    OBVIOUS
  <2> QED
    BY <1>3, <2>1, <2>2, <2>3 DEF RowOK
<1>5. BeyondOK(Idle, n + 1)
  BY <1>3 DEF ReadOK, BeyondOK
<1> QED
  BY <1>2, <1>4, <1>5 DEF ReadOK

LEMMA AscendingFromZero ==
    ASSUME NEW n \in Nat
    PROVE  Ascending(0..(n - 1)) = [i \in 1..n |-> i - 1]
<1> DEFINE S == 0..(n - 1)
<1>1. Ascending(S) = [k \in 1..Cardinality(S) |-> CHOOSE x \in S : Cardinality({y \in S : y < x}) = k - 1]
  BY DEF Ascending, InOrder
<1>2. Cardinality(S) = n
  BY FS_Interval
<1>3. ASSUME NEW x \in S PROVE Cardinality({y \in S : y < x}) = x
  <2>1. {y \in S : y < x} = 0..(x - 1)
    OBVIOUS
  <2>2. Cardinality(0..(x - 1)) = x
    BY FS_Interval
  <2> QED
    BY <2>1, <2>2
<1> HIDE DEF S
<1>4. ASSUME NEW k \in 1..n PROVE (CHOOSE x \in S : Cardinality({y \in S : y < x}) = k - 1) = k - 1
  <2>1. k - 1 \in S
    BY DEF S
  <2> DEFINE Least(x) == Cardinality({y \in S : y < x})
             c == CHOOSE x \in S : Least(x) = k - 1
  <2>2. \A x \in S : Least(x) = x
    BY <1>3
  <2> HIDE DEF Least
  <2>3. \E x \in S : Least(x) = k - 1
    BY <2>1, <2>2
  <2>4. c \in S /\ Least(c) = k - 1
    BY <2>3
  <2>5. c = k - 1
    BY <2>2, <2>4
  <2> QED
    BY <2>5 DEF Least
<1>5. Ascending(S) = [k \in 1..n |-> k - 1]
  <2> DEFINE c(k) == CHOOSE x \in S : Cardinality({y \in S : y < x}) = k - 1
  <2>1. Ascending(S) = [k \in 1..n |-> c(k)]
    BY <1>1, <1>2, Zenon
  <2>2. \A k \in 1..n : c(k) = k - 1
    BY <1>4
  <2> HIDE DEF c
  <2> QED
    BY <2>1, <2>2
<1> QED
  BY <1>5 DEF S

LEMMA OpenedIs ==
    ASSUME ValidInput(input), NEW task, NEW rows, task.file \in Files, RowsToRead(task, rows)
    PROVE  LET r == Opened(task, rows)
               f == task.file
           IN  /\ r = [file |-> f, rows |-> r.rows, masker |-> r.masker]
               /\ r.rows \in Seq(0..(RowCount(f) - 1)) /\ Range(r.rows) = rows
               /\ \A j, k \in DOMAIN r.rows : j < k => r.rows[j] < r.rows[k]
               /\ Masked(f) => MaskerOK(r.masker, f, r.rows)
<1> DEFINE r == Opened(task, rows)
           f == task.file
           s == Ascending(rows)
           all == 0..(RowCount(f) - 1)
<1>1. r = [file |-> f, rows |-> s,
           masker |-> IF Masked(f) THEN NewMasker(input.files[f].deleted) ELSE NoVector]
  BY Zenon DEF Opened
<1>2. rows \in SUBSET all /\ IsFiniteSet(all) /\ RowCount(f) \in Nat
  <2>1. RowCount(f) \in Nat
    BY RowsLie
  <2> QED
    BY <2>1, FS_Interval DEF RowsToRead
<1>3. IsFiniteSet(rows) /\ rows \subseteq Int
  <2> HIDE DEF all
  <2>1. IsFiniteSet(rows)
    BY <1>2, FS_Subset
  <2> QED
    BY <1>2, <2>1 DEF all
<1> HIDE DEF r
<1>4. IsAscending(s, rows)
  BY <1>3, AscendingIs, Zenon
<1>5. ASSUME Masked(f), input.backend = "DeltaKernel" PROVE s = [i \in 1..RowCount(f) |-> i - 1]
  <2>1. rows = all
    BY <1>5 DEF RowsToRead
  <2> QED
    BY <1>2, <2>1, AscendingFromZero
<1> HIDE DEF s
<1>6. r.file = f /\ r.rows = s
  BY <1>1
<1>7. s \in Seq(rows) /\ DOMAIN s = 1..Len(s) /\ (\A x \in rows : \E k \in 1..Len(s) : s[k] = x)
      /\ \A j, k \in 1..Len(s) : j < k => s[j] < s[k]
  BY <1>4 DEF IsAscending
<1>8. s \in Seq(all)
  <2> HIDE DEF all
  <2> QED
    BY <1>2, <1>7
<1>9. Range(s) = rows
  BY <1>7 DEF Range
<1>10. ASSUME Masked(f) PROVE MaskerOK(r.masker, f, s)
  <2> DEFINE m == NewMasker(input.files[f].deleted)
  <2>1. r.masker = m
    BY <1>1, <1>10
  <2>2. /\ m.rows = DeletionVectorRows(input.files[f].deleted) /\ m.consumed = 0 /\ m.mode = "Unused"
        /\ m = [rows |-> m.rows, consumed |-> m.consumed, mode |-> m.mode]
    BY DEF NewMasker
  <2> HIDE DEF m
  <2>3. ASSUME input.backend = "DeltaKernel"
        PROVE  m.consumed <= RowCount(f) /\ s = [i \in 1..(RowCount(f) - m.consumed) |-> m.consumed + i - 1]
    <3>1. RowCount(f) - m.consumed = RowCount(f) /\ \A i \in 1..RowCount(f) : m.consumed + i - 1 = i - 1
      BY <1>2, <2>2
    <3>2. s = [i \in 1..RowCount(f) |-> i - 1]
      BY <1>5, <1>10, <2>3
    <3> QED
      BY <1>2, <2>2, <3>1, <3>2
  <2> QED
    BY <2>1, <2>2, <2>3 DEF MaskerOK
<1>11. r = [file |-> f, rows |-> r.rows, masker |-> r.masker]
  BY <1>1
<1> QED
  BY <1>6, <1>7, <1>8, <1>9, <1>10, <1>11 DEF r

\* A task is admitted and its file opened.
LEMMA ReadOpens ==
    ASSUME ValidInput(input), FilledPlan, NEW left, NEW filter, NEW counts, NEW n \in Nat, n < Len(Tasks),
           ReadOK(left, filter, Idle, counts, n), NEW rows, RowsToRead(Tasks[n + 1], rows)
    PROVE  ReadOK(Tail(left), filter, Opened(Tasks[n + 1], rows), counts, n + 1)
<1> DEFINE task == Tasks[n + 1]
           f == task.file
           r == Opened(task, rows)
<1>1. Tasks \in Seq(AnyTasks) /\ Len(Tasks) \in Nat /\ n + 1 \in 1..Len(Tasks)
  BY TasksAre
<1>2. n + 1 \in 0..Len(Tasks) /\ Tail(left) = SubSeq(Tasks, (n + 1) + 1, Len(Tasks))
  <2>1. left = SubSeq(Tasks, n + 1, Len(Tasks))
    BY DEF ReadOK
  <2> QED
    BY <1>1, <2>1
<1>3. \A k \in 1..(n + 1) : k \in 1..n \/ k = n + 1
  OBVIOUS
<1>4. f \in Files
  BY <1>1, PlannedHaveTasks
<1>5. /\ r = [file |-> f, rows |-> r.rows, masker |-> r.masker]
      /\ r.rows \in Seq(0..(RowCount(f) - 1)) /\ Range(r.rows) = rows
      /\ \A j, k \in DOMAIN r.rows : j < k => r.rows[j] < r.rows[k]
      /\ Masked(f) => MaskerOK(r.masker, f, r.rows)
  BY <1>4, OpenedIs
<1> HIDE DEF r
<1>6. r.file = f /\ r # Idle
  <2>1. r.file = f
    BY <1>5
  <2>2. Idle.file = 0 /\ f # 0
    BY <1>4, IdleHolds DEF Idle
  <2> QED
    BY <2>1, <2>2
<1>7. OpenOK(r, r.file, n + 1)
  <2>1. \A row \in rows :
          /\ Reads(Tasks[n + 1], f, row)
          /\ \A q \in input.filters : Pushdown(q) = "Exact" => Passes(f, row, q)
    BY DEF RowsToRead
  <2>2. n + 1 >= 1
    OBVIOUS
  <2> QED
    BY <1>4, <1>5, <1>6, <2>1, <2>2, Zenon DEF OpenOK
<1>8. RowsOK(counts, r, n + 1)
  <2> SUFFICES ASSUME NEW g \in Files, NEW row \in 0..(RowCount(g) - 1)
               PROVE  RowOK(counts[g][row], InHand(r, g, row), n + 1, g, row)
    BY DEF RowsOK
  <2>1. RowOK(counts[g][row], InHand(Idle, g, row), n, g, row)
    BY DEF ReadOK, RowsOK
  <2>2. ~InHand(Idle, g, row)
    BY IdleHolds
  <2>3. InHand(r, g, row) <=> g = f /\ row \in rows
    BY <1>5, <1>6 DEF InHand
  <2>4. OneReader(g, row)
    BY RowsHaveOneReader
  <2>5. InHand(r, g, row) => Reads(Tasks[n + 1], g, row)
    BY <2>3 DEF RowsToRead
  <2>6. ASSUME NEW k \in 1..n, Reads(Tasks[k], g, row) PROVE ~InHand(r, g, row)
    <3>1. k \in 1..Len(Tasks) /\ k # n + 1
      BY <1>1
    <3> QED
      BY <1>1, <2>4, <2>5, <2>6, <3>1 DEF OneReader
  <2>7. ASSUME Wanted(g, row), Reads(Tasks[n + 1], g, row) PROVE InHand(r, g, row)
    <3>1. g = f
      BY <2>7 DEF Reads
    <3>2. row \in rows
      BY <2>7, <3>1 DEF RowsToRead
    <3> QED
      BY <2>3, <3>1, <3>2
  <2>8. \A k \in 1..n : k \in 1..(n + 1)
    OBVIOUS
  <2>9. counts[g][row] \in {0, 1}
    BY <2>1 DEF RowOK
  <2>10. ASSUME counts[g][row] = 1
         PROVE  Wanted(g, row) /\ ~InHand(r, g, row) /\ \E k \in 1..(n + 1) : Reads(Tasks[k], g, row)
    <3>1. Wanted(g, row) /\ \E k \in 1..n : Reads(Tasks[k], g, row)
      BY <2>1, <2>10 DEF RowOK
    <3> QED
      BY <2>6, <2>8, <3>1
  <2>11. ASSUME Wanted(g, row), ~PrunedByJoin(g), ~InHand(r, g, row), NEW k \in 1..(n + 1), Reads(Tasks[k], g, row)
         PROVE  counts[g][row] = 1
    <3>1. k \in 1..n
      BY <1>3, <2>7, <2>11
    <3> QED
      BY <2>1, <2>2, <2>11, <3>1 DEF RowOK
  <2> QED
    BY <2>9, <2>10, <2>11, Zenon DEF RowOK
<1>9. BeyondOK(r, n + 1)
  BY <1>3, <1>6 DEF ReadOK, BeyondOK
<1> QED
  BY <1>2, <1>7, <1>8, <1>9 DEF ReadOK, r

\* The parts of ReadBatch.
BatchLen(r) == Bounded(input.batchRows, Len(r.rows))
Batch(r) == SubSeq(r.rows, 1, BatchLen(r))
Keep(r) ==
    IF ~Masked(r.file) THEN [k \in 1..BatchLen(r) |-> TRUE]
    ELSE IF input.backend = "Direct" THEN MaskOriginal(r.masker.rows, Batch(r))
    ELSE MaskOrdered(r.masker.rows, r.masker.consumed, BatchLen(r))
Out(r) == {Batch(r)[k] : k \in {j \in 1..BatchLen(r) : Keep(r)[j] /\ Residual(r.file, Batch(r)[j])}}
MaskerAfter(r) ==
    IF ~Masked(r.file) THEN NoVector
    ELSE IF input.backend = "Direct" THEN AfterOriginal(r.masker) ELSE AfterOrdered(r.masker, BatchLen(r))
After(r) ==
    [r EXCEPT !.rows = SubSeq(@, BatchLen(r) + 1, Len(@)), !.masker = MaskerAfter(r)]

LEMMA BatchIs ==
    ASSUME ValidInput(input), NEW r, NEW f, NEW n, OpenOK(r, f, n), r.rows # <<>>
    PROVE  LET len == BatchLen(r)
           IN  /\ Len(r.rows) \in Nat /\ len \in 1..Len(r.rows) /\ r.file = f /\ RowCount(f) \in Nat
               /\ Len(Batch(r)) = len /\ DOMAIN Batch(r) = 1..len /\ \A k \in 1..len : Batch(r)[k] = r.rows[k]
               /\ \A k \in 1..Len(r.rows) : r.rows[k] \in 0..(RowCount(f) - 1)
               /\ After(r).file = f /\ After(r).masker = MaskerAfter(r)
               /\ After(r) = [file |-> f, rows |-> After(r).rows, masker |-> After(r).masker]
               /\ After(r).rows \in Seq(0..(RowCount(f) - 1)) /\ Len(After(r).rows) = Len(r.rows) - len
               /\ \A k \in 1..(Len(r.rows) - len) : After(r).rows[k] = r.rows[len + k]
<1> DEFINE len == BatchLen(r)
           rows == r.rows
           all == 0..(RowCount(f) - 1)
           rest == SubSeq(rows, len + 1, Len(rows))
<1>1. rows \in Seq(all) /\ r = [file |-> f, rows |-> r.rows, masker |-> r.masker] /\ f \in Files
  BY DEF OpenOK
<1>2. RowCount(f) \in Nat
  BY <1>1, RowsLie
<1>3. input.batchRows \in Nat \ {0}
  BY DEF ValidInput
<1>4. After(r) = [file |-> f, rows |-> rest, masker |-> MaskerAfter(r)]
  <2> DEFINE old == r.rows
             masker == r.masker
             next == MaskerAfter(r)
  <2>1. After(r) = [r EXCEPT !.rows = rest, !.masker = next]
    BY Zenon DEF After
  <2>2. r = [file |-> f, rows |-> old, masker |-> masker]
    BY <1>1
  <2> HIDE DEF old, masker, rest, next
  <2>3. [r EXCEPT !.rows = rest, !.masker = next] = [file |-> f, rows |-> rest, masker |-> next]
    <3>1. [r EXCEPT !.rows = rest] = [file |-> f, rows |-> rest, masker |-> masker]
      BY ONLY <2>2
    <3> DEFINE s == [r EXCEPT !.rows = rest]
    <3>2. s = [file |-> f, rows |-> rest, masker |-> masker]
      BY <3>1
    <3> HIDE DEF s
    <3>3. [s EXCEPT !.masker = next] = [file |-> f, rows |-> rest, masker |-> next]
      BY ONLY <3>2
    <3> QED
      BY <3>3, Zenon DEF s
  <2> QED
    BY <2>1, <2>3 DEF next
<1> HIDE DEF all
<1>5. Len(rows) \in Nat \ {0} /\ DOMAIN rows = 1..Len(rows) /\ \A k \in 1..Len(rows) : rows[k] \in all
  BY <1>1
<1>6. len \in 1..Len(rows)
  BY <1>3, <1>5 DEF BatchLen, Bounded
<1>7. Batch(r) = SubSeq(rows, 1, len)
  BY DEF Batch
<1> HIDE DEF rows, len
<1>8. Len(Batch(r)) = len /\ DOMAIN Batch(r) = 1..len /\ \A k \in 1..len : Batch(r)[k] = rows[k]
  <2>1. rows \in Seq(all) /\ Len(rows) \in Nat /\ len \in 1..Len(rows)
    BY <1>1, <1>5, <1>6 DEF rows
  <2>2. Batch(r) = [i \in 1..len |-> rows[i]]
    <3>1. SubSeq(rows, 1, len) = [i \in 1..len |-> rows[i]]
      BY ONLY <2>1
    <3> QED
      BY <1>7, <3>1
  <2>3. len \in Nat /\ \A i \in 1..len : rows[i] \in all
    BY <1>5, <2>1
  <2> QED
    BY ONLY <2>2, <2>3
<1>9. /\ rest \in Seq(all) /\ Len(rest) = Len(rows) - len
      /\ \A k \in 1..(Len(rows) - len) : rest[k] = rows[len + k]
  <2>1. rows \in Seq(all) /\ Len(rows) \in Nat /\ len \in 1..Len(rows)
    BY <1>1, <1>5, <1>6 DEF rows
  <2>2. len + 1 \in 1..(Len(rows) + 1)
    BY <2>1
  <2>3. rest = [i \in 1..(Len(rows) - len) |-> rows[len + i]]
    BY <2>1
  <2>4. \A i \in 1..(Len(rows) - len) : rows[len + i] \in all
    BY <1>5, <2>1
  <2>5. Len(rows) - len \in Nat
    BY <2>1
  <2> HIDE DEF rest
  <2>6. rest \in [1..(Len(rows) - len) -> all]
    BY <2>3, <2>4
  <2>7. rest \in Seq(all) /\ Len(rest) = Len(rows) - len
    BY <2>5, <2>6
  <2> QED
    BY <2>3, <2>7
<1> HIDE DEF rest
<1>10. /\ After(r).file = f /\ After(r).masker = MaskerAfter(r) /\ After(r).rows = rest
       /\ After(r) = [file |-> f, rows |-> After(r).rows, masker |-> After(r).masker] /\ r.file = f
  <2>1. r.file = f
    BY <1>1
  <2> QED
    BY ONLY <1>4, <2>1
<1> QED
  BY <1>2, <1>5, <1>6, <1>8, <1>9, <1>10 DEF rows, len, all

\* Masking, by row numbers or by counting, keeps the live rows of the batch.
LEMMA KeepIs ==
    ASSUME ValidInput(input), NEW r, NEW f, NEW n, OpenOK(r, f, n), r.rows # <<>>, NEW k \in 1..BatchLen(r)
    PROVE  Keep(r)[k] <=> LiveRow(f, Batch(r)[k])
<1> DEFINE len == BatchLen(r)
           row == Batch(r)[k]
           deleted == input.files[f].deleted
           m == r.masker
<1>1. /\ Len(r.rows) \in Nat /\ len \in 1..Len(r.rows) /\ r.file = f /\ RowCount(f) \in Nat
      /\ DOMAIN Batch(r) = 1..len /\ row = r.rows[k]
      /\ r.rows[k] \in 0..(RowCount(f) - 1)
  BY BatchIs
<1>2. row \in Nat /\ len \in Nat
  BY <1>1
<1>3. CASE ~Masked(f)
  <2>1. Keep(r)[k] = TRUE
    BY <1>1, <1>3 DEF Keep
  <2> QED
    BY <1>3, <2>1 DEF Masked, LiveRow
<1>4. CASE Masked(f)
  <2>1. deleted \subseteq Nat /\ IsFiniteSet(deleted) /\ deleted # NoVector
    <3>1. f \in Files
      BY DEF OpenOK
    <3>2. ValidFile(input, input.files[f])
      BY <3>1, ValidFiles
    <3> QED
      BY <1>4, <3>2 DEF ValidFile, Masked
  <2>2. LiveRow(f, row) <=> row \notin deleted
    BY <2>1 DEF LiveRow
  <2>3. MaskerOK(m, f, r.rows)
    BY <1>4 DEF OpenOK
  <2>4. m.rows = DeletionVectorRows(deleted) /\ m.consumed \in Nat
    BY <2>3 DEF MaskerOK
  <2>5. CASE input.backend = "Direct"
    <3>1. Keep(r) = MaskOriginal(m.rows, Batch(r))
      BY <1>1, <1>4, <2>5 DEF Keep
    <3>2. MaskOriginal(DeletionVectorRows(deleted), Batch(r))[k] <=> Batch(r)[k] \notin deleted
      <4>1. k \in DOMAIN Batch(r) /\ Batch(r)[k] \in Nat
        BY <1>1, <1>2
      <4> HIDE DEF deleted
      <4> QED
        BY <2>1, <4>1, MaskOriginalIs
    <3> QED
      BY <2>2, <2>4, <3>1, <3>2
  <2>6. CASE input.backend = "DeltaKernel"
    <3>1. Keep(r) = MaskOrdered(m.rows, m.consumed, len)
      BY <1>1, <1>4, <2>6 DEF Keep
    <3>2. MaskOrdered(DeletionVectorRows(deleted), m.consumed, len)[k] <=> m.consumed + k - 1 \notin deleted
      <4> HIDE DEF deleted, m, len
      <4> QED
        BY <1>2, <2>1, <2>4, MaskOrderedIs DEF len
    <3>3. r.rows = [i \in 1..(RowCount(f) - m.consumed) |-> m.consumed + i - 1]
      BY <2>3, <2>6 DEF MaskerOK
    <3>4. k \in 1..(RowCount(f) - m.consumed)
      <4> DEFINE d == RowCount(f) - m.consumed
      <4>1. d \in Int /\ DOMAIN r.rows = 1..d
        BY <1>1, <2>4, <3>3
      <4>2. DOMAIN r.rows = 1..Len(r.rows)
        BY DEF OpenOK
      <4>3. k \in 1..Len(r.rows)
        BY <1>1
      <4> QED
        BY <4>1, <4>2, <4>3
    <3>5. row = m.consumed + k - 1
      BY <1>1, <3>3, <3>4
    <3> QED
      BY <2>2, <2>4, <3>1, <3>2, <3>5
  <2> QED
    BY <2>5, <2>6 DEF ValidInput
<1> QED
  BY <1>3, <1>4

\* So the rows of the batch that leave are those the query wants.
LEMMA OutIs ==
    ASSUME ValidInput(input), NEW r, NEW f, NEW n, OpenOK(r, f, n), r.rows # <<>>
    PROVE  \A row : row \in Out(r) <=> Wanted(f, row) /\ \E k \in 1..BatchLen(r) : r.rows[k] = row
<1> DEFINE len == BatchLen(r)
<1>1. /\ Len(r.rows) \in Nat /\ len \in 1..Len(r.rows) /\ r.file = f /\ DOMAIN r.rows = 1..Len(r.rows)
      /\ \A k \in 1..len : Batch(r)[k] = r.rows[k]
  <2>1. DOMAIN r.rows = 1..Len(r.rows)
    BY DEF OpenOK
  <2> QED
    BY <2>1, BatchIs
<1>2. ASSUME NEW k \in 1..len
      PROVE  Keep(r)[k] /\ Residual(f, r.rows[k]) <=> Wanted(f, r.rows[k])
  <2> DEFINE row == r.rows[k]
  <2>1. Keep(r)[k] <=> LiveRow(f, row)
    BY <1>1, KeepIs
  <2>2. row \in Range(r.rows)
    <3>1. k \in DOMAIN r.rows
      BY <1>1
    <3> QED
      BY <3>1 DEF Range
  <2>3. \A q \in input.filters : Pushdown(q) = "Exact" => Passes(f, row, q)
    BY <2>2 DEF OpenOK
  <2> QED
    BY <2>1, <2>3 DEF Wanted, Residual
<1>3. ASSUME NEW row
      PROVE  row \in Out(r) <=> \E k \in 1..len : Keep(r)[k] /\ Residual(f, r.rows[k]) /\ r.rows[k] = row
  BY <1>1 DEF Out
<1> QED
  BY <1>2, <1>3

\* What remains in hand after a batch.
LEMMA RestIs ==
    ASSUME ValidInput(input), NEW r, NEW f, NEW n, OpenOK(r, f, n), r.rows # <<>>
    PROVE  LET InBatch(row) == \E k \in 1..BatchLen(r) : r.rows[k] = row
           IN  \A row : /\ InHand(After(r), f, row) => InHand(r, f, row) /\ ~InBatch(row)
                        /\ InHand(r, f, row) => InBatch(row) \/ InHand(After(r), f, row)
                        /\ InBatch(row) => InHand(r, f, row)
<1> DEFINE len == BatchLen(r)
           rows == r.rows
           all == 0..(RowCount(f) - 1)
           rest == After(r).rows
           size == Len(rows)
<1>1. /\ size \in Nat /\ len \in 1..size /\ r.file = f /\ RowCount(f) \in Nat
      /\ \A k \in 1..size : rows[k] \in all
      /\ After(r).file = f /\ rest \in Seq(all) /\ Len(rest) = size - len
      /\ \A k \in 1..(size - len) : rest[k] = rows[len + k]
  BY BatchIs
<1>2. DOMAIN rows = 1..size /\ \A j, k \in 1..size : j < k => rows[j] < rows[k]
  <2>1. rows \in Seq(all) /\ \A j, k \in DOMAIN rows : j < k => rows[j] < rows[k]
    BY DEF OpenOK
  <2>2. DOMAIN rows = 1..size
    BY <2>1
  <2> QED
    BY <2>1, <2>2
<1>3. DOMAIN rest = 1..(size - len)
  <2> HIDE DEF all
  <2> QED
    BY <1>1
<1> HIDE DEF len, rows, rest, size
<1>4. ASSUME NEW row PROVE InHand(r, f, row) <=> \E k \in 1..size : rows[k] = row
  BY <1>1, <1>2 DEF InHand, Range, rows
<1>5. ASSUME NEW row PROVE InHand(After(r), f, row) <=> \E k \in 1..(size - len) : rows[len + k] = row
  BY <1>1, <1>3 DEF InHand, Range, rest
<1>6. ASSUME NEW row, NEW k \in 1..(size - len), rows[len + k] = row, NEW j \in 1..len PROVE rows[j] # row
  <2>1. j \in 1..size /\ len + k \in 1..size /\ j < len + k
    BY <1>1
  <2>2. rows[j] < rows[len + k] /\ rows[j] \in Int /\ rows[len + k] \in Int
    BY <1>1, <1>2, <2>1
  <2> QED
    BY <1>6, <2>2
<1>7. ASSUME NEW k \in 1..(size - len) PROVE len + k \in 1..size
  BY <1>1
<1>8. ASSUME NEW k \in 1..size PROVE k \in 1..len \/ (k - len \in 1..(size - len) /\ len + (k - len) = k)
  BY <1>1
<1>9. ASSUME NEW k \in 1..len PROVE k \in 1..size
  BY <1>1
<1>10. ASSUME NEW row, InHand(After(r), f, row)
       PROVE  InHand(r, f, row) /\ ~\E k \in 1..len : rows[k] = row
  BY <1>4, <1>5, <1>6, <1>7, <1>10
<1>11. ASSUME NEW row, InHand(r, f, row)
       PROVE  (\E k \in 1..len : rows[k] = row) \/ InHand(After(r), f, row)
  <2>1. PICK k \in 1..size : rows[k] = row
    BY <1>4, <1>11
  <2>2. CASE k \in 1..len
    BY <2>1, <2>2
  <2>3. CASE k - len \in 1..(size - len) /\ len + (k - len) = k
    <3>1. rows[len + (k - len)] = row
      BY <2>1, <2>3
    <3> QED
      BY <1>5, <2>3, <3>1
  <2> QED
    BY <1>8, <2>2, <2>3
<1>12. ASSUME NEW row, \E k \in 1..len : rows[k] = row PROVE InHand(r, f, row)
  BY <1>4, <1>9, <1>12
<1> QED
  BY <1>10, <1>11, <1>12 DEF len, rows

LEMMA MaskerAfterOK ==
    ASSUME ValidInput(input), NEW r, NEW f, NEW n, OpenOK(r, f, n), r.rows # <<>>, Masked(f)
    PROVE  MaskerOK(MaskerAfter(r), f, After(r).rows)
<1> DEFINE len == BatchLen(r)
           m == r.masker
           a == m.rows
           c == m.consumed
           mode == m.mode
           next == MaskerAfter(r)
           rest == After(r).rows
<1>1. /\ Len(r.rows) \in Nat /\ len \in 1..Len(r.rows) /\ r.file = f /\ RowCount(f) \in Nat
      /\ rest \in Seq(0..(RowCount(f) - 1)) /\ Len(rest) = Len(r.rows) - len
      /\ \A k \in 1..(Len(r.rows) - len) : rest[k] = r.rows[len + k]
  BY BatchIs
<1>2. MaskerOK(m, f, r.rows)
  BY DEF OpenOK
<1>3. /\ a = DeletionVectorRows(input.files[f].deleted) /\ c \in Nat
      /\ m = [rows |-> a, consumed |-> c, mode |-> mode]
  BY <1>2 DEF MaskerOK
<1> HIDE DEF a, c, mode, m
<1>4. CASE input.backend = "Direct"
  <2>1. next = [m EXCEPT !.mode = "OriginalRowIndex"]
    BY <1>1, <1>4 DEF MaskerAfter, AfterOriginal, m
  <2>2. [m EXCEPT !.mode = "OriginalRowIndex"] = [rows |-> a, consumed |-> c, mode |-> "OriginalRowIndex"]
    BY ONLY <1>3
  <2>3. next = [rows |-> a, consumed |-> c, mode |-> "OriginalRowIndex"]
    BY <2>1, <2>2
  <2> HIDE DEF next
  <2>4. next.rows = a /\ next.consumed = c /\ next.mode = "OriginalRowIndex"
        /\ next = [rows |-> next.rows, consumed |-> next.consumed, mode |-> next.mode]
    BY ONLY <2>3
  <2> QED
    BY <1>3, <1>4, <2>4 DEF MaskerOK, next
<1>5. CASE input.backend = "DeltaKernel"
  <2>1. next = [m EXCEPT !.consumed = c + len, !.mode = "Ordered"]
    BY <1>1, <1>5, Zenon DEF MaskerAfter, AfterOrdered, m, c
  <2>2. next = [rows |-> a, consumed |-> c + len, mode |-> "Ordered"]
    <3> DEFINE s == [m EXCEPT !.consumed = c + len]
               d == c + len
    <3>1. s = [m EXCEPT !.consumed = d]
      OBVIOUS
    <3> HIDE DEF s, d
    <3>2. s = [rows |-> a, consumed |-> d, mode |-> mode]
      BY ONLY <1>3, <3>1
    <3>3. [s EXCEPT !.mode = "Ordered"] = [rows |-> a, consumed |-> d, mode |-> "Ordered"]
      BY ONLY <3>2
    <3> QED
      BY <2>1, <3>3, Zenon DEF s, d
  <2> HIDE DEF next
  <2>3. next.rows = a /\ next.consumed = c + len /\ next.mode = "Ordered"
        /\ next = [rows |-> next.rows, consumed |-> next.consumed, mode |-> next.mode]
    BY ONLY <2>2
  <2>4. r.rows = [i \in 1..(RowCount(f) - c) |-> c + i - 1] /\ c <= RowCount(f)
    BY <1>2, <1>5 DEF MaskerOK, c
  <2>5. Len(r.rows) = RowCount(f) - c
    <3>1. RowCount(f) - c \in Nat
      BY <1>1, <1>3, <2>4
    <3> QED
      BY <2>4, <3>1
  <2>6. c + len <= RowCount(f) /\ c + len \in Nat /\ RowCount(f) - (c + len) = Len(r.rows) - len
    BY <1>1, <1>3, <2>5
  <2>7. rest = [i \in 1..(RowCount(f) - (c + len)) |-> c + len + i - 1]
    <3> DEFINE l == Len(r.rows) - len
    <3>1. \A i \in 1..l : len + i \in 1..(RowCount(f) - c) /\ c + (len + i) - 1 = c + len + i - 1
      <4>1. RowCount(f) - c = Len(r.rows) /\ len \in Nat /\ Len(r.rows) \in Nat /\ c \in Nat /\ len <= Len(r.rows)
        BY <1>1, <1>3, <2>5
      <4> HIDE DEF len, c
      <4> QED
        BY ONLY <4>1 DEF l
    <3>2. \A i \in 1..l : rest[i] = c + (len + i) - 1
      BY <1>1, <2>4, <3>1
    <3>3. \A i \in 1..l : rest[i] = c + len + i - 1
      BY <3>1, <3>2
    <3>4. rest = [i \in 1..l |-> rest[i]]
      <4> DEFINE all == 0..(RowCount(f) - 1)
      <4>1. rest \in Seq(all) /\ Len(rest) = l
        BY <1>1
      <4> HIDE DEF all, rest, l
      <4> QED
        BY <4>1
    <3>5. rest = [i \in 1..l |-> c + len + i - 1]
      <4> HIDE DEF rest, l
      <4> QED
        BY <3>3, <3>4
    <3> QED
      BY <2>6, <3>5
  <2> QED
    BY <1>3, <1>5, <2>3, <2>6, <2>7 DEF MaskerOK, next
<1> QED
  BY <1>4, <1>5 DEF ValidInput

\* A batch is masked, filtered again where needed, and handed on.
LEMMA ReadTakes ==
    ASSUME ValidInput(input), FilledPlan, NEW left, NEW filter, NEW r, NEW counts, NEW after, NEW n,
           ReadOK(left, filter, r, counts, n), r # Idle, r.rows # <<>>,
           \A f \in Files : \A row \in 0..(RowCount(f) - 1) :
             after[f][row] = IF f = r.file /\ row \in Out(r) THEN counts[f][row] + 1 ELSE counts[f][row]
    PROVE  ReadOK(left, filter, After(r), after, n)
<1> DEFINE f == r.file
           len == BatchLen(r)
           rows == r.rows
           rest == After(r).rows
           size == Len(rows)
           InBatch(row) == \E k \in 1..len : r.rows[k] = row
<1>1. OpenOK(r, f, n)
  BY DEF ReadOK
<1>2. /\ size \in Nat /\ len \in 1..size /\ RowCount(f) \in Nat
      /\ \A k \in 1..size : rows[k] \in 0..(RowCount(f) - 1)
      /\ After(r).file = f /\ After(r).masker = MaskerAfter(r)
      /\ After(r) = [file |-> f, rows |-> rest, masker |-> After(r).masker]
      /\ rest \in Seq(0..(RowCount(f) - 1)) /\ Len(rest) = size - len
      /\ \A k \in 1..(size - len) : rest[k] = rows[len + k]
  BY <1>1, BatchIs
<1>3. \A row : /\ InHand(After(r), f, row) => InHand(r, f, row) /\ ~InBatch(row)
               /\ InHand(r, f, row) => InBatch(row) \/ InHand(After(r), f, row)
               /\ InBatch(row) => InHand(r, f, row)
  BY <1>1, RestIs
<1>4. \A row : row \in Out(r) <=> Wanted(f, row) /\ InBatch(row)
  BY <1>1, OutIs
<1>5. f \in Files /\ Tasks[n].file = f /\ n >= 1 /\ n \in 0..Len(Tasks)
  BY <1>1 DEF ReadOK, OpenOK
<1> HIDE DEF InBatch
<1>6. OpenOK(After(r), After(r).file, n)
  <2>1. \A j, k \in DOMAIN rest : j < k => rest[j] < rest[k]
    <3> SUFFICES ASSUME NEW j \in DOMAIN rest, NEW k \in DOMAIN rest, j < k PROVE rest[j] < rest[k]
      OBVIOUS
    <3>1. DOMAIN rest = 1..(size - len) /\ DOMAIN rows = 1..size
      <4> DEFINE all == 0..(RowCount(f) - 1)
      <4>1. rest \in Seq(all) /\ rows \in Seq(all)
        BY <1>1, <1>2 DEF OpenOK
      <4>2. Len(rest) = size - len /\ Len(rows) = size
        BY <1>2
      <4> HIDE DEF all, rest, size, len, rows
      <4> QED
        BY ONLY <4>1, <4>2
    <3> HIDE DEF rest, size, len
    <3>2. len + j \in DOMAIN rows /\ len + k \in DOMAIN rows /\ len + j < len + k
      <4>1. len \in Nat /\ size \in Nat /\ j \in 1..(size - len) /\ k \in 1..(size - len)
        BY <1>2, <3>1
      <4> QED
        BY ONLY <3>1, <4>1, j < k
    <3>3. rows[len + j] < rows[len + k]
      BY <1>1, <3>2 DEF OpenOK
    <3>4. rest[j] = rows[len + j] /\ rest[k] = rows[len + k]
      BY <1>2, <3>1
    <3> QED
      BY <3>3, <3>4
  <2>2. ASSUME NEW row \in Range(rest)
        PROVE  /\ Reads(Tasks[n], f, row)
               /\ \A q \in input.filters : Pushdown(q) = "Exact" => Passes(f, row, q)
    <3>1. InHand(After(r), f, row)
      BY <1>2 DEF InHand
    <3>2. row \in Range(rows)
      BY <1>3, <3>1 DEF InHand
    <3> QED
      BY <1>1, <3>2 DEF OpenOK
  <2>3. Masked(f) => MaskerOK(After(r).masker, f, rest)
    BY <1>1, <1>2, MaskerAfterOK
  <2> QED
    BY <1>2, <1>5, <2>1, <2>2, <2>3, Zenon DEF OpenOK
<1>7. RowsOK(after, After(r), n)
  <2> SUFFICES ASSUME NEW g \in Files, NEW row \in 0..(RowCount(g) - 1)
               PROVE  RowOK(after[g][row], InHand(After(r), g, row), n, g, row)
    BY DEF RowsOK
  <2>1. RowOK(counts[g][row], InHand(r, g, row), n, g, row)
    BY DEF ReadOK, RowsOK
  <2>2. CASE g = f /\ InBatch(row)
    <3>1. InHand(r, g, row) /\ ~InHand(After(r), g, row)
      BY <1>3, <2>2
    <3>2. counts[g][row] = 0
      BY <2>1, <3>1 DEF RowOK
    <3>3. Reads(Tasks[n], g, row) /\ n \in 1..n
      <4>1. row \in Range(rows)
        BY <2>2, <3>1 DEF InHand
      <4> QED
        BY <1>1, <1>5, <2>2, <4>1 DEF OpenOK
    <3>4. CASE Wanted(g, row)
      <4>1. after[g][row] = 1
        BY <1>4, <2>2, <3>2, <3>4
      <4> QED
        BY <3>1, <3>3, <3>4, <4>1 DEF RowOK
    <3>5. CASE ~Wanted(g, row)
      <4>1. after[g][row] = 0
        BY <1>4, <2>2, <3>2, <3>5
      <4> QED
        BY <3>5, <4>1 DEF RowOK
    <3> QED
      BY <3>4, <3>5
  <2>3. CASE ~(g = f /\ InBatch(row))
    <3>1. after[g][row] = counts[g][row]
      BY <1>4, <2>3
    <3>2. InHand(After(r), g, row) <=> InHand(r, g, row)
      <4>1. CASE g = f
        BY <1>3, <2>3, <4>1
      <4>2. CASE g # f
        BY <1>2, <4>2 DEF InHand
      <4> QED
        BY <4>1, <4>2
    <3> QED
      BY <2>1, <3>1, <3>2 DEF RowOK
  <2> QED
    BY <2>2, <2>3
<1>8. BeyondOK(After(r), n)
  <2>1. After(r) # Idle
    <3>1. Idle.file = 0 /\ f # 0
      BY <1>5, IdleHolds DEF Idle
    <3> QED
      BY <1>2, <3>1
  <2> QED
    BY <2>1 DEF ReadOK, BeyondOK
<1> QED
  BY <1>6, <1>7, <1>8 DEF ReadOK

\* A file's stream ends: it is closed, or a counted read reports the vector.
LEMMA ReadFinishes ==
    ASSUME ValidInput(input), FilledPlan, NEW left, NEW filter, NEW r, NEW counts, NEW n,
           ReadOK(left, filter, r, counts, n), r # Idle, r.rows = <<>>,
           NEW accepted \in BOOLEAN,
           accepted <=> \/ ~Masked(r.file)
                        \/ FinishAccepts(IF input.backend = "Direct" THEN AfterOriginal(r.masker) ELSE r.masker)
    PROVE  /\ accepted => ReadOK(left, filter, Idle, counts, n)
           /\ ~accepted => input.backend = "DeltaKernel" /\ r.file \in Files /\ Beyond(r.file)
<1> DEFINE f == r.file
           m == r.masker
           deleted == input.files[f].deleted
<1>1. OpenOK(r, f, n)
  BY DEF ReadOK
<1>2. f \in Files /\ Tasks[n].file = f /\ n >= 1 /\ n \in 0..Len(Tasks)
  BY <1>1 DEF ReadOK, OpenOK
<1>3. input.backend \in {"Direct", "DeltaKernel"}
  BY DEF ValidInput
<1>4. ASSUME Masked(f) PROVE MaskerOK(m, f, r.rows)
  BY <1>1, <1>4 DEF OpenOK
<1>5. ASSUME input.backend = "Direct" PROVE accepted
  <2>1. CASE ~Masked(f)
    BY <2>1
  <2>2. CASE Masked(f)
    <3>1. m = [rows |-> m.rows, consumed |-> m.consumed, mode |-> m.mode]
      BY <1>4, <2>2 DEF MaskerOK
    <3>2. AfterOriginal(m).mode = "OriginalRowIndex"
      BY <3>1 DEF AfterOriginal
    <3>3. FinishAccepts(AfterOriginal(m))
      BY <3>2 DEF FinishAccepts
    <3> QED
      BY <1>5, <3>3
  <2> QED
    BY <2>1, <2>2
<1>6. ASSUME input.backend = "DeltaKernel" PROVE accepted <=> ~Beyond(f)
  <2>1. CASE ~Masked(f)
    BY <2>1 DEF Beyond
  <2>2. CASE Masked(f)
    <3>1. /\ m.rows = DeletionVectorRows(deleted) /\ m.consumed \in Nat /\ m.mode \in {"Unused", "Ordered"}
          /\ m.consumed <= RowCount(f)
          /\ r.rows = [i \in 1..(RowCount(f) - m.consumed) |-> m.consumed + i - 1]
      BY <1>4, <1>6, <2>2 DEF MaskerOK
    <3>2. RowCount(f) \in Nat
      BY <1>2, RowsLie
    <3>3. m.consumed = RowCount(f)
      <4> DEFINE d == RowCount(f) - m.consumed
      <4>1. d \in Nat /\ DOMAIN r.rows = 1..d
        BY <3>1, <3>2
      <4>2. DOMAIN r.rows = {}
        OBVIOUS
      <4>3. d = 0
        BY <4>1, <4>2
      <4> QED
        BY <3>1, <3>2, <4>3
    <3>4. deleted \subseteq Nat /\ IsFiniteSet(deleted)
      <4>1. ValidFile(input, input.files[f])
        BY <1>2, ValidFiles
      <4> QED
        BY <2>2, <4>1 DEF ValidFile, Masked
    <3>5. LastDeleted(m.rows) < m.consumed <=> \A x \in deleted : x < RowCount(f)
      <4> DEFINE c == RowCount(f)
      <4>1. m.rows = DeletionVectorRows(deleted) /\ m.consumed = c /\ c \in Nat
        BY <3>1, <3>2, <3>3
      <4> HIDE DEF deleted, c
      <4>2. LastDeleted(DeletionVectorRows(deleted)) < c <=> \A x \in deleted : x < c
        BY ONLY <3>4, <4>1, LastDeletedIs
      <4>3. LastDeleted(m.rows) < m.consumed <=> \A x \in deleted : x < c
        BY ONLY <4>1, <4>2, Zenon
      <4> QED
        BY ONLY <4>3, Zenon DEF c
    <3>6. accepted <=> FinishAccepts(m)
      BY <1>6, <2>2
    <3>7. FinishAccepts(m) <=> LastDeleted(m.rows) < m.consumed
      BY <3>1 DEF FinishAccepts
    <3>8. Beyond(f) <=> \E x \in deleted : x >= RowCount(f)
      BY <2>2 DEF Beyond
    <3>9. \A x \in deleted : x >= RowCount(f) <=> ~(x < RowCount(f))
      BY <3>2, <3>4
    <3> QED
      BY <3>5, <3>6, <3>7, <3>8, <3>9
  <2> QED
    BY <2>1, <2>2
<1>7. ASSUME accepted PROVE ReadOK(left, filter, Idle, counts, n)
  <2>1. RowsOK(counts, Idle, n)
    <3> SUFFICES ASSUME NEW g \in Files, NEW row \in 0..(RowCount(g) - 1)
                 PROVE  RowOK(counts[g][row], InHand(Idle, g, row), n, g, row)
      BY DEF RowsOK
    <3>1. RowOK(counts[g][row], InHand(r, g, row), n, g, row)
      BY DEF ReadOK, RowsOK
    <3>2. ~InHand(r, g, row) /\ ~InHand(Idle, g, row)
      <4>1. Range(r.rows) = {}
        BY DEF Range
      <4> QED
        BY <4>1, IdleHolds DEF InHand
    <3> QED
      BY <3>1, <3>2 DEF RowOK
  <2>2. BeyondOK(Idle, n)
    <3> SUFFICES ASSUME input.backend = "DeltaKernel", NEW k \in 1..n, Beyond(Tasks[k].file)
                 PROVE  PrunedByJoin(Tasks[k].file)
      BY DEF BeyondOK
    <3>1. PrunedByJoin(Tasks[k].file) \/ k = n
      BY DEF ReadOK, BeyondOK
    <3>2. k # n
      BY <1>2, <1>6, <1>7
    <3> QED
      BY <3>1, <3>2
  <2> QED
    BY <2>1, <2>2 DEF ReadOK
<1>8. ASSUME ~accepted PROVE input.backend = "DeltaKernel" /\ Beyond(f)
  BY <1>3, <1>5, <1>6, <1>8
<1> QED
  BY <1>2, <1>7, <1>8

-----------------------------------------------------------------------------
(* The invariant of the whole scan.                                        *)

Counted(counts) == counts = [f \in Files |-> [r \in 0..(RowCount(f) - 1) |-> counts[f][r]]]
Untouched == \A f \in Files : \A row \in 0..(RowCount(f) - 1) : returned[f][row] = 0
Fresh == todo = <<>> /\ reading = Idle /\ dynamicFilter = NotSet /\ Untouched
Reported ==
    \/ partitions = <<>>
    \/ \E f \in Files : Sizes[f] = 0
    \/ input.backend = "DeltaKernel" /\ \E f \in Files : Beyond(f)

LEMMA FileRowsInvIs ==
    FileRowsInv <=>
      /\ PlanInv /\ Counted(returned)
      /\ phase \in {"planning", "planned"} => Fresh
      /\ phase \in {"reading", "ended"} => ReadInv
      /\ phase = "ended" => reading = Idle /\ todo = <<>>
      /\ phase = "failed" => Reported
BY Zenon DEF FileRowsInv, Counted, Fresh, Untouched, Reported

LEMMA FileRowsInvIsNext ==
    FileRowsInv' <=>
      /\ PlanInv' /\ Counted(returned)'
      /\ phase' \in {"planning", "planned"} => Fresh'
      /\ phase' \in {"reading", "ended"} => ReadInv'
      /\ phase' = "ended" => reading' = Idle /\ todo' = <<>>
      /\ phase' = "failed" => Reported'
<1>1. Idle' = Idle
  BY DEF Idle
<1> QED
  BY <1>1, Zenon DEF FileRowsInv, Counted, Fresh, Untouched, Reported

LEMMA SameCounts ==
    ASSUME input' = input
    PROVE  /\ Counted(returned)' <=> Counted(returned')
           /\ returned' = returned => (Untouched' <=> Untouched)
           /\ partitions' = partitions => (Reported' <=> Reported)
<1>1. Files' = Files /\ Sizes' = Sizes
  BY InputOnly
<1>2. \A f : RowCount(f)' = RowCount(f) /\ (Beyond(f)' <=> Beyond(f))
  BY SameInput
<1>3. Counted(returned)' <=> Counted(returned')
  <2>1. [f \in Files |-> [r \in 0..(RowCount(f) - 1) |-> returned[f][r]]]'
          = [f \in Files |-> [r \in 0..(RowCount(f) - 1) |-> returned'[f][r]]]
    BY <1>1, <1>2
  <2> QED
    BY <2>1, Zenon DEF Counted
<1>4. returned' = returned => (Untouched' <=> Untouched)
  BY <1>1, <1>2 DEF Untouched
<1>5. partitions' = partitions => (Reported' <=> Reported)
  BY <1>1, <1>2 DEF Reported
<1> QED
  BY <1>3, <1>4, <1>5

CountedOnce(counts, g, out) ==
    [counts EXCEPT ![g] = [r \in DOMAIN @ |-> IF r \in out THEN @[r] + 1 ELSE @[r]]]

LEMMA CountsAfter ==
    ASSUME NEW counts, Counted(counts), NEW g \in Files, NEW out, NEW after, after = CountedOnce(counts, g, out)
    PROVE  /\ Counted(after)
           /\ \A f \in Files : \A row \in 0..(RowCount(f) - 1) :
                after[f][row] = IF f = g /\ row \in out THEN counts[f][row] + 1 ELSE counts[f][row]
<1> DEFINE rows(f) == 0..(RowCount(f) - 1)
<1>1. counts = [f \in Files |-> [r \in rows(f) |-> counts[f][r]]]
  BY DEF Counted
<1> HIDE DEF rows
<1>2. DOMAIN counts = Files /\ \A f \in Files : DOMAIN counts[f] = rows(f)
  BY <1>1
<1>3. after = [f \in Files |-> IF f = g THEN [r \in rows(g) |-> IF r \in out THEN counts[g][r] + 1 ELSE counts[g][r]]
                               ELSE counts[f]]
  BY <1>2 DEF CountedOnce
<1>4. ASSUME NEW f \in Files, NEW row \in rows(f)
      PROVE  after[f][row] = IF f = g /\ row \in out THEN counts[f][row] + 1 ELSE counts[f][row]
  BY <1>3
<1>5. ASSUME NEW f \in Files PROVE after[f] = [r \in rows(f) |-> after[f][r]]
  <2>1. CASE f = g
    BY <1>3, <2>1
  <2>2. CASE f # g
    <3>1. after[f] = counts[f]
      BY <1>3, <2>2
    <3>2. counts[f] = [r \in rows(f) |-> counts[f][r]]
      BY <1>1
    <3> QED
      BY <3>1, <3>2
  <2> QED
    BY <2>1, <2>2
<1>6. DOMAIN after = Files /\ after = [f \in Files |-> after[f]]
  BY <1>3
<1>7. after = [f \in Files |-> [r \in rows(f) |-> after[f][r]]]
  BY <1>5, <1>6
<1> QED
  BY <1>4, <1>7 DEF Counted, rows

LEMMA FileRowsInvInit == FileRowsInit => FileRowsInv
<1> SUFFICES ASSUME FileRowsInit PROVE FileRowsInv
  OBVIOUS
<1>1. PlanInv
  BY PlanInvInit
<1>2. /\ phase = "planning" /\ todo = <<>> /\ reading = Idle /\ dynamicFilter = NotSet
      /\ returned = [f \in Files |-> [r \in 0..(RowCount(f) - 1) |-> 0]]
  BY DEF FileRowsInit
<1>3. Untouched
  BY <1>2 DEF Untouched
<1>4. Counted(returned)
  BY <1>2 DEF Counted
<1> QED
  BY <1>1, <1>2, <1>3, <1>4, FileRowsInvIs DEF Fresh

LEMMA ReadingHas ==
    ASSUME FileRowsInv, phase = "reading"
    PROVE  /\ ValidInput(input) /\ FilledPlan /\ Counted(returned)
           /\ ReadOK(todo, dynamicFilter, reading, returned, Admitted)
           /\ Tasks \in Seq(AnyTasks) /\ Len(Tasks) \in Nat /\ Admitted \in 0..Len(Tasks)
           /\ todo = SubSeq(Tasks, Admitted + 1, Len(Tasks))
           /\ Len(todo) \in Nat /\ Len(Tasks) - Len(todo) = Admitted
<1>1. PlanInv /\ ReadInv /\ Counted(returned)
  BY FileRowsInvIs
<1>2. ValidInput(input)
  BY <1>1 DEF PlanInv
<1>3. FilledPlan
  BY <1>1, PlanIsFilled
<1>4. Tasks \in Seq(AnyTasks) /\ Len(Tasks) \in Nat
  BY <1>3, TasksAre
<1>5. /\ ReadOK(todo, dynamicFilter, reading, returned, Admitted)
      /\ Admitted \in 0..Len(Tasks) /\ todo = SubSeq(Tasks, Admitted + 1, Len(Tasks))
  BY <1>1 DEF ReadInv, ReadOK
<1>6. Len(todo) = Len(Tasks) - Admitted
  BY <1>4, <1>5
<1> QED
  BY <1>1, <1>2, <1>3, <1>4, <1>5, <1>6

\* What a step of a read has to keep, and when it may fail.
LEMMA StillReading ==
    ASSUME phase' = "reading", input' = input, partitions' = partitions, PlanInv', Counted(returned'),
           NEW n, n = Len(Tasks) - Len(todo'), ReadOK(todo', dynamicFilter', reading', returned', n)
    PROVE  FileRowsInv'
<1>1. ReadInv'
  BY ReadNext
<1>2. Counted(returned)'
  BY SameCounts
<1> QED
  BY <1>1, <1>2, FileRowsInvIsNext

LEMMA FailsReported ==
    ASSUME phase' = "failed", input' = input, partitions' = partitions, returned' = returned, PlanInv',
           Counted(returned), Reported
    PROVE  FileRowsInv'
<1>1. Counted(returned)' /\ Reported'
  BY SameCounts
<1> QED
  BY <1>1, FileRowsInvIsNext

LEMMA StartKeeps ==
    ASSUME FileRowsInv, PlanInv', StartReading
    PROVE  FileRowsInv'
<1>1. /\ phase = "planned" /\ phase' = "reading" /\ todo' = Tasks /\ input' = input
      /\ partitions' = partitions /\ dynamicFilter' = dynamicFilter /\ reading' = reading /\ returned' = returned
  BY DEF StartReading, Tasks
<1>2. PlanInv /\ Counted(returned) /\ Fresh
  BY <1>1, FileRowsInvIs
<1>3. ValidInput(input) /\ FilledPlan
  BY <1>1, <1>2, PlanIsFilled DEF PlanInv
<1>4. ReadOK(Tasks, NotSet, Idle, returned, 0)
  BY <1>2, <1>3, ReadStarts DEF Fresh, Untouched
<1>5. Len(Tasks) - Len(todo') = 0
  <2>1. Len(Tasks) \in Nat
    BY <1>3, TasksAre
  <2> QED
    BY <1>1, <2>1
<1>6. ReadOK(todo', dynamicFilter', reading', returned', 0)
  BY <1>1, <1>2, <1>4 DEF Fresh
<1>7. Counted(returned')
  BY <1>1, <1>2
<1> QED
  BY <1>1, <1>5, <1>6, <1>7, StillReading

LEMMA PublishKeeps ==
    ASSUME FileRowsInv, PlanInv', PublishFilter
    PROVE  FileRowsInv'
<1>1. /\ phase = "reading" /\ phase' = "reading" /\ todo' = todo /\ input' = input
      /\ partitions' = partitions /\ dynamicFilter' = input.dynamic /\ reading' = reading /\ returned' = returned
  BY DEF PublishFilter
<1>2. /\ ReadOK(todo, dynamicFilter, reading, returned, Admitted) /\ Counted(returned)
      /\ Len(Tasks) - Len(todo) = Admitted
  BY <1>1, ReadingHas
<1>3. ReadOK(todo, input.dynamic, reading, returned, Admitted)
  BY <1>2 DEF ReadOK
<1>4. ReadOK(todo', dynamicFilter', reading', returned', Admitted) /\ Counted(returned')
  BY <1>1, <1>2, <1>3
<1> QED
  BY <1>1, <1>2, <1>4, StillReading

LEMMA EndKeeps ==
    ASSUME FileRowsInv, PlanInv', EndScan
    PROVE  FileRowsInv'
<1>1. /\ phase = "reading" /\ phase' = "ended" /\ todo' = todo /\ input' = input /\ partitions' = partitions
      /\ dynamicFilter' = dynamicFilter /\ reading' = reading /\ returned' = returned
      /\ reading = Idle /\ todo = <<>>
  BY DEF EndScan
<1>2. /\ ReadOK(todo, dynamicFilter, reading, returned, Admitted) /\ Counted(returned)
      /\ Len(Tasks) - Len(todo) = Admitted
  BY <1>1, ReadingHas
<1>3. ReadOK(todo', dynamicFilter', reading', returned', Len(Tasks) - Len(todo')) /\ Counted(returned')
  BY <1>1, <1>2
<1>4. ReadInv' /\ Counted(returned)'
  BY <1>1, <1>3, ReadNext, SameCounts
<1> QED
  BY <1>1, <1>4, FileRowsInvIsNext

\* The kernel reads whole files: only a Direct scan is repartitioned.
LEMMA KernelTasksAreWhole ==
    ASSUME PlanInv, phase = "reading", input.backend = "DeltaKernel", NEW k \in 1..Len(Tasks)
    PROVE  Tasks[k].range = Whole
<1>1. ValidInput(input) /\ ~GroupingFails(PlannedSizes, Target) /\ partitions = GroupedPlan
  BY DEF PlanInv
<1>2. partitions \in Seq(Seq(WholeTasks(Range(PlannedFiles))))
  BY <1>1, GroupedPlanIs DEF WholePlan, Holding
<1>3. IsFlat(Tasks, partitions, AnyTasks)
  BY PlanIsFilled, TasksAre
<1>4. PICK p \in 1..Len(partitions) : \E i \in 1..Len(partitions[p]) : k = At(partitions, p, i)
  BY <1>3 DEF IsFlat
<1>5. PICK i \in 1..Len(partitions[p]) : k = At(partitions, p, i)
  BY <1>4
<1>6. Tasks[k] = partitions[p][i]
  BY <1>3, <1>5 DEF IsFlat
<1>7. partitions[p][i] \in WholeTasks(Range(PlannedFiles))
  BY <1>2
<1> QED
  BY <1>6, <1>7 DEF WholeTasks

LEMMA AdmitKeeps ==
    ASSUME FileRowsInv, PlanInv', AdmitTask
    PROVE  FileRowsInv'
<1> DEFINE n == Admitted
           task == Tasks[n + 1]
<1>1. /\ phase = "reading" /\ reading = Idle /\ todo # <<>> /\ todo' = Tail(todo) /\ input' = input
      /\ partitions' = partitions /\ dynamicFilter' = dynamicFilter /\ returned' = returned
  BY DEF AdmitTask
<1>2. /\ ValidInput(input) /\ FilledPlan /\ Counted(returned)
      /\ ReadOK(todo, dynamicFilter, Idle, returned, n)
      /\ Tasks \in Seq(AnyTasks) /\ Len(Tasks) \in Nat /\ n \in 0..Len(Tasks)
      /\ todo = SubSeq(Tasks, n + 1, Len(Tasks))
  BY <1>1, ReadingHas
<1> HIDE DEF n
<1>3. n \in Nat /\ n < Len(Tasks) /\ n + 1 \in 1..Len(Tasks) /\ Head(todo) = task
      /\ Len(Tail(todo)) = Len(Tasks) - (n + 1)
  <2>1. n # Len(Tasks)
    <3>1. n = Len(Tasks) => SubSeq(Tasks, n + 1, Len(Tasks)) = <<>>
      BY <1>2
    <3> QED
      BY <1>1, <1>2, <3>1
  <2>2. n \in Nat /\ n < Len(Tasks)
    BY <1>2, <2>1
  <2>3. Len(todo) = Len(Tasks) - n /\ todo \in Seq(AnyTasks) /\ todo[1] = Tasks[n + 1]
    BY <1>2, <2>2
  <2> QED
    BY <1>1, <2>2, <2>3
<1>4. Len(Tasks) - Len(todo') = n + 1
  BY <1>1, <1>2, <1>3
<1>5. task \in AnyTasks /\ task.file \in Files /\ task.file \in Range(PlannedFiles)
  BY <1>2, <1>3, PlannedHaveTasks, TasksAre
<1>6. Counted(returned')
  BY <1>1, <1>2
<1> DEFINE Result == IF PrunesTask(task.file) THEN UNCHANGED <<phase, reading>>
                     ELSE IF Sizes[task.file] = 0 THEN phase' = "failed" /\ UNCHANGED reading
                     ELSE /\ UNCHANGED phase
                          /\ IF input.backend = "Direct" THEN reading' = Opened(task, DirectRows(task))
                             ELSE \E skipped \in {{}, UnmatchedRows(task.file)} :
                                    reading' = Opened(task, KernelRows(task, skipped))
<1>7. Result
  <2>1. task = Head(todo)
    BY <1>3
  <2> HIDE DEF task
  <2> QED
    BY <2>1 DEF AdmitTask
<1> HIDE DEF task
<1>8. CASE PrunesTask(task.file)
  <2>1. phase' = "reading" /\ reading' = Idle
    BY <1>1, <1>7, <1>8
  <2>2. PrunedByJoin(task.file)
    <3>1. dynamicFilter = input.dynamic /\ input.dynamic # NotSet
      BY <1>2, <1>8 DEF ReadOK, PrunesTask
    <3> QED
      BY <1>8, <3>1 DEF PrunesTask, PrunedByJoin
  <2>3. ReadOK(Tail(todo), dynamicFilter, Idle, returned, n + 1)
    BY <1>2, <1>3, <2>2, ReadSkips DEF task
  <2>4. ReadOK(todo', dynamicFilter', reading', returned', n + 1)
    BY <1>1, <2>1, <2>3
  <2> QED
    BY <1>1, <1>4, <1>6, <2>1, <2>4, StillReading
<1>9. CASE ~PrunesTask(task.file) /\ Sizes[task.file] = 0
  <2>1. phase' = "failed"
    BY <1>7, <1>9
  <2>2. Reported
    BY <1>5, <1>9 DEF Reported
  <2> QED
    BY <1>1, <1>2, <2>1, <2>2, FailsReported
<1>10. CASE ~PrunesTask(task.file) /\ Sizes[task.file] # 0
  <2>1. /\ phase' = "reading"
        /\ IF input.backend = "Direct" THEN reading' = Opened(task, DirectRows(task))
           ELSE \E skipped \in {{}, UnmatchedRows(task.file)} :
                  reading' = Opened(task, KernelRows(task, skipped))
    BY <1>1, <1>7, <1>10
  <2>2. \E rows : RowsToRead(task, rows) /\ reading' = Opened(task, rows)
    <3>1. CASE input.backend = "Direct"
      <4>1. RowsToRead(task, DirectRows(task))
        BY <1>2, <1>5, <3>1, DirectRowsToRead
      <4> QED
        BY <2>1, <3>1, <4>1
    <3>2. CASE input.backend = "DeltaKernel"
      <4>1. PICK skipped \in {{}, UnmatchedRows(task.file)} : reading' = Opened(task, KernelRows(task, skipped))
        BY <2>1, <3>2
      <4>2. task.range = Whole
        <5>1. PlanInv
          BY FileRowsInvIs
        <5> QED
          BY <1>1, <1>3, <3>2, <5>1, KernelTasksAreWhole DEF task
      <4>3. RowsToRead(task, KernelRows(task, skipped))
        BY <1>2, <1>5, <3>2, <4>1, <4>2, KernelRowsToRead
      <4> QED
        BY <4>1, <4>3
    <3> QED
      BY <1>2, <3>1, <3>2 DEF ValidInput
  <2>3. PICK rows : RowsToRead(task, rows) /\ reading' = Opened(task, rows)
    BY <2>2
  <2>4. ReadOK(Tail(todo), dynamicFilter, Opened(task, rows), returned, n + 1)
    BY <1>2, <1>3, <2>3, ReadOpens DEF task
  <2>5. ReadOK(todo', dynamicFilter', reading', returned', n + 1)
    BY <1>1, <2>3, <2>4
  <2> QED
    BY <1>1, <1>4, <1>6, <2>1, <2>5, StillReading
<1> QED
  BY <1>8, <1>9, <1>10

LEMMA BatchKeeps ==
    ASSUME FileRowsInv, PlanInv', ReadBatch
    PROVE  FileRowsInv'
<1> DEFINE n == Admitted
           mode == IF input.backend = "Direct" THEN "OriginalRowIndex" ELSE "Ordered"
<1>1. /\ phase = "reading" /\ reading.rows # <<>> /\ todo' = todo /\ input' = input
      /\ partitions' = partitions /\ dynamicFilter' = dynamicFilter
  BY DEF ReadBatch
<1>2. /\ ValidInput(input) /\ FilledPlan /\ Counted(returned)
      /\ ReadOK(todo, dynamicFilter, reading, returned, n) /\ Len(Tasks) - Len(todo) = n
  BY <1>1, ReadingHas
<1>3. reading # Idle
  BY <1>1 DEF Idle
<1>4. OpenOK(reading, reading.file, n)
  BY <1>2, <1>3 DEF ReadOK
<1>5. ~(Masked(reading.file) /\ ~AllowsMode(reading.masker, mode))
  <2> SUFFICES ASSUME Masked(reading.file) PROVE AllowsMode(reading.masker, mode)
    OBVIOUS
  <2>1. MaskerOK(reading.masker, reading.file, reading.rows)
    BY <1>4 DEF OpenOK
  <2>2. input.backend \in {"Direct", "DeltaKernel"}
    BY <1>2 DEF ValidInput
  <2> QED
    BY <2>1, <2>2 DEF MaskerOK, AllowsMode
<1>6. /\ phase' = phase /\ reading' = After(reading)
      /\ returned' = CountedOnce(returned, reading.file, Out(reading))
  BY <1>5 DEF ReadBatch, After, Out, Keep, Batch, BatchLen, MaskerAfter, CountedOnce
<1>7. reading.file \in Files
  BY <1>4 DEF OpenOK
<1>8. /\ Counted(returned')
      /\ \A f \in Files : \A row \in 0..(RowCount(f) - 1) :
           returned'[f][row] = IF f = reading.file /\ row \in Out(reading) THEN returned[f][row] + 1
                               ELSE returned[f][row]
  BY <1>2, <1>6, <1>7, CountsAfter
<1>9. ReadOK(todo, dynamicFilter, After(reading), returned', n)
  BY <1>1, <1>2, <1>3, <1>8, ReadTakes
<1>10. ReadOK(todo', dynamicFilter', reading', returned', n)
  BY <1>1, <1>6, <1>9
<1> QED
  BY <1>1, <1>2, <1>6, <1>8, <1>10, StillReading

LEMMA FinishKeeps ==
    ASSUME FileRowsInv, PlanInv', FinishFile
    PROVE  FileRowsInv'
<1> DEFINE n == Admitted
           accepts == \/ ~Masked(reading.file)
                      \/ FinishAccepts(IF input.backend = "Direct" THEN AfterOriginal(reading.masker)
                                       ELSE reading.masker)
<1>1. /\ phase = "reading" /\ reading # Idle /\ reading.rows = <<>> /\ todo' = todo /\ input' = input
      /\ partitions' = partitions /\ dynamicFilter' = dynamicFilter /\ returned' = returned
  BY DEF FinishFile
<1>2. /\ ValidInput(input) /\ FilledPlan /\ Counted(returned)
      /\ ReadOK(todo, dynamicFilter, reading, returned, n) /\ Len(Tasks) - Len(todo) = n
  BY <1>1, ReadingHas
<1>3. IF accepts THEN reading' = Idle /\ phase' = phase ELSE phase' = "failed"
  BY DEF FinishFile
<1>4. PICK accepted \in BOOLEAN : accepted <=> accepts
  OBVIOUS
<1>5. /\ accepted => ReadOK(todo, dynamicFilter, Idle, returned, n)
      /\ ~accepted => input.backend = "DeltaKernel" /\ reading.file \in Files /\ Beyond(reading.file)
  BY <1>1, <1>2, <1>4, ReadFinishes
<1> HIDE DEF accepts, n
<1>6. CASE accepts
  <2>1. ReadOK(todo', dynamicFilter', reading', returned', n)
    BY <1>1, <1>3, <1>4, <1>5, <1>6
  <2>2. phase' = "reading" /\ Counted(returned')
    BY <1>1, <1>2, <1>3, <1>6
  <2>3. n = Len(Tasks) - Len(todo')
    BY <1>1, <1>2
  <2> QED
    BY <1>1, <2>1, <2>2, <2>3, StillReading
<1>7. CASE ~accepts
  <2>1. Reported
    BY <1>4, <1>5, <1>7 DEF Reported
  <2> QED
    BY <1>1, <1>2, <1>3, <1>7, <2>1, FailsReported
<1> QED
  BY <1>6, <1>7

LEMMA PlanScanKeeps ==
    ASSUME FileRowsInv, PlanInv', PlanScan
    PROVE  FileRowsInv'
<1>1. /\ phase = "planning" /\ input' = input /\ dynamicFilter' = dynamicFilter /\ todo' = todo
      /\ reading' = reading /\ returned' = returned /\ repartitioned' = repartitioned
  BY DEF PlanScan
<1>2. PlanInv /\ Counted(returned) /\ Fresh
  BY <1>1, FileRowsInvIs
<1>3. CASE OptionsRefused(input.options) \/ GroupingFails(PlannedSizes, Target)
  <2>1. phase' = "failed" /\ partitions' = partitions
    BY <1>3 DEF PlanScan
  <2>2. Reported
    BY <1>1, <1>2 DEF PlanInv, Reported
  <2> QED
    BY <1>1, <1>2, <2>1, <2>2, FailsReported
<1>4. CASE ~(OptionsRefused(input.options) \/ GroupingFails(PlannedSizes, Target))
  <2>1. phase' = "planned"
    BY <1>4 DEF PlanScan
  <2>2. Idle' = Idle
    BY DEF Idle
  <2>3. Fresh' /\ Counted(returned)'
    BY <1>1, <1>2, <2>2, SameCounts DEF Fresh
  <2> QED
    BY <2>1, <2>3, FileRowsInvIsNext
<1> QED
  BY <1>3, <1>4

LEMMA RepartitionKeeps ==
    ASSUME FileRowsInv, PlanInv', Repartition
    PROVE  FileRowsInv'
<1>1. /\ phase = "planned" /\ phase' = "planned" /\ input' = input /\ dynamicFilter' = dynamicFilter
      /\ todo' = todo /\ reading' = reading /\ returned' = returned
  BY DEF Repartition
<1>2. Counted(returned) /\ Fresh
  BY <1>1, FileRowsInvIs
<1>3. Idle' = Idle
  BY DEF Idle
<1>4. Fresh' /\ Counted(returned)'
  BY <1>1, <1>2, <1>3, SameCounts DEF Fresh
<1> QED
  BY <1>1, <1>4, FileRowsInvIsNext

LEMMA StutterKeeps ==
    ASSUME FileRowsInv, PlanInv', UNCHANGED rowVars
    PROVE  FileRowsInv'
<1>1. /\ input' = input /\ phase' = phase /\ partitions' = partitions /\ dynamicFilter' = dynamicFilter
      /\ todo' = todo /\ reading' = reading /\ returned' = returned
  BY DEF rowVars
<1>2. Idle' = Idle
  BY DEF Idle
<1>3. /\ Counted(returned)' <=> Counted(returned)
      /\ Fresh' <=> Fresh
      /\ Reported' <=> Reported
  BY <1>1, <1>2, SameCounts DEF Fresh
<1>4. ReadInv' <=> ReadInv
  BY <1>1, ReadNext DEF ReadInv, Admitted
<1> QED
  BY <1>1, <1>3, <1>4, FileRowsInvIs, FileRowsInvIsNext

LEMMA FileRowsInvStep == FileRowsInv /\ [FileRowsNext]_rowVars => FileRowsInv'
<1> SUFFICES ASSUME FileRowsInv, [FileRowsNext]_rowVars PROVE FileRowsInv'
  OBVIOUS
<1>1. PlanInv'
  BY PlanInvStep, FileRowsInvIs
<1>2. CASE PlanScan
  BY <1>1, <1>2, PlanScanKeeps
<1>3. CASE Repartition
  BY <1>1, <1>3, RepartitionKeeps
<1>4. CASE StartReading
  BY <1>1, <1>4, StartKeeps
<1>5. CASE PublishFilter
  BY <1>1, <1>5, PublishKeeps
<1>6. CASE AdmitTask
  BY <1>1, <1>6, AdmitKeeps
<1>7. CASE ReadBatch
  BY <1>1, <1>7, BatchKeeps
<1>8. CASE FinishFile
  BY <1>1, <1>8, FinishKeeps
<1>9. CASE EndScan
  BY <1>1, <1>9, EndKeeps
<1>10. CASE UNCHANGED rowVars
  BY <1>1, <1>10, StutterKeeps
<1> QED
  BY <1>2, <1>3, <1>4, <1>5, <1>6, <1>7, <1>8, <1>9, <1>10 DEF FileRowsNext, Over

\* Every state of a scan satisfies the inductive invariant: the plan is a function
\* of the input, the open file belongs to the task admitted last, and a row has
\* left the query exactly when its one task has read it.
THEOREM FileRowsInvHolds == FileRowsSpec => []FileRowsInv
BY FileRowsInvInit, FileRowsInvStep, PTL DEF FileRowsSpec

LEMMA EndedHas ==
    ASSUME FileRowsInv, phase = "ended"
    PROVE  /\ ValidInput(input) /\ FilledPlan /\ Counted(returned) /\ Len(Tasks) \in Nat
           /\ RowsOK(returned, Idle, Len(Tasks)) /\ BeyondOK(Idle, Len(Tasks))
<1>1. PlanInv /\ ReadInv /\ Counted(returned) /\ reading = Idle /\ todo = <<>>
  BY FileRowsInvIs
<1>2. ValidInput(input) /\ FilledPlan
  BY <1>1, PlanIsFilled DEF PlanInv
<1>3. Len(Tasks) \in Nat
  BY <1>2, TasksAre
<1>4. Admitted = Len(Tasks)
  <2>1. Len(todo) = 0
    BY <1>1
  <2> QED
    BY <1>3, <2>1 DEF Admitted
<1>5. RowsOK(returned, reading, Admitted) /\ BeyondOK(reading, Admitted)
  BY <1>1 DEF ReadInv, ReadOK
<1> QED
  BY <1>1, <1>2, <1>3, <1>4, <1>5

\* filter pushdown, grouping, repartitioning, dynamic pruning, row-group pruning,
\* row filters and deletion vectors together, for both backends and for every table,
\* option and query: a scan that ends has returned each wanted row once (unless the
\* join's filter rules its partition out) and no other row.
THEOREM RowsReturnedOnceHolds == FileRowsSpec => []RowsReturnedOnce
<1>1. FileRowsInv => RowsReturnedOnce
  <2> SUFFICES ASSUME FileRowsInv, phase = "ended", NEW f \in Files, NEW row \in DOMAIN returned[f]
               PROVE  /\ Wanted(f, row) /\ ~PrunedByJoin(f) => returned[f][row] = 1
                      /\ Wanted(f, row) => returned[f][row] <= 1
                      /\ ~Wanted(f, row) => returned[f][row] = 0
    BY DEF RowsReturnedOnce
  <2>1. /\ ValidInput(input) /\ FilledPlan /\ Counted(returned) /\ Len(Tasks) \in Nat
        /\ RowsOK(returned, Idle, Len(Tasks))
    BY EndedHas
  <2>2. row \in 0..(RowCount(f) - 1)
    <3>1. returned = [g \in Files |-> [r \in 0..(RowCount(g) - 1) |-> returned[g][r]]]
      BY <2>1 DEF Counted
    <3> QED
      BY <3>1
  <2>3. RowOK(returned[f][row], InHand(Idle, f, row), Len(Tasks), f, row)
    BY <2>1, <2>2 DEF RowsOK
  <2>4. ~InHand(Idle, f, row)
    BY <2>1, IdleHolds
  <2>5. returned[f][row] \in {0, 1} /\ (returned[f][row] = 1 => Wanted(f, row))
    BY <2>3 DEF RowOK
  <2>6. ASSUME Wanted(f, row), ~PrunedByJoin(f) PROVE returned[f][row] = 1
    <3>1. f \in Range(PlannedFiles)
      BY <2>1, <2>6, WantedIsPlanned
    <3>2. OneReader(f, row)
      BY <2>1, <2>2, RowsHaveOneReader
    <3>3. PICK k \in 1..Len(Tasks) : Reads(Tasks[k], f, row)
      BY <3>1, <3>2 DEF OneReader
    <3> QED
      BY <2>3, <2>4, <2>6, <3>3 DEF RowOK
  <2> QED
    BY <2>5, <2>6
<1> QED
  BY <1>1, FileRowsInvHolds, PTL

\* DeletionVectorRows::finish, for every table and query: a kernel read of a file
\* whose vector names rows past its end fails, and no read fails for any other
\* reason than that, an empty file or a plan that could not be made.
THEOREM CorruptionReportedHolds == FileRowsSpec => []CorruptionReported
<1>1. FileRowsInv => CorruptionReported
  <2> SUFFICES ASSUME FileRowsInv PROVE CorruptionReported
    OBVIOUS
  <2>1. phase = "failed" => Reported
    BY FileRowsInvIs
  <2>2. ASSUME phase = "ended", input.backend = "DeltaKernel", NEW f \in Files, Beyond(f), f \in Range(PlannedFiles)
        PROVE  PrunedByJoin(f)
    <3>1. FilledPlan /\ BeyondOK(Idle, Len(Tasks))
      BY <2>2, EndedHas
    <3>2. PICK k \in 1..Len(Tasks) : Tasks[k].file = f
      BY <2>2, <3>1, PlannedHaveTasks
    <3> QED
      BY <2>2, <3>1, <3>2 DEF BeyondOK
  <2> QED
    BY <2>1, <2>2 DEF CorruptionReported, Reported
<1> QED
  BY <1>1, FileRowsInvHolds, PTL
=============================================================================
