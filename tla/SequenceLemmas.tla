--------------------------- MODULE SequenceLemmas ---------------------------
(***************************************************************************)
(* Lemmas about data that the proofs of several components share:          *)
(* induction over naturals, recursive functions and folds, sorting, sums   *)
(* and wait queues.  The library's induction theorems take the property as an  *)
(* operator, which the provers cannot instantiate; here it is a set.       *)
(***************************************************************************)
EXTENDS WaitQueues, Ordering, FiniteSetsExt, FiniteSetTheorems, SequenceTheorems, TLAPS

-----------------------------------------------------------------------------
(* Induction.                                                              *)

\* A set of naturals that is not empty has a least member.
LEMMA LeastNat ==
    ASSUME NEW T, T \subseteq Nat, T # {}
    PROVE  \E m \in T : \A n \in T : m <= n
<1> DEFINE R == {ss \in Nat \X Nat : ss[1] < ss[2]}
<1>1. IsWellFoundedOn(R, Nat)
  BY NatLessThanWellFounded DEF OpToRel
<1> HIDE DEF R
<1>2. PICK x \in T : \A y \in T : ~ (<<y, x>> \in R)
  BY <1>1, WFMin
<1>3. ASSUME NEW n \in T, n < x PROVE FALSE
  <2>1. n \in Nat /\ x \in Nat
    OBVIOUS
  <2>2. <<n, x>> \in Nat \X Nat /\ <<n, x>>[1] = n /\ <<n, x>>[2] = x
    BY <2>1
  <2>3. <<n, x>> \in R
    BY <1>3, <2>2 DEF R
  <2> QED
    BY <1>2, <2>3
<1>4. QED
  <2>1. \A n \in T : n \in Nat /\ x \in Nat /\ ~(n < x)
    BY <1>3
  <2> QED
    BY <2>1

\* A set that holds 0, and the successor of each of its naturals, holds them all.
LEMMA NatSetInduction ==
    ASSUME NEW S, 0 \in S, \A n \in Nat : n \in S => n + 1 \in S
    PROVE  Nat \subseteq S
<1>1. SUFFICES ASSUME Nat \ S # {} PROVE FALSE
  OBVIOUS
<1>2. PICK m \in Nat \ S : \A n \in Nat \ S : m <= n
  BY <1>1, LeastNat
<1>3. m # 0 /\ m - 1 \in Nat /\ m - 1 < m
  BY <1>2
<1>4. m - 1 \in S
  BY <1>2, <1>3
<1>5. (m - 1) + 1 \in S
  BY <1>3, <1>4
<1> QED
  BY <1>2, <1>3, <1>5

\* The same up to a bound.
LEMMA IntervalInduction ==
    ASSUME NEW n \in Nat, NEW S, 0 \in S, \A k \in 0..(n - 1) : k \in S => k + 1 \in S
    PROVE  \A k \in 0..n : k \in S
<1> DEFINE T == {k \in Nat : k <= n => k \in S}
<1>1. 0 \in T
  OBVIOUS
<1>2. ASSUME NEW k \in Nat, k \in T PROVE k + 1 \in T
  <2>1. SUFFICES ASSUME k + 1 <= n PROVE k + 1 \in S
    OBVIOUS
  <2>2. k \in 0..(n - 1) /\ k \in S
    BY <1>2, <2>1
  <2> QED
    BY <2>2
<1> HIDE DEF T
<1>3. Nat \subseteq T
  BY <1>1, <1>2, NatSetInduction
<1> QED
  BY <1>3 DEF T

\* A set of naturals with an upper bound has a greatest member.
LEMMA GreatestNat ==
    ASSUME NEW n \in Nat, NEW T, T \subseteq 0..n, T # {}
    PROVE  \E m \in T : \A k \in T : k <= m
<1> DEFINE U == {u \in Nat : \A k \in T : k <= u}
<1>1. \A k \in T : k \in Nat /\ k <= n
  OBVIOUS
<1>2. n \in U
  BY <1>1
<1>3. PICK m \in U : \A u \in U : m <= u
  BY <1>2, LeastNat
<1>4. m \in Nat /\ \A k \in T : k <= m
  BY <1>3
<1>5. ASSUME m \notin T PROVE FALSE
  <2>1. \A k \in T : k < m
    BY <1>1, <1>4, <1>5
  <2>2. m - 1 \in Nat
    <3>1. PICK k \in T : TRUE
      OBVIOUS
    <3>2. k \in Nat /\ m \in Nat /\ k < m
      BY <1>1, <1>4, <2>1
    <3> QED
      BY <3>2
  <2>3. ASSUME NEW k \in T PROVE k <= m - 1
    BY <1>1, <1>4, <2>1
  <2>4. m - 1 \in U
    BY <2>2, <2>3
  <2> HIDE DEF U
  <2> QED
    BY <1>3, <1>4, <2>4
<1> QED
  BY <1>4, <1>5

\* Max and Min of the library, on sets that have them.
LEMMA MaxIs ==
    ASSUME NEW T, T \subseteq Int, NEW m \in T, \A k \in T : k <= m
    PROVE  Max(T) = m
<1>1. \A k \in T : m >= k
  OBVIOUS
<1>2. Max(T) \in T /\ \A k \in T : Max(T) >= k
  BY <1>1 DEF Max
<1>3. m \in Int /\ Max(T) \in Int /\ m >= Max(T) /\ Max(T) >= m
  BY <1>1, <1>2
<1> QED
  BY <1>3

LEMMA MaxOf ==
    ASSUME NEW n \in Nat, NEW T, T \subseteq 0..n, T # {}
    PROVE  Max(T) \in T /\ \A k \in T : k <= Max(T)
<1>1. PICK m \in T : \A k \in T : k <= m
  BY GreatestNat
<1>2. T \subseteq Int
  OBVIOUS
<1>3. Max(T) = m
  BY <1>1, <1>2, MaxIs
<1> QED
  BY <1>1, <1>3

LEMMA MinOf ==
    ASSUME NEW T, T \subseteq Nat, T # {}
    PROVE  Min(T) \in T /\ \A k \in T : Min(T) <= k
<1>1. PICK m \in T : \A k \in T : m <= k
  BY LeastNat
<1> QED
  BY <1>1 DEF Min

LEMMA MaxInterval ==
    ASSUME NEW k \in Nat \ {0}
    PROVE  Max(1..k) = k /\ (1..k) \ {k} = 1..(k - 1) /\ 1..k # {}
<1>1. 1..k \subseteq Int /\ k \in 1..k /\ \A i \in 1..k : i <= k
  OBVIOUS
<1>2. Max(1..k) = k
  BY <1>1, MaxIs, Zenon
<1>3. (1..k) \ {k} = 1..(k - 1)
  <2>1. ASSUME NEW i \in (1..k) \ {k} PROVE i \in 1..(k - 1)
    OBVIOUS
  <2>2. ASSUME NEW i \in 1..(k - 1) PROVE i \in (1..k) \ {k}
    OBVIOUS
  <2> QED
    BY <2>1, <2>2
<1> QED
  BY <1>1, <1>2, <1>3

-----------------------------------------------------------------------------
(* Recursive functions and folds.  A step is a function of the result so    *)
(* far and the next index.                                                  *)

Recurs(f, A, n, base, step) ==
    f \in [0..n -> A] /\ f[0] = base /\ \A k \in 1..n : f[k] = step[<<f[k - 1], k>>]

\* A recursion over 0..n has a solution.
LEMMA RecursionExists ==
    ASSUME NEW A, NEW n \in Nat, NEW base \in A, NEW step \in [A \X (1..n) -> A]
    PROVE  \E f : Recurs(f, A, n, base, step)
<1> DEFINE Solves(f, m) == f[0] = base /\ \A k \in 1..m : f[k] = step[<<f[k - 1], k>>]
           S == {m \in 0..n : \E f \in [0..m -> A] : Solves(f, m)}
<1>1. 0 \in S
  <2> DEFINE f == [k \in 0..0 |-> base]
  <2>1. f \in [0..0 -> A] /\ Solves(f, 0)
    OBVIOUS
  <2> HIDE DEF f, Solves
  <2> QED
    BY <2>1
<1>2. ASSUME NEW m \in 0..(n - 1), m \in S PROVE m + 1 \in S
  <2>1. PICK f \in [0..m -> A] : Solves(f, m)
    BY <1>2
  <2> DEFINE g == [k \in 0..(m + 1) |-> IF k = m + 1 THEN step[<<f[m], m + 1>>] ELSE f[k]]
  <2>2. f[m] \in A /\ <<f[m], m + 1>> \in A \X (1..n)
    OBVIOUS
  <2>3. step[<<f[m], m + 1>>] \in A
    BY <2>2
  <2>4. g \in [0..(m + 1) -> A]
    BY <2>3
  <2>5. g[0] = base
    BY <2>1
  <2>6. ASSUME NEW k \in 1..(m + 1) PROVE g[k] = step[<<g[k - 1], k>>]
    <3>1. CASE k = m + 1
      <4>1. k - 1 = m /\ m \in 0..(m + 1) /\ m # m + 1
        BY <3>1
      <4>2. g[k] = step[<<f[m], m + 1>>] /\ g[m] = f[m]
        BY <3>1, <4>1
      <4> QED
        BY <3>1, <4>1, <4>2
    <3>2. CASE k # m + 1
      <4>1. k \in 1..m /\ k - 1 \in 0..m /\ k - 1 # m + 1
        BY <3>2
      <4> QED
        BY <2>1, <4>1
    <3> QED
      BY <3>1, <3>2
  <2>7. Solves(g, m + 1)
    BY <2>5, <2>6
  <2>8. m + 1 \in 0..n
    OBVIOUS
  <2> HIDE DEF g, Solves
  <2> QED
    BY <2>4, <2>7, <2>8
<1> HIDE DEF S
<1>3. n \in S
  BY <1>1, <1>2, IntervalInduction
<1>4. PICK f \in [0..n -> A] : Solves(f, n)
  BY <1>3 DEF S
<1>5. Recurs(f, A, n, base, step)
  BY <1>4 DEF Recurs
<1> QED
  BY <1>5

\* The equation of the library's FoldLeft, over a sequence of length n.
IsFold(f, n, base, step) ==
    \A s \in SUBSET (1..n) :
      f[s] = IF s = {} THEN base ELSE step[<<f[s \ {Max(s)}], Max(s)>>]

LEMMA FoldExists ==
    ASSUME NEW A, NEW n \in Nat, NEW base \in A, NEW step \in [A \X (1..n) -> A]
    PROVE  \E iter \in [SUBSET (1..n) -> A] : IsFold(iter, n, base, step)
<1> DEFINE Solves(f, m) == \A s \in SUBSET (1..m) :
             f[s] = IF s = {} THEN base ELSE step[<<f[s \ {Max(s)}], Max(s)>>]
           S == {m \in 0..n : \E f \in [SUBSET (1..m) -> A] : Solves(f, m)}
<1>1. 0 \in S
  <2> DEFINE f == [s \in SUBSET (1..0) |-> base]
  <2>1. \A s \in SUBSET (1..0) : s = {}
    OBVIOUS
  <2>2. f \in [SUBSET (1..0) -> A] /\ Solves(f, 0)
    BY <2>1
  <2>3. 0 \in 0..n
    OBVIOUS
  <2> HIDE DEF f, Solves
  <2> QED
    BY <2>2, <2>3, Zenon
<1>2. ASSUME NEW m \in 0..(n - 1), m \in S PROVE m + 1 \in S
  <2>1. PICK f \in [SUBSET (1..m) -> A] : Solves(f, m)
    BY <1>2
  <2> DEFINE last == m + 1
             g == [s \in SUBSET (1..last) |->
                     IF last \in s THEN step[<<f[s \ {last}], last>>] ELSE f[s]]
  <2>2. last \in 1..n /\ last \in Nat /\ last \notin 1..m
    OBVIOUS
  <2>3. \A s \in SUBSET (1..last) : s \ {last} \in SUBSET (1..m)
    OBVIOUS
  <2>4. \A s \in SUBSET (1..last) : last \notin s => s \in SUBSET (1..m)
    OBVIOUS
  <2>5. \A s \in SUBSET (1..m) : s \in SUBSET (1..last) /\ last \notin s
    OBVIOUS
  <2>6. \A s \in SUBSET (1..last) : last \in s => Max(s) = last
    <3>1. ASSUME NEW s \in SUBSET (1..last), last \in s PROVE Max(s) = last
      <4>1. s \subseteq Int /\ \A k \in s : k <= last
        OBVIOUS
      <4> QED
        BY <3>1, <4>1, MaxIs
    <3> QED
      BY <3>1
  <2>7. \A s \in SUBSET (1..m) : s # {} => Max(s) \in s
    <3>1. ASSUME NEW s \in SUBSET (1..m), s # {} PROVE Max(s) \in s
      <4>1. s \subseteq 0..m /\ m \in Nat
        OBVIOUS
      <4> QED
        BY <3>1, <4>1, MaxOf
    <3> QED
      BY <3>1
  <2> HIDE DEF last
  <2>8. ASSUME NEW s \in SUBSET (1..last) PROVE g[s] \in A
    <3>1. CASE last \in s
      <4>1. f[s \ {last}] \in A
        BY <2>3
      <4>2. <<f[s \ {last}], last>> \in A \X (1..n)
        BY <2>2, <4>1
      <4> QED
        BY <3>1, <4>2
    <3>2. CASE last \notin s
      BY <2>4, <3>2
    <3> QED
      BY <3>1, <3>2
  <2>9. ASSUME NEW s \in SUBSET (1..last)
        PROVE  g[s] = IF s = {} THEN base ELSE step[<<g[s \ {Max(s)}], Max(s)>>]
    <3>1. CASE last \in s
      <4>1. Max(s) = last /\ s \ {last} \in SUBSET (1..m) /\ s # {}
        BY <2>3, <2>6, <3>1
      <4>2. s \ {last} \in SUBSET (1..last) /\ last \notin s \ {last}
        BY <2>5, <4>1
      <4>3. g[s \ {last}] = f[s \ {last}]
        BY <4>2
      <4> QED
        BY <3>1, <4>1, <4>3
    <3>2. CASE last \notin s
      <4>1. s \in SUBSET (1..m) /\ g[s] = f[s]
        BY <2>4, <3>2
      <4>2. CASE s = {}
        BY <2>1, <4>1, <4>2
      <4>3. CASE s # {}
        <5>1. s \ {Max(s)} \in SUBSET (1..m)
          BY <4>1
        <5>2. g[s \ {Max(s)}] = f[s \ {Max(s)}]
          BY <2>5, <5>1
        <5> QED
          BY <2>1, <4>1, <4>3, <5>2
      <4> QED
        BY <4>2, <4>3
    <3> QED
      BY <3>1, <3>2
  <2>10. g \in [SUBSET (1..last) -> A]
    BY <2>8
  <2> HIDE DEF g
  <2>11. Solves(g, last)
    BY <2>9
  <2>12. last \in 0..n
    BY <2>2
  <2> HIDE DEF Solves
  <2>13. last \in S
    BY <2>10, <2>11, <2>12
  <2> QED
    BY <2>13 DEF last
<1> HIDE DEF S
<1>3. n \in S
  BY <1>1, <1>2, IntervalInduction
<1> QED
  BY <1>3 DEF S, IsFold

\* A fold over 1..n that stays in A is a recursion.
FoldsFrom(fold, A, n, base, step) ==
    \A d \in SUBSET (1..n) :
      /\ d = {} => fold[d] = base
      /\ d # {} /\ fold[d \ {Max(d)}] \in A => fold[d] = step[<<fold[d \ {Max(d)}], Max(d)>>]
RunOf(fold, n) == [k \in 0..n |-> fold[1..k]]

LEMMA FoldRuns ==
    ASSUME NEW A, NEW n \in Nat, NEW base \in A, NEW step \in [A \X (1..n) -> A], NEW fold,
           FoldsFrom(fold, A, n, base, step)
    PROVE  Recurs(RunOf(fold, n), A, n, base, step)
<1> USE DEF FoldsFrom, RunOf
<1> DEFINE run == [k \in 0..n |-> fold[1..k]]
<1>1. run[0] = base
  <2>1. 1..0 = {} /\ 1..0 \in SUBSET (1..n) /\ 0 \in 0..n
    OBVIOUS
  <2> QED
    BY <2>1
<1>2. ASSUME NEW k \in 1..n, run[k - 1] \in A PROVE run[k] = step[<<run[k - 1], k>>]
  <2>1. k \in Nat \ {0} /\ k - 1 \in 0..n /\ k \in 0..n
    OBVIOUS
  <2>2. Max(1..k) = k /\ (1..k) \ {k} = 1..(k - 1) /\ 1..k # {}
    BY <2>1, MaxInterval
  <2>3. 1..k \in SUBSET (1..n)
    OBVIOUS
  <2>4. run[k] = fold[1..k] /\ run[k - 1] = fold[(1..k) \ {Max(1..k)}]
    BY <2>1, <2>2
  <2> HIDE DEF run
  <2> QED
    BY <1>2, <2>2, <2>3, <2>4
<1> HIDE DEF run
<1> DEFINE S == {j \in 0..n : run[j] \in A}
<1>3. 0 \in S
  BY <1>1
<1>4. ASSUME NEW j \in 0..(n - 1), j \in S PROVE j + 1 \in S
  <2>1. j + 1 \in 1..n /\ (j + 1) - 1 = j /\ j + 1 \in 0..n
    OBVIOUS
  <2>2. run[j + 1] = step[<<run[j], j + 1>>] /\ run[j] \in A
    BY <1>2, <1>4, <2>1
  <2> QED
    BY <2>1, <2>2
<1> HIDE DEF S
<1>5. \A j \in 0..n : j \in S
  BY <1>3, <1>4, IntervalInduction
<1>6. \A j \in 0..n : run[j] \in A
  BY <1>5 DEF S
<1>7. ASSUME NEW k \in 1..n PROVE run[k] = step[<<run[k - 1], k>>]
  <2>1. k - 1 \in 0..n
    OBVIOUS
  <2> QED
    BY <1>2, <1>6, <2>1
<1>8. run \in [0..n -> A]
  BY <1>6 DEF run
<1>9. Recurs(run, A, n, base, step)
  BY <1>1, <1>7, <1>8 DEF Recurs
<1> QED
  BY <1>9 DEF run

-----------------------------------------------------------------------------
(* Sorting.                                                                *)

\* R is a strict total order on S.
StrictOrder(S, R) ==
    /\ \A x \in S : <<x, x>> \notin R
    /\ \A x, y \in S : x # y => <<x, y>> \in R \/ <<y, x>> \in R
    /\ \A x, y, z \in S : <<x, y>> \in R /\ <<y, z>> \in R => <<x, z>> \in R

\* How many members of S come before x.
RankIn(S, R, x) == Cardinality({y \in S : <<y, x>> \in R})

\* The ranks number the members from 0 on.
LEMMA RanksNumber ==
    ASSUME NEW S, IsFiniteSet(S), NEW R, StrictOrder(S, R)
    PROVE  /\ Cardinality(S) \in Nat
           /\ \A x \in S : RankIn(S, R, x) \in 0..(Cardinality(S) - 1)
           /\ \A x, y \in S : <<x, y>> \in R => RankIn(S, R, x) < RankIn(S, R, y)
           /\ \A x, y \in S : RankIn(S, R, x) = RankIn(S, R, y) => x = y
           /\ \A k \in 0..(Cardinality(S) - 1) : \E x \in S : RankIn(S, R, x) = k
<1> DEFINE below(x) == {y \in S : <<y, x>> \in R}
           n == Cardinality(S)
           rank == [x \in S |-> RankIn(S, R, x)]
<1>1. n \in Nat
  BY FS_CardinalityType
<1>2. ASSUME NEW x \in S
      PROVE  IsFiniteSet(below(x)) /\ Cardinality(below(x)) \in Nat /\ rank[x] = Cardinality(below(x))
  <2>1. below(x) \in SUBSET S
    OBVIOUS
  <2>2. IsFiniteSet(below(x))
    BY <2>1, FS_Subset
  <2>3. rank[x] = Cardinality(below(x))
    BY DEF RankIn
  <2> QED
    BY <2>2, <2>3, FS_CardinalityType
<1> HIDE DEF rank
<1>3. ASSUME NEW x \in S PROVE rank[x] \in 0..(n - 1)
  <2>1. below(x) \in SUBSET S /\ x \notin below(x)
    BY DEF StrictOrder
  <2>2. below(x) # S
    BY <2>1
  <2> HIDE DEF below
  <2>3. Cardinality(below(x)) <= Cardinality(S) /\ Cardinality(below(x)) # Cardinality(S)
    BY <2>1, <2>2, FS_Subset
  <2> QED
    BY <1>1, <1>2, <2>3
<1>4. ASSUME NEW x \in S, NEW y \in S, <<x, y>> \in R PROVE rank[x] < rank[y]
  <2>1. below(x) \in SUBSET below(y)
    BY <1>4 DEF StrictOrder
  <2>2. x \in below(y) /\ x \notin below(x)
    BY <1>4 DEF StrictOrder
  <2>3. below(x) # below(y)
    BY <2>2
  <2> HIDE DEF below
  <2>4. Cardinality(below(x)) <= Cardinality(below(y)) /\ Cardinality(below(x)) # Cardinality(below(y))
    BY <1>2, <2>1, <2>3, FS_Subset
  <2> QED
    BY <1>2, <2>4
<1>5. ASSUME NEW x \in S, NEW y \in S, rank[x] = rank[y] PROVE x = y
  <2>1. rank[x] \in Int /\ rank[y] \in Int
    BY <1>3
  <2>2. ~(rank[x] < rank[y]) /\ ~(rank[y] < rank[x])
    BY <1>5, <2>1
  <2>3. <<x, y>> \notin R /\ <<y, x>> \notin R
    BY <1>4, <2>2
  <2> QED
    BY <2>3 DEF StrictOrder
<1>6. rank \in [S -> 0..(n - 1)]
  <2>1. \A x \in S : rank[x] \in 0..(n - 1)
    BY <1>3
  <2> QED
    BY <2>1 DEF rank
<1>7. ASSUME NEW k \in 0..(n - 1) PROVE \E x \in S : rank[x] = k
  <2>1. rank \in Injection(S, 0..(n - 1))
    BY <1>5, <1>6 DEF Injection, IsInjective
  <2>2. IsFiniteSet(0..(n - 1)) /\ Cardinality(0..(n - 1)) = n
    BY <1>1, FS_Interval
  <2>3. rank \in Surjection(S, 0..(n - 1))
    BY <2>1, <2>2, FS_Injection
  <2> QED
    BY <2>3 DEF Surjection
<1>8. \A x \in S : rank[x] = RankIn(S, R, x)
  BY DEF rank
<1> HIDE DEF n
<1>9. n = Cardinality(S)
  BY DEF n
<1> QED
  BY <1>1, <1>3, <1>4, <1>5, <1>7, <1>8, <1>9

\* A sequence that has at each place the member of that rank.
Ranked(S, R, s) ==
    s \in [1..Cardinality(S) -> S] /\ \A k \in 1..Cardinality(S) : RankIn(S, R, s[k]) = k - 1

\* A sequence that has each member once, in the order R.
SortedBy(S, R, s) ==
    /\ Cardinality(S) \in Nat /\ s \in Seq(S) /\ Len(s) = Cardinality(S)
    /\ \A j, k \in 1..Len(s) : j < k => <<s[j], s[k]>> \in R
    /\ \A x \in S : \E k \in 1..Len(s) : s[k] = x

LEMMA SortedIs ==
    ASSUME NEW S, IsFiniteSet(S), NEW R, StrictOrder(S, R), NEW s, Ranked(S, R, s)
    PROVE  SortedBy(S, R, s)
<1> DEFINE n == Cardinality(S)
           rank == [x \in S |-> RankIn(S, R, x)]
<1>1. /\ n \in Nat /\ \A x \in S : rank[x] \in 0..(n - 1)
      /\ \A x, y \in S : <<x, y>> \in R => rank[x] < rank[y]
      /\ \A x, y \in S : rank[x] = rank[y] => x = y
  BY RanksNumber
<1>2. ASSUME NEW k \in 1..n PROVE s[k] \in S /\ rank[s[k]] = k - 1
  BY DEF Ranked
<1>3. s \in Seq(S) /\ Len(s) = n
  <2>1. n \in Nat /\ s \in [1..n -> S]
    BY <1>1 DEF Ranked
  <2> HIDE DEF n
  <2> QED
    BY ONLY <2>1
<1> HIDE DEF n, rank
<1>4. ASSUME NEW j \in 1..n, NEW k \in 1..n, j < k PROVE <<s[j], s[k]>> \in R
  <2>1. j \in Int /\ k \in Int
    BY <1>1
  <2>2. rank[s[j]] = j - 1 /\ rank[s[k]] = k - 1 /\ s[j] \in S /\ s[k] \in S
    BY <1>2
  <2>3. s[j] # s[k] /\ ~(rank[s[k]] < rank[s[j]])
    BY <1>4, <2>1, <2>2
  <2> QED
    BY <1>1, <2>2, <2>3 DEF StrictOrder
<1>5. ASSUME NEW x \in S PROVE \E k \in 1..n : s[k] = x
  <2>1. rank[x] \in 0..(n - 1) /\ rank[x] + 1 \in 1..n /\ (rank[x] + 1) - 1 = rank[x]
    BY <1>1
  <2>2. rank[s[rank[x] + 1]] = rank[x] /\ s[rank[x] + 1] \in S
    BY <1>2, <2>1
  <2> QED
    BY <1>1, <2>1, <2>2
<1> QED
  BY <1>1, <1>3, <1>4, <1>5 DEF n, SortedBy

\* What Ascending makes of a finite set of integers.
IsAscending(s, S) ==
    /\ s \in Seq(S) /\ Len(s) = Cardinality(S)
    /\ \A j, k \in 1..Len(s) : j < k => s[j] < s[k]
    /\ \A x \in S : \E k \in 1..Len(s) : s[k] = x

LEMMA AscendingIs ==
    ASSUME NEW S, S \subseteq Int, IsFiniteSet(S)
    PROVE  IsAscending(Ascending(S), S)
<1> DEFINE n == Cardinality(S)
           s == Ascending(S)
<1>1. PICK R : \A x, y \in S : x \in Int /\ y \in Int /\ (<<x, y>> \in R <=> x < y)
  <2> DEFINE Q == {p \in S \X S : p[1] < p[2]}
  <2>1. \A x, y \in S : x \in Int /\ y \in Int /\ (<<x, y>> \in Q <=> x < y)
    OBVIOUS
  <2> HIDE DEF Q
  <2> QED
    BY <2>1
<1>2. s = [k \in 1..n |-> CHOOSE x \in S : Cardinality({y \in S : y < x}) = k - 1]
  BY Zenon DEF Ascending, InOrder
<1>3. StrictOrder(S, R)
  BY <1>1 DEF StrictOrder
<1>4. \A x \in S : RankIn(S, R, x) = Cardinality({y \in S : y < x})
  <2>1. \A x \in S : {y \in S : <<y, x>> \in R} = {y \in S : y < x}
    BY <1>1
  <2> QED
    BY <2>1, Zenon DEF RankIn
<1>5. n \in Nat /\ \A k \in 0..(n - 1) : \E x \in S : Cardinality({y \in S : y < x}) = k
  <2>1. n \in Nat /\ \A k \in 0..(n - 1) : \E x \in S : RankIn(S, R, x) = k
    BY ONLY IsFiniteSet(S), <1>3, RanksNumber
  <2> HIDE DEF n
  <2> QED
    BY <1>4, <2>1
<1>6. ASSUME NEW k \in 1..n PROVE s[k] \in S /\ RankIn(S, R, s[k]) = k - 1
  <2>1. k - 1 \in 0..(n - 1)
    BY <1>5
  <2>2. s[k] = CHOOSE x \in S : Cardinality({y \in S : y < x}) = k - 1
    BY <1>2
  <2>3. s[k] \in S /\ Cardinality({y \in S : y < s[k]}) = k - 1
    BY <1>5, <2>1, <2>2, Zenon
  <2> QED
    BY <1>4, <2>3
<1>7. s \in [1..n -> S]
  BY <1>2, <1>6
<1>8. /\ n \in Nat /\ s \in Seq(S) /\ Len(s) = n
      /\ \A j, k \in 1..Len(s) : j < k => <<s[j], s[k]>> \in R
      /\ \A x \in S : \E k \in 1..Len(s) : s[k] = x
  <2>1. Ranked(S, R, s)
    BY <1>6, <1>7 DEF Ranked
  <2>2. SortedBy(S, R, s)
    BY ONLY IsFiniteSet(S), <1>3, <2>1, SortedIs
  <2> QED
    BY <2>2 DEF SortedBy
<1> HIDE DEF n, s
<1>9. ASSUME NEW j \in 1..Len(s), NEW k \in 1..Len(s), j < k PROVE s[j] < s[k]
  <2>1. s[j] \in S /\ s[k] \in S /\ <<s[j], s[k]>> \in R
    BY <1>8, <1>9
  <2> QED
    BY <1>1, <2>1
<1>10. IsAscending(s, S)
  BY <1>8, <1>9 DEF n, IsAscending
<1> QED
  BY <1>10 DEF s

-----------------------------------------------------------------------------
(* Sums.                                                                   *)

\* SumOf adds up from the left.
LEMMA SumRun ==
    ASSUME NEW n \in Nat, NEW s \in [1..n -> Int]
    PROVE  \E run \in [0..n -> Int] :
             run[0] = 0 /\ (\A k \in 1..n : run[k] = run[k - 1] + s[k]) /\ SumOf(s) = run[n]
<1> DEFINE Solves(iter) ==
             iter = [d \in SUBSET (1..n) |-> IF d = {} THEN 0 ELSE iter[d \ {Max(d)}] + s[Max(d)]]
           fold == CHOOSE iter : Solves(iter)
<1>1. SumOf(s) = fold[1..n]
  <2>1. DOMAIN s = 1..n
    OBVIOUS
  <2> QED
    BY <2>1, Zenon DEF SumOf, FoldLeft, MapThenFoldSet
<1>2. \E iter : Solves(iter)
  <2> DEFINE step == [p \in Int \X (1..n) |-> p[1] + s[p[2]]]
  <2>1. step \in [Int \X (1..n) -> Int] /\ 0 \in Int
    OBVIOUS
  <2>2. \A a \in Int, k \in 1..n : step[<<a, k>>] = a + s[k]
    OBVIOUS
  <2> HIDE DEF step
  <2>3. PICK iter \in [SUBSET (1..n) -> Int] : IsFold(iter, n, 0, step)
    BY <2>1, FoldExists
  <2>4. ASSUME NEW d \in SUBSET (1..n), d # {}
        PROVE  iter[d] = iter[d \ {Max(d)}] + s[Max(d)]
    <3>1. d \subseteq 0..n
      OBVIOUS
    <3>2. Max(d) \in 1..n
      BY <2>4, <3>1, MaxOf
    <3>3. iter[d \ {Max(d)}] \in Int
      OBVIOUS
    <3> QED
      BY <2>2, <2>3, <2>4, <3>2, <3>3 DEF IsFold
  <2>5. \A d \in SUBSET (1..n) : iter[d] = IF d = {} THEN 0 ELSE iter[d \ {Max(d)}] + s[Max(d)]
    BY <2>3, <2>4 DEF IsFold
  <2>6. Solves(iter)
    BY <2>5
  <2> QED
    BY <2>6
<1>3. Solves(fold)
  BY <1>2, Zenon
<1> HIDE DEF fold
<1> DEFINE run == [k \in 0..n |-> fold[1..k]]
<1>4. run[0] = 0
  BY <1>3
<1>5. ASSUME NEW k \in 1..n PROVE run[k] = run[k - 1] + s[k]
  <2>1. k \in Nat \ {0} /\ k - 1 \in 0..n /\ k \in 0..n
    OBVIOUS
  <2>2. Max(1..k) = k /\ (1..k) \ {k} = 1..(k - 1) /\ 1..k # {}
    BY <2>1, MaxInterval
  <2>3. 1..k \in SUBSET (1..n)
    OBVIOUS
  <2>4. fold[1..k] = fold[(1..k) \ {Max(1..k)}] + s[Max(1..k)]
    BY <1>3, <2>2, <2>3
  <2> QED
    BY <2>1, <2>2, <2>4
<1>6. ASSUME NEW k \in 0..n PROVE run[k] \in Int
  <2> DEFINE S == {j \in 0..n : run[j] \in Int}
  <2>1. 0 \in S
    BY <1>4
  <2>2. ASSUME NEW j \in 0..(n - 1), j \in S PROVE j + 1 \in S
    <3>1. j + 1 \in 1..n /\ (j + 1) - 1 = j /\ j + 1 \in 0..n
      OBVIOUS
    <3>2. run[j + 1] = run[j] + s[j + 1]
      BY <1>5, <3>1
    <3> QED
      BY <2>2, <3>1, <3>2
  <2> HIDE DEF S
  <2>3. k \in S
    BY <2>1, <2>2, IntervalInduction
  <2> QED
    BY <2>3 DEF S
<1>7. SumOf(s) = run[n]
  BY <1>1
<1>8. run \in [0..n -> Int]
  BY <1>6
<1> HIDE DEF run
<1> QED
  BY <1>4, <1>5, <1>7, <1>8

\* The sum of the first k numbers of s.
Prefix(s, k) == SumOf([j \in 1..k |-> s[j]])

LEMMA PrefixSums ==
    ASSUME NEW n \in Nat, NEW s \in [1..n -> Int]
    PROVE  /\ Prefix(s, 0) = 0
           /\ \A k \in 0..n : Prefix(s, k) \in Int
           /\ \A k \in 1..n : Prefix(s, k) = Prefix(s, k - 1) + s[k]
           /\ SumOf(s) = Prefix(s, n)
<1>1. PICK run \in [0..n -> Int] : run[0] = 0 /\ \A k \in 1..n : run[k] = run[k - 1] + s[k]
  BY SumRun
<1>2. ASSUME NEW k \in 0..n PROVE Prefix(s, k) = run[k]
  <2> DEFINE t == [j \in 1..k |-> s[j]]
  <2>1. k \in Nat /\ t \in [1..k -> Int]
    OBVIOUS
  <2>2. PICK part \in [0..k -> Int] :
          part[0] = 0 /\ (\A j \in 1..k : part[j] = part[j - 1] + t[j]) /\ SumOf(t) = part[k]
    BY <2>1, SumRun
  <2> DEFINE S == {j \in 0..k : part[j] = run[j]}
  <2>3. 0 \in S
    BY <1>1, <2>2
  <2>4. ASSUME NEW j \in 0..(k - 1), j \in S PROVE j + 1 \in S
    <3>1. j + 1 \in 1..k /\ j + 1 \in 1..n /\ (j + 1) - 1 = j /\ j + 1 \in 0..k
      OBVIOUS
    <3>2. part[j + 1] = part[j] + t[j + 1] /\ run[j + 1] = run[j] + s[j + 1]
      BY <1>1, <2>2, <3>1
    <3>3. part[j] = run[j] /\ t[j + 1] = s[j + 1]
      BY <2>4, <3>1
    <3> QED
      BY <3>1, <3>2, <3>3
  <2>7. Prefix(s, k) = part[k]
    BY <2>2 DEF Prefix
  <2> HIDE DEF S, t
  <2>5. \A j \in 0..k : j \in S
    BY ONLY <2>1, <2>3, <2>4, IntervalInduction
  <2>6. k \in 0..k
    BY <2>1
  <2> QED
    BY <2>5, <2>6, <2>7 DEF S
<1>3. SumOf(s) = Prefix(s, n)
  <2>1. s = [j \in 1..n |-> s[j]]
    OBVIOUS
  <2> QED
    BY <2>1 DEF Prefix
<1>4. ASSUME NEW k \in 1..n PROVE Prefix(s, k) = Prefix(s, k - 1) + s[k]
  <2>1. k \in 0..n /\ k - 1 \in 0..n
    OBVIOUS
  <2> QED
    BY <1>1, <1>2, <2>1
<1>5. 0 \in 0..n
  OBVIOUS
<1> QED
  BY <1>1, <1>2, <1>3, <1>4, <1>5

\* The sums of naturals grow.
LEMMA PrefixGrows ==
    ASSUME NEW n \in Nat, NEW s \in [1..n -> Nat]
    PROVE  /\ \A k \in 0..n : Prefix(s, k) \in Nat
           /\ \A j, k \in 0..n : j <= k => Prefix(s, j) <= Prefix(s, k)
           /\ SumOf(s) \in Nat
<1>1. s \in [1..n -> Int]
  OBVIOUS
<1>2. /\ Prefix(s, 0) = 0 /\ SumOf(s) = Prefix(s, n)
      /\ \A k \in 0..n : Prefix(s, k) \in Int
      /\ \A k \in 1..n : Prefix(s, k) = Prefix(s, k - 1) + s[k]
  BY <1>1, PrefixSums
<1> DEFINE S == {k \in 0..n : \A j \in 0..k : 0 <= Prefix(s, j) /\ Prefix(s, j) <= Prefix(s, k)}
<1>3. 0 \in S
  BY <1>2
<1>4. ASSUME NEW k \in 0..(n - 1), k \in S PROVE k + 1 \in S
  <2>1. k + 1 \in 1..n /\ (k + 1) - 1 = k /\ k \in 0..n /\ k + 1 \in 0..n
    OBVIOUS
  <2>2. Prefix(s, k + 1) = Prefix(s, k) + s[k + 1] /\ s[k + 1] \in Nat /\ Prefix(s, k) \in Int
    BY <1>2, <2>1
  <2>3. ASSUME NEW j \in 0..(k + 1) PROVE 0 <= Prefix(s, j) /\ Prefix(s, j) <= Prefix(s, k + 1)
    <3>1. CASE j = k + 1
      BY <1>4, <2>1, <2>2, <3>1
    <3>2. CASE j # k + 1
      <4>1. j \in 0..k /\ j \in 0..n
        BY <3>2
      <4>2. 0 <= Prefix(s, j) /\ Prefix(s, j) <= Prefix(s, k) /\ Prefix(s, j) \in Int
        BY <1>2, <1>4, <4>1
      <4> QED
        BY <2>2, <4>2
    <3> QED
      BY <3>1, <3>2
  <2> QED
    BY <2>1, <2>3
<1> HIDE DEF S
<1>5. \A k \in 0..n : k \in S
  BY <1>3, <1>4, IntervalInduction
<1>6. \A k \in 0..n : Prefix(s, k) \in Nat
  <2>1. ASSUME NEW k \in 0..n PROVE Prefix(s, k) \in Nat
    <3>1. 0 <= Prefix(s, k)
      BY <1>5 DEF S
    <3> QED
      BY <1>2, <3>1
  <2> QED
    BY <2>1
<1>7. ASSUME NEW j \in 0..n, NEW k \in 0..n, j <= k PROVE Prefix(s, j) <= Prefix(s, k)
  <2>1. j \in 0..k
    BY <1>7
  <2> QED
    BY <1>5, <2>1 DEF S
<1>8. n \in 0..n
  OBVIOUS
<1> QED
  BY <1>2, <1>6, <1>7, <1>8

\* Every number below the sum lies in the share of one index.
LEMMA PrefixLocates ==
    ASSUME NEW n \in Nat, NEW s \in [1..n -> Nat], NEW x \in Nat, x < SumOf(s)
    PROVE  \E i \in 1..n : /\ Prefix(s, i - 1) <= x /\ x < Prefix(s, i)
                           /\ \A j \in 1..n : x < Prefix(s, j) => i <= j
<1>1. s \in [1..n -> Int]
  OBVIOUS
<1>2. Prefix(s, 0) = 0 /\ SumOf(s) = Prefix(s, n)
  BY <1>1, PrefixSums
<1>3. \A k \in 0..n : Prefix(s, k) \in Nat
  BY PrefixGrows
<1> DEFINE T == {i \in 1..n : x < Prefix(s, i)}
<1>4. n \in T
  <2>1. n # 0
    BY <1>2
  <2> QED
    BY <1>2, <2>1
<1>5. PICK i \in T : \A j \in T : i <= j
  <2>1. T \subseteq Nat
    OBVIOUS
  <2> HIDE DEF T
  <2> QED
    BY <1>4, <2>1, LeastNat
<1>6. i \in 1..n /\ x < Prefix(s, i) /\ i - 1 \in 0..n
  BY <1>5
<1>7. Prefix(s, i - 1) <= x
  <2>1. CASE i = 1
    BY <1>2, <2>1
  <2>2. CASE i # 1
    <3>1. i - 1 \in 1..n /\ ~(i <= i - 1)
      BY <1>6, <2>2
    <3>2. ~(x < Prefix(s, i - 1))
      BY <1>5, <3>1
    <3> QED
      BY <1>3, <1>6, <3>2
  <2> QED
    BY <2>1, <2>2
<1>8. \A j \in 1..n : x < Prefix(s, j) => i <= j
  BY <1>5
<1> QED
  BY <1>6, <1>7, <1>8

-----------------------------------------------------------------------------
(* A wait queue that claimants leave: those that stay move up and never    *)
(* back, and nobody appears that was not there before.                     *)

\* Finitely many positions stay.
LEMMA StayingFinite ==
    ASSUME NEW q, Len(q) \in Nat, NEW gone
    PROVE  /\ Staying(q, gone) \subseteq 1..Len(q)
           /\ IsFiniteSet(Staying(q, gone)) /\ Cardinality(Staying(q, gone)) \in Nat
<1>1. IsFiniteSet(1..Len(q))
  BY FS_Interval
<1>2. Staying(q, gone) \subseteq 1..Len(q)
  BY DEF Staying
<1> QED
  BY <1>1, <1>2, FS_Subset, FS_CardinalityType

\* Places number the positions that stay from 1 on, in order.
LEMMA PlaceOrder ==
    ASSUME NEW n \in Nat, NEW stay \in SUBSET (1..n)
    PROVE  /\ \A k \in stay : Place(stay, k) \in 1..Cardinality(stay) /\ Place(stay, k) <= k
           /\ \A k, m \in stay : k < m => Place(stay, k) < Place(stay, m)
<1>1. IsFiniteSet(1..n) /\ IsFiniteSet(stay)
  <2>1. IsFiniteSet(1..n)
    BY FS_Interval
  <2> QED
    BY <2>1, FS_Subset
<1>5. \A i \in stay : i \in Nat /\ i >= 1
  OBVIOUS
<1> DEFINE upTo(k) == {i \in stay : i <= k}
<1>2. ASSUME NEW k \in stay
      PROVE  /\ IsFiniteSet(upTo(k)) /\ Cardinality(upTo(k)) \in Nat
             /\ Cardinality(upTo(k)) <= Cardinality(stay)
  <2>1. upTo(k) \in SUBSET stay
    OBVIOUS
  <2> QED
    BY <1>1, <2>1, FS_Subset, FS_CardinalityType
<1>3. ASSUME NEW k \in stay
      PROVE  Place(stay, k) \in 1..Cardinality(stay) /\ Place(stay, k) <= k
  <2>1. k \in 1..n /\ k \in upTo(k)
    OBVIOUS
  <2>2. IsFiniteSet(1..k) /\ Cardinality(1..k) = k
    BY <2>1, FS_Interval
  <2>3. upTo(k) \in SUBSET (1..k)
    <3>1. ASSUME NEW i \in upTo(k) PROVE i \in 1..k
      BY <1>5
    <3> QED
      BY <3>1
  <2> HIDE DEF upTo
  <2>4. Cardinality(upTo(k)) <= Cardinality(1..k)
    BY <2>2, <2>3, FS_Subset
  <2>5. Cardinality(upTo(k)) # 0
    BY <1>2, <2>1, FS_EmptySet
  <2>6. Cardinality(stay) \in Nat
    BY <1>1, FS_CardinalityType
  <2> QED
    BY <1>2, <2>2, <2>4, <2>5, <2>6 DEF Place, upTo
<1>4. ASSUME NEW k \in stay, NEW m \in stay, k < m
      PROVE  Place(stay, k) < Place(stay, m)
  <2>1. upTo(k) \in SUBSET upTo(m) /\ m \in upTo(m) /\ m \notin upTo(k)
    <3>1. ASSUME NEW i \in upTo(k) PROVE i \in upTo(m)
      BY <1>4, <1>5
    <3>2. m \in upTo(m) /\ m \notin upTo(k)
      BY <1>4, <1>5
    <3> QED
      BY <3>1, <3>2
  <2>2. IsFiniteSet(upTo(m)) /\ Cardinality(upTo(k)) \in Nat /\ Cardinality(upTo(m)) \in Nat
    BY <1>2
  <2> HIDE DEF upTo
  <2>3. /\ Cardinality(upTo(k)) <= Cardinality(upTo(m))
        /\ Cardinality(upTo(m)) = Cardinality(upTo(k)) => upTo(m) = upTo(k)
    BY <2>1, <2>2, FS_Subset
  <2>4. Cardinality(upTo(k)) < Cardinality(upTo(m))
    BY <2>1, <2>2, <2>3
  <2> QED
    BY <2>4 DEF Place, upTo
<1> QED
  BY <1>3, <1>4

\* A claimant that stays keeps its place or moves up.
LEMMA StayersMoveUp ==
    ASSUME NEW q, Len(q) \in Nat, NEW gone, NEW k \in 1..Len(q), q[k] \notin gone
    PROVE  LET stay == Staying(q, gone) IN
           /\ Place(stay, k) \in 1..Len(Without(q, gone)) /\ Place(stay, k) <= k
           /\ Without(q, gone)[Place(stay, k)] = q[k]
<1> DEFINE stay == Staying(q, gone)
<1>1. stay \in SUBSET (1..Len(q)) /\ Cardinality(stay) \in Nat
  BY StayingFinite
<1>2. k \in stay
  BY DEF Staying
<1>3. /\ \A m \in stay : Place(stay, m) \in 1..Cardinality(stay) /\ Place(stay, m) <= m
      /\ \A m, l \in stay : m < l => Place(stay, m) < Place(stay, l)
  BY <1>1, PlaceOrder
<1>4. \A m \in stay : Place(stay, m) = Place(stay, k) => m = k
  BY <1>1, <1>2, <1>3
<1> DEFINE j == Place(stay, k)
           at == [i \in 1..Cardinality(stay) |-> q[CHOOSE m \in stay : Place(stay, m) = i]]
<1>5. Without(q, gone) = at
  BY DEF Without
<1>6. j \in 1..Cardinality(stay) /\ j <= k
  BY <1>2, <1>3
<1>7. (CHOOSE m \in stay : Place(stay, m) = j) = k
  BY <1>2, <1>4
<1>8. at[j] = q[k]
  BY <1>6, <1>7
<1>9. Len(at) = Cardinality(stay)
  BY <1>1
<1> QED
  BY <1>5, <1>6, <1>8, <1>9

\* What is left of a queue was in it, no nearer to its front, and did not leave.
LEMMA OnlyStayers ==
    ASSUME NEW q, Len(q) \in Nat, NEW gone
    PROVE  /\ Len(Without(q, gone)) \in Nat
           /\ \A j \in 1..Len(Without(q, gone)) :
               \E k \in 1..Len(q) : /\ Without(q, gone)[j] = q[k] /\ q[k] \notin gone
                                    /\ j <= k /\ j = Place(Staying(q, gone), k)
<1> DEFINE stay == Staying(q, gone)
           place == [k \in stay |-> Place(stay, k)]
<1>1. stay \in SUBSET (1..Len(q)) /\ Cardinality(stay) \in Nat /\ IsFiniteSet(stay)
  BY StayingFinite
<1>2. /\ \A m \in stay : Place(stay, m) \in 1..Cardinality(stay) /\ Place(stay, m) <= m
      /\ \A m, l \in stay : m < l => Place(stay, m) < Place(stay, l)
  BY <1>1, PlaceOrder
<1>3. place \in Injection(stay, 1..Cardinality(stay))
  <2>1. place \in [stay -> 1..Cardinality(stay)]
    BY <1>2
  <2>2. ASSUME NEW m \in stay, NEW l \in stay, m # l PROVE place[m] # place[l]
    BY <1>1, <1>2, <2>2
  <2> QED
    BY <2>1, <2>2 DEF Injection, IsInjective
<1>4. IsFiniteSet(1..Cardinality(stay)) /\ Cardinality(1..Cardinality(stay)) = Cardinality(stay)
  BY <1>1, FS_Interval
<1>5. place \in Surjection(stay, 1..Cardinality(stay))
  BY <1>3, <1>4, FS_Injection
<1>6. \A j \in 1..Cardinality(stay) : \E k \in stay : Place(stay, k) = j
  BY <1>5 DEF Surjection
<1> DEFINE at == [i \in 1..Cardinality(stay) |-> q[CHOOSE m \in stay : Place(stay, m) = i]]
<1>7. Without(q, gone) = at /\ Len(at) = Cardinality(stay)
  BY <1>1 DEF Without
<1>8. ASSUME NEW j \in 1..Cardinality(stay)
      PROVE  \E k \in 1..Len(q) : /\ at[j] = q[k] /\ q[k] \notin gone
                                  /\ j <= k /\ j = Place(stay, k)
  <2> DEFINE k == CHOOSE m \in stay : Place(stay, m) = j
  <2>1. k \in stay /\ Place(stay, k) = j
    BY <1>6
  <2>2. at[j] = q[k]
    OBVIOUS
  <2>3. k \in 1..Len(q) /\ q[k] \notin gone
    BY <2>1 DEF Staying
  <2>4. j <= k
    BY <1>2, <2>1
  <2> QED
    BY <2>1, <2>2, <2>3, <2>4
<1> QED
  BY <1>1, <1>7, <1>8

\* What is left of a queue is a queue.
LEMMA WithoutType ==
    ASSUME NEW S, NEW q \in Seq(S), NEW gone
    PROVE  Without(q, gone) \in Seq(S)
<1> DEFINE stay == Staying(q, gone)
           at == [i \in 1..Cardinality(stay) |-> q[CHOOSE m \in stay : Place(stay, m) = i]]
<1>1. Len(q) \in Nat /\ \A k \in 1..Len(q) : q[k] \in S
  OBVIOUS
<1>2. Without(q, gone) = at /\ Cardinality(stay) \in Nat
  BY <1>1, StayingFinite DEF Without
<1>3. Len(Without(q, gone)) = Cardinality(stay)
  BY <1>2
<1>4. \A j \in 1..Cardinality(stay) : Without(q, gone)[j] \in S
  BY <1>1, <1>3, OnlyStayers
<1>5. \A j \in 1..Cardinality(stay) : at[j] \in S
  BY <1>2, <1>4
<1>6. at \in [1..Cardinality(stay) -> S]
  BY <1>5
<1> HIDE DEF at, stay
<1>7. at \in Seq(S)
  BY <1>2, <1>6, SeqDef
<1> QED
  BY <1>2, <1>7

\* The holder of a lock, the first of its queue, stays its holder when others leave.
LEMMA HeadStays ==
    ASSUME NEW S, NEW q \in Seq(S), q # <<>>, NEW gone, Head(q) \notin gone
    PROVE  Without(q, gone) # <<>> /\ Head(Without(q, gone)) = Head(q)
<1> DEFINE stay == Staying(q, gone)
<1>1. Len(q) \in Nat /\ 1 \in 1..Len(q) /\ q[1] = Head(q)
  OBVIOUS
<1>2. /\ Place(stay, 1) \in 1..Len(Without(q, gone)) /\ Place(stay, 1) <= 1
      /\ Without(q, gone)[Place(stay, 1)] = q[1]
  BY <1>1, StayersMoveUp
<1> HIDE DEF stay
<1>3. Without(q, gone) \in Seq(S)
  BY WithoutType
<1>4. Place(stay, 1) = 1
  BY <1>2, <1>3
<1> QED
  BY <1>1, <1>2, <1>3, <1>4

\* Those who stay keep their order: nobody overtakes.
LEMMA RanksClose ==
    ASSUME NEW q, Len(q) \in Nat, NEW gone
    PROVE  /\ Len(Without(q, gone)) \in Nat
           /\ \A k \in 1..Len(q) : q[k] \notin gone =>
                \E j \in 1..Len(Without(q, gone)) : j <= k /\ Without(q, gone)[j] = q[k]
           /\ \A c : c \notin gone /\ Ahead(q, Len(q) + 1, c) =>
                Ahead(Without(q, gone), Len(Without(q, gone)) + 1, c)
           /\ \A j \in 1..Len(Without(q, gone)) : \E k \in 1..Len(q) :
                /\ Without(q, gone)[j] = q[k]
                /\ \A c : c \notin gone /\ Ahead(q, k, c) => Ahead(Without(q, gone), j, c)
<1> DEFINE w == Without(q, gone)
           stay == Staying(q, gone)
<1>1. Len(w) \in Nat /\ stay \in SUBSET (1..Len(q))
  BY OnlyStayers, StayingFinite
<1>2. \A m, k \in stay : m < k => Place(stay, m) < Place(stay, k)
  BY <1>1, PlaceOrder
<1>3. ASSUME NEW k \in 1..Len(q), q[k] \notin gone
      PROVE  Place(stay, k) \in 1..Len(w) /\ Place(stay, k) <= k /\ w[Place(stay, k)] = q[k]
  BY <1>3, StayersMoveUp
<1>4. \A k \in 1..Len(q) : q[k] \notin gone => k \in stay
  BY DEF Staying
<1>5. \A j \in 1..Len(w) : \E k \in 1..Len(q) :
        w[j] = q[k] /\ q[k] \notin gone /\ j = Place(stay, k)
  BY OnlyStayers
<1> HIDE DEF w, stay
<1>6. \A k \in 1..Len(q) : q[k] \notin gone => \E j \in 1..Len(w) : j <= k /\ w[j] = q[k]
  BY <1>3
<1>7. ASSUME NEW c, c \notin gone, Ahead(q, Len(q) + 1, c)
      PROVE  Ahead(w, Len(w) + 1, c)
  <2>1. PICK m \in 1..Len(q) : q[m] = c
    BY <1>7 DEF Ahead
  <2>2. PICK j \in 1..Len(w) : w[j] = c
    BY <1>6, <1>7, <2>1
  <2> QED
    BY <1>1, <2>2 DEF Ahead
<1>8. ASSUME NEW j \in 1..Len(w)
      PROVE  \E k \in 1..Len(q) :
               w[j] = q[k] /\ \A c : c \notin gone /\ Ahead(q, k, c) => Ahead(w, j, c)
  <2>1. PICK k \in 1..Len(q) : w[j] = q[k] /\ q[k] \notin gone /\ j = Place(stay, k)
    BY <1>5
  <2>2. ASSUME NEW c, c \notin gone, Ahead(q, k, c)
        PROVE  Ahead(w, j, c)
    <3>1. PICK m \in 1..(k - 1) : q[m] = c
      BY <2>2 DEF Ahead
    <3>2. m \in 1..Len(q) /\ m < k /\ q[m] \notin gone
      BY <2>2, <3>1
    <3>3. Place(stay, m) < j /\ Place(stay, m) \in 1..Len(w) /\ w[Place(stay, m)] = c
      BY <1>2, <1>3, <1>4, <2>1, <3>1, <3>2
    <3>4. Place(stay, m) \in 1..(j - 1)
      BY <1>1, <3>3
    <3> QED
      BY <3>3, <3>4 DEF Ahead
  <2> QED
    BY <2>1, <2>2
<1> QED
  BY <1>1, <1>6, <1>7, <1>8 DEF w
=============================================================================
