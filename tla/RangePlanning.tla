---------------------------- MODULE RangePlanning ----------------------------
(***************************************************************************)
(* range_planning.rs and cost_model/range_cost.rs: which physical byte     *)
(* ranges are read to answer a list of requested ranges, and how the       *)
(* answers are cut out of what was read.  A range is <<start, end>>, its   *)
(* end exclusive; a plan is a sequence of ranges.                          *)
(***************************************************************************)
EXTENDS Ordering, SequencesExt

CONSTANTS
    MaxConcurrentReads,  \* MAX_CONCURRENT_PARQUET_RANGE_READS
    MaxRangeRequests,    \* MAX_RANGE_READ_REQUESTS
    NoEstimate,          \* no usable TransportEstimate
    NoPlan               \* None of choose_bounded_range_plan_avoiding

MaxByteAmplification == 4
DecisionMarginPercent == 10

ASSUME RangePlanningAssumption == MaxConcurrentReads \in Nat \ {0} /\ MaxRangeRequests \in Nat

Larger(a, b) == IF a >= b THEN a ELSE b
Least(a, b) == IF a <= b THEN a ELSE b

\* sort_unstable_by_key on the start; how ties fall does not change what is merged.
ByStart(requested) ==
    LET Before(i, j) == \/ requested[i][1] < requested[j][1]
                        \/ requested[i][1] = requested[j][1] /\ i < j
        order == InOrder(DOMAIN requested, Before)
    IN  [k \in DOMAIN order |-> requested[order[k]]]

\* The last range of a plan gets a new end.
EndLastAt(plan, end) == [plan EXCEPT ![Len(plan)] = <<@[1], end>>]

\* One round of merge_ranges: the range joins the last one if they overlap or
\* leave a gap of at most maxGap bytes.
ExtendPlan(plan, r, maxGap) ==
    IF plan # <<>> /\ r[1] - Last(plan)[2] <= maxGap
    THEN EndLastAt(plan, Larger(Last(plan)[2], r[2]))
    ELSE Append(plan, r)

MergeRanges(requested, maxGap) ==
    FoldLeft(LAMBDA plan, r : ExtendPlan(plan, r, maxGap), <<>>, ByStart(requested))

RangeBytes(plan) == SumOf([i \in DOMAIN plan |-> plan[i][2] - plan[i][1]])
RequestWaves(count, concurrency) ==
    (count + Larger(concurrency, 1) - 1) \div Larger(concurrency, 1)

\* range_cost_bytes; delay is the estimate's bandwidth_delay_bytes.
RangeCostBytes(plan, delay) ==
    RangeBytes(plan) + RequestWaves(Len(plan), MaxConcurrentReads) * delay

Overlaps(r, plan) == \E i \in DOMAIN plan : plan[i][2] > r[1] /\ plan[i][1] < r[2]

\* The gaps of a plan as <<size, index of the range before it>>, smallest first.
\* Gaps that hold bytes of the plan "held" are left out.
SortedGaps(exact, held) ==
    LET Free(j) == ~Overlaps(<<exact[j][2], exact[j + 1][1]>>, held)
        gaps == {<<exact[i + 1][1] - exact[i][2], i>> :
                   i \in {j \in 1..(Len(exact) - 1) : Free(j)}}
    IN  SetToSortSeq(gaps, LAMBDA a, b : a[1] < b[1] \/ (a[1] = b[1] /\ a[2] < b[2]))

\* One round of merge_smallest_gaps: the gap before range i is read as well, or
\* range i starts a new physical range.
JoinNext(plan, exact, merged, i) ==
    IF i > 1 /\ i - 1 \in merged
    THEN EndLastAt(plan, exact[i][2])
    ELSE Append(plan, exact[i])

MergeSmallestGaps(exact, gaps, count) ==
    LET merged == {gaps[k][2] : k \in 1..Least(count, Len(gaps))}
    IN  FoldLeftDomain(LAMBDA plan, i : JoinNext(plan, exact, merged, i), <<>>, exact)

\* candidate_range_plans: the exact plan, then one plan for each smaller number
\* of request waves, until a plan would read too many bytes.
CandidateRangePlans(requested) ==
    LET exact == MergeRanges(requested, 0)
        gaps == SortedGaps(exact, <<>>)
        highest == Least(RequestWaves(Len(exact), MaxConcurrentReads) - 1,
                         MaxRangeRequests \div MaxConcurrentReads)
        InWaves(w) == MergeSmallestGaps(exact, gaps, Len(exact) - w * MaxConcurrentReads)
        Small(w) == RangeBytes(InWaves(w)) <= MaxByteAmplification * RangeBytes(exact)
        kept == {w \in 1..highest : \A v \in w..highest : Small(v)}
    IN  IF exact = <<>> THEN <<exact>>
        ELSE <<exact>> \o [k \in 1..Cardinality(kept) |-> InWaves(highest + 1 - k)]

\* The choice of choose_range_plan: without an estimate the exact plan, or the first
\* merged one if that has too many requests; with an estimate the fewest bytes among
\* the plans that cost at most a tenth more than the cheapest.
ChooseAmong(candidates, delay) ==
    LET coldStart == IF Len(candidates[1]) > MaxRangeRequests /\ Len(candidates) > 1 THEN 2 ELSE 1
        Cost(i) == RangeCostBytes(candidates[i], delay)
        best == Min({Cost(i) : i \in DOMAIN candidates})
        competitive == {i \in DOMAIN candidates :
                          Cost(i) <= best + (best * DecisionMarginPercent) \div 100}
        NoWorse(i, j) == LET a == candidates[i] b == candidates[j]
                         IN  \/ RangeBytes(a) < RangeBytes(b)
                             \/ RangeBytes(a) = RangeBytes(b) /\ Len(a) <= Len(b)
    IN  IF delay = NoEstimate THEN candidates[coldStart]
        ELSE candidates[Min({i \in competitive : \A j \in competitive : NoWorse(i, j)})]

ChooseRangePlan(requested, delay) == ChooseAmong(CandidateRangePlans(requested), delay)

\* partial_read_cost_bytes: latency of later waves hides behind delivery.
PartialReadCostBytes(bytes, requests, delay, concurrency, overhead) ==
    LET latency == delay * RequestWaves(requests, concurrency)
        overlap == Least((bytes * Larger(concurrency - 1, 0)) \div Larger(concurrency, 1),
                         Larger(latency - delay, 0))
        processing == overhead * requests + (IF requests = 0 THEN 0 ELSE delay)
    IN  Larger(bytes + latency - overlap, processing)

\* choose_bounded_range_plan_avoiding: gaps that hold cached bytes are never
\* merged; of the affordable plans the first cheapest.
ChooseBoundedRangePlan(requested, cached, delay, concurrency, byteBudget, overhead) ==
    LET exact == MergeRanges(requested, 0)
        held == MergeRanges(cached, 0)
        gaps == SortedGaps(exact, held)
        BytesAfter(n) == RangeBytes(exact) + SumOf([k \in 1..n |-> gaps[k][1]])
        affordable == {n \in 0..Len(gaps) : BytesAfter(n) <= byteBudget}
        Cost(n) == PartialReadCostBytes(BytesAfter(n), Len(exact) - n, delay, concurrency, overhead)
    IN  IF \/ RangeBytes(exact) > byteBudget
           \/ concurrency = 0 /\ exact # <<>>
           \/ \E i \in DOMAIN exact : Overlaps(exact[i], held)
        THEN NoPlan
        ELSE MergeSmallestGaps(exact, gaps,
               Min({n \in affordable : \A m \in affordable : Cost(n) <= Cost(m)}))

\* What merge_ranges promises of a plan, and the choosers keep: physical ranges
\* that are sorted and do not touch, each requested range within one of them.
Covers(plan, requested) ==
    /\ plan \in Seq(Nat \X Nat) /\ \A j \in DOMAIN plan : plan[j][1] <= plan[j][2]
    /\ \A j, k \in DOMAIN plan : j < k => plan[j][2] < plan[k][1]
    /\ \A i \in DOMAIN requested : \E j \in DOMAIN plan :
         plan[j][1] <= requested[i][1] /\ requested[i][2] <= plan[j][2]

\* What the object holds: the byte at each offset is its offset.
BytesOf(r) == [k \in 1..(r[2] - r[1]) |-> r[1] + k - 1]

\* The tail of execute_range_plan: each requested range is cut from the last
\* physical range that starts no later.
SliceResults(requested, physical, bytes) ==
    [i \in DOMAIN requested |->
       LET r == requested[i]
           p == Max({j \in DOMAIN physical : physical[j][1] <= r[1]})
       IN  SubSeq(bytes[p], r[1] - physical[p][1] + 1,
                  Least(r[2] - physical[p][1], Len(bytes[p])))]
=============================================================================
