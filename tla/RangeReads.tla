----------------------------- MODULE RangeReads -----------------------------
(***************************************************************************)
(* The payload reads of one object store (metered_object_store.rs): range  *)
(* plans, whose requests run concurrently and take their slots from one    *)
(* shared budget, and plain GETs.  Any request may fail or come back       *)
(* short, any read may be dropped.  A completed plan returns its requested *)
(* ranges and may become a transport sample (network_profile.rs).          *)
(***************************************************************************)
EXTENDS RangePlanning, ReadActivity, WaitQueues

CONSTANTS
    Plans,          \* calls of get_ranges and read_partial_ranges
    Gets,           \* calls of get_opts with a body
    WarmupPlans,    \* plans recorded in a profile that requires isolated reads
    Workloads,      \* what the plans may be asked for: functions from Plans, see Begin
    MergeGap,       \* OBJECT_STORE_COALESCE_DEFAULT
    SharedReads     \* MAX_SHARED_RANGE_READS, the permits of RANGE_READ_PERMITS

ASSUME RangeReadsAssumption ==
    /\ Reads = Plans \cup Gets /\ Plans \cap Gets = {}
    /\ WarmupPlans \subseteq Plans
    /\ SharedReads \in Nat \ {0} /\ MergeGap \in Nat

\* The strategies of get_ranges, and the bounded reads of the partial-page readers.
Strategies ==
    {"ReadExactRanges", "MergeRangesWithinOneMegabyte", "ChooseAutomatically",
     "UseStoreImplementation", "Partial"}

\* A call asks for ranges that do not end before they start; its delay is the
\* bandwidth_delay_bytes of the estimate, if there is one.
WellFormed(call) ==
    /\ call.ranges \in Seq(Nat \X Nat)
    /\ \A i \in DOMAIN call.ranges : call.ranges[i][1] <= call.ranges[i][2]
    /\ call.strategy \in Strategies
    /\ call.delay # NoEstimate => call.delay \in Nat

ASSUME WorkloadsAssumption == \A work \in Workloads : \A c \in Plans : WellFormed(work[c])

VARIABLES
    input,      \* input[c]: the ranges, strategy and network estimate of call c
    phase,      \* phase[c]: where plan c is
    requested,  \* requested[c]: the ranges plan c has to return
    physical,   \* physical[c]: the ranges it reads
    width,      \* width[c]: requests it runs at once
    started,    \* started[c]: requests polled for the first time, in order
    refused,    \* refused[c]: requests whose try_acquire failed, before acquire
    queued,     \* queued[c]: CompletedRangeRead::queued of its requests
    completed,  \* completed[c]: its completed requests, in order of completion
    budget,     \* claims on the request budget, first come first; the first SharedReads hold
    results,    \* results[c]: what the call returned
    recorded,   \* recorded[c]: the samples that were recorded of it
    waited,     \* plans a request of which had to wait for a slot (a history variable)
    get         \* get[g]: where plain GET g is

planVars == <<input, phase, requested, physical, width, started, refused, queued,
              completed, budget, results, recorded, waited>>
rangeVars == <<planVars, get, activityVars>>

RangeReadsInit ==
    /\ ActivityInit
    /\ input \in Workloads
    /\ phase = [c \in Plans |-> "idle"]
    /\ requested = [c \in Plans |-> <<>>]
    /\ physical = [c \in Plans |-> <<>>]
    /\ width = [c \in Plans |-> 0]
    /\ started = [c \in Plans |-> 0]
    /\ refused = [c \in Plans |-> {}]
    /\ queued = [c \in Plans |-> {}]
    /\ completed = [c \in Plans |-> <<>>]
    /\ budget = <<>>
    /\ results = [c \in Plans |-> <<>>]
    /\ recorded = [c \in Plans |-> {}]
    /\ waited = {}
    /\ get = [g \in Gets |-> "idle"]

-----------------------------------------------------------------------------
(* The shared budget: a tokio semaphore is fair and hands a released permit  *)
(* to the longest waiter.                                                    *)

Holds(claim) == \E k \in 1..Least(SharedReads, Len(budget)) : budget[k] = claim

\* Dropping the futures of plan c drops their permits and their queue entries.
ReleaseHeldOnly(c) ==
    budget' = Without(budget, {claim \in ToSet(budget) : claim[1] = c /\ Holds(claim)})

ReleaseAll(c) == budget' = Without(budget, {claim \in ToSet(budget) : claim[1] = c})

\* The call is over: its futures and its other locals are dropped.
EndCall(c, how) ==
    /\ phase' = [phase EXCEPT ![c] = how]
    /\ requested' = [requested EXCEPT ![c] = <<>>]
    /\ physical' = [physical EXCEPT ![c] = <<>>]
    /\ width' = [width EXCEPT ![c] = 0]
    /\ started' = [started EXCEPT ![c] = 0]
    /\ refused' = [refused EXCEPT ![c] = {}]
    /\ queued' = [queued EXCEPT ![c] = {}]
    /\ completed' = [completed EXCEPT ![c] = <<>>]
    /\ results' = [results EXCEPT ![c] = <<>>]
    /\ recorded' = [recorded EXCEPT ![c] = {}]
    /\ waited' = waited \ {c}
    /\ ReleaseAll(c)
    /\ EndRead(c)
    /\ UNCHANGED <<input, get>>

-----------------------------------------------------------------------------
(* Starting a plan.                                                          *)

\* The physical ranges of a call, by its strategy; the store plans for itself.
PlanOf(call) ==
    CASE call.strategy = "ReadExactRanges" -> MergeRanges(call.ranges, 0)
      [] call.strategy = "MergeRangesWithinOneMegabyte" -> MergeRanges(call.ranges, MergeGap)
      [] call.strategy = "ChooseAutomatically" -> ChooseRangePlan(call.ranges, call.delay)
      [] call.strategy = "Partial" ->
           ChooseBoundedRangePlan(call.ranges, <<>>, call.delay, SharedReads, call.byteBudget, 0)
      [] OTHER -> <<>>

\* get_ranges by its strategy, and read_partial_ranges_with_timing for the
\* bounded plans of the partial-page readers, which return physical buffers.
Begin(c) ==
    LET ranges == input[c].ranges
        plan == PlanOf(input[c])
    IN  /\ phase[c] = "idle" /\ ranges # <<>> /\ plan # NoPlan
        /\ phase' = [phase EXCEPT ![c] =
                       IF input[c].strategy = "UseStoreImplementation" THEN "delegated" ELSE "reading"]
        /\ requested' = [requested EXCEPT ![c] = IF input[c].strategy = "Partial" THEN plan ELSE ranges]
        /\ physical' = [physical EXCEPT ![c] = plan]
        /\ width' = [width EXCEPT ![c] = IF input[c].strategy = "Partial"
                                         THEN Least(Len(plan), SharedReads)
                                         ELSE MaxConcurrentReads]
        /\ StartRead(c)
        /\ UNCHANGED <<input, started, refused, queued, completed, budget, results, recorded, waited, get>>

\* get_ranges of an empty list returns before anything else.
BeginEmpty(c) ==
    /\ phase[c] = "idle" /\ input[c].ranges = <<>>
    /\ phase' = [phase EXCEPT ![c] = "done"]
    /\ UNCHANGED <<input, requested, physical, width, started, refused, queued, completed, budget,
                   results, recorded, waited, get, activityVars>>

-----------------------------------------------------------------------------
(* Its requests: buffer_unordered over read_range_with_timing.               *)

\* The next request is polled first: try_acquire.
StartRequest(c) ==
    LET i == started[c] + 1
        free == Len(budget) < SharedReads
    IN  /\ phase[c] = "reading" /\ i \in DOMAIN physical[c]
        /\ started[c] - Len(completed[c]) < width[c]
        /\ started' = [started EXCEPT ![c] = i]
        /\ budget' = IF free THEN Append(budget, <<c, i>>) ELSE budget
        /\ refused' = [refused EXCEPT ![c] = IF free THEN @ ELSE @ \cup {i}]
        /\ queued' = [queued EXCEPT ![c] = IF free THEN @ ELSE @ \cup {i}]
        /\ UNCHANGED <<input, phase, requested, physical, width, completed, results, recorded, waited,
                       get, activityVars>>

\* acquire, after try_acquire found no permit.
QueueRequest(c, i) ==
    /\ i \in refused[c]
    /\ budget' = Append(budget, <<c, i>>)
    /\ refused' = [refused EXCEPT ![c] = @ \ {i}]
    /\ waited' = IF Len(budget) < SharedReads THEN waited ELSE waited \cup {c}
    /\ UNCHANGED <<input, phase, requested, physical, width, started, queued, completed, results,
                   recorded, get, activityVars>>

CompleteRequestKeepsPermit(c, i) ==
    /\ phase[c] = "reading" /\ Holds(<<c, i>>)
    /\ i \notin ToSet(completed[c])
    /\ completed' = [completed EXCEPT ![c] = Append(@, i)]
    /\ UNCHANGED <<input, phase, requested, physical, width, started, refused, queued, budget,
                   results, recorded, waited, get, activityVars>>

\* All bytes of the range arrived; the permit is held no longer.
CompleteRequest(c, i) ==
    /\ phase[c] = "reading" /\ Holds(<<c, i>>)
    /\ completed' = [completed EXCEPT ![c] = Append(@, i)]
    /\ budget' = Without(budget, {<<c, i>>})
    /\ UNCHANGED <<input, phase, requested, physical, width, started, refused, queued, results,
                   recorded, waited, get, activityVars>>

\* The request failed, or returned an unexpected number of bytes: try_collect
\* drops the other requests and the plan fails.
FailRequest(c, i) ==
    /\ phase[c] = "reading" /\ Holds(<<c, i>>)
    /\ EndCall(c, "failed")

-----------------------------------------------------------------------------
(* The end of a plan.                                                        *)

\* What execute_range_plan returns: the buffers sorted by their index, and cut.
PlanResultsAsCompleted(c) ==
    SliceResults(requested[c], physical[c],
                 [k \in DOMAIN completed[c] |-> BytesOf(physical[c][completed[c][k]])])

\* The indexes in increasing order; no two requests have the same.
Rank(done, i) == Cardinality({j \in DOMAIN done : done[j] <= i})
Sorted(done) == [k \in DOMAIN done |-> CHOOSE i \in ToSet(done) : Rank(done, i) = k]

PlanResults(c) ==
    LET ordered == Sorted(completed[c])
    IN  SliceResults(requested[c], physical[c],
                     [k \in DOMAIN ordered |-> BytesOf(physical[c][ordered[k]])])

RecordedIgnoringQueue(c, canSample) ==
    IF canSample \/ c \notin WarmupPlans THEN {"transport"} ELSE {}

\* record_range_plan and record_request_interval: which samples a plan leaves.
\* Only partial reads keep an interval, of two waves of at least four requests.
Recorded(c, canSample) ==
    {s \in {"transport", "interval"} :
       \/ /\ s = "transport" /\ completed[c] # <<>>
          /\ width[c] <= MaxConcurrentReads /\ queued[c] = {}
          /\ canSample \/ c \notin WarmupPlans
       \/ /\ s = "interval" /\ canSample /\ input[c].strategy = "Partial"
          /\ Len(completed[c]) >= 4 /\ Len(completed[c]) \div 2 >= width[c]}

FinishPlan(c) ==
    LET canSample == CanSample(c) /\ queued[c] = {}
    IN  /\ phase[c] = "reading" /\ Len(completed[c]) = Len(physical[c])
        /\ phase' = [phase EXCEPT ![c] = "returning"]
        /\ results' = [results EXCEPT ![c] = PlanResults(c)]
        /\ recorded' = [recorded EXCEPT ![c] = Recorded(c, canSample)]
        /\ JudgeRead(c, canSample)
        /\ UNCHANGED <<input, requested, physical, width, started, refused, queued, completed, budget,
                       waited, get>>

\* inner.get_ranges answers.
AnswerDelegated(c) ==
    /\ phase[c] = "delegated"
    /\ phase' = [phase EXCEPT ![c] = "returning"]
    /\ results' = [results EXCEPT ![c] = [i \in DOMAIN requested[c] |-> BytesOf(requested[c][i])]]
    /\ UNCHANGED <<input, requested, physical, width, started, refused, queued, completed, budget,
                   recorded, waited, get, activityVars>>

FailDelegated(c) ==
    /\ phase[c] = "delegated"
    /\ EndCall(c, "failed")

\* The call returns its results and drops its ActiveRead.
ReturnPlan(c) ==
    /\ phase[c] = "returning"
    /\ EndCall(c, "done")

\* The caller drops the call at one of its awaits.
DropPlan(c) ==
    /\ phase[c] \in {"reading", "delegated"}
    /\ EndCall(c, "dropped")

-----------------------------------------------------------------------------
(* Plain GETs: get_opts and track_response_body.                             *)

BeginGet(g) ==
    /\ get[g] = "idle"
    /\ get' = [get EXCEPT ![g] = "headers"]
    /\ StartRead(g)
    /\ UNCHANGED planVars

\* Headers alone do not end a read.
GetHeaders(g) ==
    /\ get[g] = "headers"
    /\ get' = [get EXCEPT ![g] = "body"]
    /\ UNCHANGED <<planVars, activityVars>>

\* No answer, the end or an error of the body, or the response is dropped.
EndGet(g) ==
    /\ get[g] \in {"headers", "body"}
    /\ get' = [get EXCEPT ![g] = "over"]
    /\ EndRead(g)
    /\ UNCHANGED planVars

-----------------------------------------------------------------------------
Over == /\ \A c \in Plans : phase[c] \in {"done", "failed", "dropped"}
        /\ \A g \in Gets : get[g] = "over"

AllReadsOver == Over /\ UNCHANGED rangeVars

PlanStep(c) ==
    \/ StartRequest(c)
    \/ \E i \in DOMAIN physical[c] : QueueRequest(c, i) \/ CompleteRequest(c, i)
    \/ FinishPlan(c) \/ AnswerDelegated(c) \/ ReturnPlan(c)

PlanFault(c) ==
    \/ \E i \in DOMAIN physical[c] : FailRequest(c, i)
    \/ FailDelegated(c) \/ DropPlan(c)

RangeReadsNext ==
    \/ \E c \in Plans : Begin(c) \/ BeginEmpty(c) \/ PlanStep(c) \/ PlanFault(c)
    \/ \E g \in Gets : BeginGet(g) \/ GetHeaders(g) \/ EndGet(g)
    \/ AllReadsOver

\* The caller polls its plan, and a request that does not fail completes.
RangeReadsFairness == \A c \in Plans : WF_rangeVars(PlanStep(c))

RangeReadsSpec == RangeReadsInit /\ [][RangeReadsNext]_rangeVars
FairRangeReadsSpec == RangeReadsSpec /\ RangeReadsFairness

-----------------------------------------------------------------------------
(* Properties                                                               *)

\* A plan that returns has exactly the requested bytes, in the caller's order:
\* whatever was merged, in whichever order the requests completed, and with
\* duplicates and overlaps among the requested ranges.
RequestedBytesReturned ==
    \A c \in Plans : phase[c] = "returning" =>
      results[c] = [i \in DOMAIN requested[c] |-> BytesOf(requested[c][i])]

\* No sample of a plan that waited for a slot, and none of a warmup's profile,
\* nor any request interval, of a plan that met another read.
RecordedUncontended ==
    \A c \in Plans :
      /\ recorded[c] # {} => c \notin waited
      /\ recorded[c] # {} /\ c \in WarmupPlans => c \notin met
      /\ "interval" \in recorded[c] => c \notin met

\* Failed and dropped plans leave nothing behind: when all reads are over, no
\* permit of the budget is taken and the store counts as idle.
NothingLeaks == Over => budget = <<>> /\ activeReads = 0

\* A plan that is begun and polled ends, though it shares the budget with plans
\* that fail or are dropped while they hold permits or wait for them.
PlansEnd == \A c \in Plans : phase[c] = "reading" ~> phase[c] \in {"done", "failed", "dropped"}

\* The inductive invariant of the samples: a request that waited was refused
\* first, a plan with such a request records nothing, and what needs isolation
\* was judged isolated.
SampleInv ==
    /\ ActivityInv
    /\ phase \in [Plans -> {"idle", "reading", "delegated", "returning",
                            "done", "failed", "dropped"}]
    /\ started \in [Plans -> Nat]
    /\ {refused, queued} \subseteq [Plans -> SUBSET Nat]
    /\ recorded \in [Plans -> SUBSET {"transport", "interval"}]
    /\ \A c \in Plans :
         /\ refused[c] \subseteq queued[c]
         /\ c \in waited => queued[c] # {}
         /\ recorded[c] # {} => queued[c] = {} /\ phase[c] = "returning"
         /\ recorded[c] # {} /\ (c \in WarmupPlans \/ "interval" \in recorded[c]) => sampled[c]

\* Behind NothingLeaks: the reads of calls that are under way, and no others,
\* are active, and only such calls claim permits or are about to.
UnderWay(c) == phase[c] \in {"reading", "delegated", "returning"}

LeakInv ==
    /\ \A c \in Plans : (c \in holders <=> UnderWay(c)) /\ (refused[c] # {} => UnderWay(c))
    /\ get \in [Gets -> {"idle", "headers", "body", "over"}]
    /\ \A g \in Gets : g \in holders <=> get[g] \in {"headers", "body"}
    /\ budget \in Seq(Plans \X Nat)
    /\ \A k \in 1..Len(budget) : UnderWay(budget[k][1])

\* What the planners promise of every call, as a function of its input alone.
Planned(call) ==
    call.strategy # "UseStoreImplementation" /\ PlanOf(call) # NoPlan =>
      Covers(PlanOf(call), call.ranges)

\* Behind RequestedBytesReturned: no request of plan c completes twice, although
\* it may wait for its permit between any steps of its own and other plans.
RequestOK(c) ==
    /\ started[c] <= Len(physical[c]) /\ (~UnderWay(c) => started[c] = 0)
    /\ phase[c] = "reading" =>
         /\ Covers(physical[c], requested[c])
         /\ \A i \in DOMAIN requested[c] : requested[c][i][1] <= requested[c][i][2]
    /\ refused[c] \subseteq 1..started[c]
    /\ \A k \in 1..Len(budget) : budget[k][1] = c =>
         /\ budget[k][2] \in 1..started[c] /\ budget[k][2] \notin refused[c]
         /\ \A j \in 1..Len(completed[c]) : completed[c][j] # budget[k][2]
    /\ \A k \in 1..Len(completed[c]) :
         /\ completed[c][k] \in 1..started[c] /\ completed[c][k] \notin refused[c]
         /\ \A j \in 1..(k - 1) : completed[c][j] # completed[c][k]

RequestInv ==
    /\ input \in Workloads
    /\ requested \in [Plans -> Seq(Nat \X Nat)] /\ physical \in [Plans -> Seq(Nat \X Nat)]
    /\ completed \in [Plans -> Seq(Nat)] /\ DOMAIN results = Plans
    /\ \A c \in Plans : RequestOK(c)
=============================================================================
