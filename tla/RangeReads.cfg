SPECIFICATION FairRangeReadsSpec
CONSTANTS
    p1 = p1
    p2 = p2
    g1 = g1
    Reads = {p1, p2, g1}
    Plans = {p1, p2}
    Gets = {g1}
    WarmupPlans = {p2}
    Workloads <- MCWorkloads
    MergeGap = 2
    SharedReads = 2
    MaxConcurrentReads = 2
    MaxRangeRequests = 2
    NoEstimate = NoEstimate
    NoPlan = NoPlan
INVARIANTS
    SamplesIsolated
    RequestedBytesReturned
    RecordedUncontended
    NothingLeaks
PROPERTIES
    PlansEnd
