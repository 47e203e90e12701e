------------------------ MODULE DirectParquetProofs ------------------------
(***************************************************************************)
(* Proofs about the two shared resources of the direct Parquet reader.     *)
(* For any number of reads, any workload and any request budget: what      *)
(* can_sample accepts was measured alone, a plan that waited for a slot or *)
(* met another read leaves no sample that needs isolation, and calls that  *)
(* fail or are dropped leave no permit and no active read behind; and if   *)
(* the planners cover what they are asked for, a plan returns exactly the  *)
(* requested bytes, whatever the order of its requests.  For any           *)
(* number of range tasks and files: one copy of a file's deleted rows, and *)
(* no metadata load that a failed or cancelled task does not account for.  *)
(***************************************************************************)
EXTENDS RangeReads, FileOpening, SequenceLemmas

(* ---- the activity counter ---------------------------------------------- *)

LEMMA InitActivityInv == ActivityInit => ActivityInv
<1> SUFFICES ASSUME ActivityInit PROVE ActivityInv
  OBVIOUS
<1>1. ActivityTypeOK
  BY DEF ActivityInit, ActivityTypeOK
<1>2. IsFiniteSet(holders) /\ activeReads = Cardinality(holders)
  BY FS_EmptySet DEF ActivityInit
<1> QED
  BY <1>1, <1>2 DEF ActivityInit, ActivityInv, CanSample

\* A read that starts: nobody else carries the epoch any more, and it carries
\* it only if nobody is there to be met.
LEMMA StartReadInv ==
    ASSUME ActivityInv, NEW r \in Reads, StartRead(r)
    PROVE  ActivityInv'
<1> USE DEF StartRead, BeginLive
<1>1. ActivityTypeOK'
  BY DEF ActivityInv, ActivityTypeOK
<1>2. (IsFiniteSet(holders) /\ activeReads = Cardinality(holders))'
  BY FS_AddElement DEF ActivityInv
<1>3. activeReads = 0 <=> holders = {}
  BY FS_EmptySet DEF ActivityInv
<1>4. (holders # {} => readEpoch > 0)' /\ (met \subseteq holders)'
  BY DEF ActivityInv, ActivityTypeOK
<1>5. ASSUME NEW s \in Reads
      PROVE  (isolatedEpoch[s] <= readEpoch)'
  BY DEF ActivityInv, ActivityTypeOK
<1>6. ASSUME NEW s \in Reads, s \in holders', CanSample(s)'
      PROVE  s \notin met'
  <2>1. CASE s = r
    <3>1. activeReads = 0
      BY <1>6, <2>1 DEF CanSample, ActivityInv, ActivityTypeOK
    <3>2. live = {} /\ r \notin met
      BY <1>3, <3>1 DEF ActivityInv, ActivityTypeOK
    <3> QED
      BY <2>1, <3>2
  <2>2. CASE s # r
    BY <1>6, <2>2 DEF CanSample, ActivityInv, ActivityTypeOK
  <2> QED
    BY <2>1, <2>2
<1>7. ASSUME NEW s \in Reads, sampled'[s]
      PROVE  s \in holders' /\ s \notin live' /\ s \notin met'
  <2>1. sampled[s] /\ s \in holders /\ s \notin live /\ s \notin met
    BY <1>7 DEF ActivityInv
  <2> QED
    BY <2>1
<1> QED
  BY <1>1, <1>2, <1>4, <1>5, <1>6, <1>7 DEF ActivityInv

\* The judgement that a timing was isolated rests on the epoch alone.
LEMMA JudgeReadInv ==
    ASSUME ActivityInv, NEW r \in Reads, NEW answer \in BOOLEAN,
           answer => CanSample(r), JudgeRead(r, answer)
    PROVE  ActivityInv'
<1> USE DEF JudgeRead
<1>1. ActivityTypeOK'
  <2>1. sampled' \in [Reads -> BOOLEAN]
    BY Zenon DEF ActivityInv, ActivityTypeOK
  <2> QED
    BY <2>1 DEF ActivityInv, ActivityTypeOK
<1>2. r \in holders /\ (answer => r \notin met)
  BY DEF ActivityInv, ActivityTypeOK
<1>3. ASSUME NEW s \in Reads, sampled'[s]
      PROVE  s \in holders /\ s \notin live' /\ s \notin met
  <2>1. CASE s = r
    BY <1>2, <1>3, <2>1 DEF ActivityInv, ActivityTypeOK
  <2>2. CASE s # r
    BY <1>3, <2>2 DEF ActivityInv, ActivityTypeOK
  <2> QED
    BY <2>1, <2>2
<1> QED
  BY <1>1, <1>3 DEF ActivityInv, CanSample

\* A read that ends gives its place in the counter back and nothing else.
LEMMA EndReadInv ==
    ASSUME ActivityInv, NEW r \in Reads, EndRead(r)
    PROVE  ActivityInv'
<1> USE DEF EndRead
<1>1. (IsFiniteSet(holders) /\ activeReads = Cardinality(holders))'
  BY FS_RemoveElement DEF ActivityInv
<1>2. activeReads' \in Nat
  BY <1>1, FS_CardinalityType
<1>3. ActivityTypeOK'
  <2>1. sampled' \in [Reads -> BOOLEAN]
    BY Zenon DEF ActivityInv, ActivityTypeOK
  <2> QED
    BY <1>2, <2>1 DEF ActivityInv, ActivityTypeOK
<1>4. ASSUME NEW s \in Reads
      PROVE  /\ (isolatedEpoch[s] <= readEpoch)'
             /\ s \in holders' /\ CanSample(s)' => s \notin met'
             /\ sampled'[s] => s \in holders' /\ s \notin live' /\ s \notin met'
  <2>1. CASE s = r
    BY <2>1 DEF ActivityInv, ActivityTypeOK
  <2>2. CASE s # r
    BY <2>2 DEF CanSample, ActivityInv, ActivityTypeOK
  <2> QED
    BY <2>1, <2>2
<1> QED
  BY <1>1, <1>3, <1>4 DEF ActivityInv

LEMMA ActivityStutterInv ==
    ASSUME ActivityInv, UNCHANGED activityVars
    PROVE  ActivityInv'
BY DEF ActivityInv, ActivityTypeOK, CanSample, activityVars

LEMMA ActivityNextInv ==
    ASSUME ActivityInv, [ActivityNext]_activityVars
    PROVE  ActivityInv'
BY StartReadInv, JudgeReadInv, EndReadInv, ActivityStutterInv DEF ActivityNext

\* What can_sample of ActiveRead accepts was measured alone, for any readers
\* that start, judge and end their reads in any order.
THEOREM SamplesAreIsolated == ActivitySpec => []SamplesIsolated
<1>1. ActivityInv /\ [ActivityNext]_activityVars => ActivityInv'
  BY ActivityNextInv
<1>2. ActivityInv => SamplesIsolated
  BY DEF ActivityInv, SamplesIsolated
<1> QED
  BY InitActivityInv, <1>1, <1>2, PTL DEF ActivitySpec

(* ---- the reads --------------------------------------------------------- *)

\* What every step of a read does to the activity is a step of the counter:
\* plans and GETs take, judge and drop their ActiveRead and touch nothing else.
LEMMA ReadsStepActivity ==
    ASSUME RangeReadsNext PROVE [ActivityNext]_activityVars
<1> USE RangeReadsAssumption
<1>1. ASSUME NEW c \in Plans, NEW how, EndCall(c, how)
      PROVE  ActivityNext
  BY <1>1 DEF EndCall, ActivityNext
<1>2. ASSUME NEW c \in Plans, FinishPlan(c)
      PROVE  ActivityNext
  <2>1. (CanSample(c) /\ queued[c] = {}) \in BOOLEAN
    OBVIOUS
  <2>2. JudgeRead(c, CanSample(c) /\ queued[c] = {})
    BY <1>2 DEF FinishPlan
  <2> QED
    BY <2>1, <2>2 DEF ActivityNext
<1>3. ASSUME NEW c \in Plans, Begin(c)
      PROVE  ActivityNext
  BY <1>3 DEF Begin, ActivityNext
<1>4. ASSUME NEW c \in Plans, PlanStep(c)
      PROVE  [ActivityNext]_activityVars
  BY <1>1, <1>2, <1>4
     DEF PlanStep, StartRequest, QueueRequest, CompleteRequest, AnswerDelegated, ReturnPlan
<1>5. ASSUME NEW c \in Plans, PlanFault(c)
      PROVE  ActivityNext
  BY <1>1, <1>5 DEF PlanFault, FailRequest, FailDelegated, DropPlan
<1>6. ASSUME NEW g \in Gets, BeginGet(g) \/ GetHeaders(g) \/ EndGet(g)
      PROVE  [ActivityNext]_activityVars
  BY <1>6 DEF BeginGet, GetHeaders, EndGet, ActivityNext
<1>7. ASSUME AllReadsOver
      PROVE  UNCHANGED activityVars
  BY <1>7 DEF AllReadsOver, rangeVars
<1> QED
  BY <1>3, <1>4, <1>5, <1>6, <1>7 DEF RangeReadsNext, BeginEmpty

\* The payload reads of a store implement the activity they share: every theorem
\* about ActivitySpec holds of them.
THEOREM ReadsImplementActivity == RangeReadsSpec => ActivitySpec
<1>1. RangeReadsInit => ActivityInit
  BY DEF RangeReadsInit
<1>2. [RangeReadsNext]_rangeVars => [ActivityNext]_activityVars
  BY ReadsStepActivity DEF rangeVars
<1> QED
  BY <1>1, <1>2, PTL DEF RangeReadsSpec, ActivitySpec

\* No timing that record_range_plan calls isolated overlapped another read of
\* the store, not even one that began and ended meanwhile.
THEOREM PlanSamplesIsolated == RangeReadsSpec => []SamplesIsolated
BY ReadsImplementActivity, SamplesAreIsolated, PTL

(* ---- the samples ------------------------------------------------------- *)

LEMMA InitSampleInv == RangeReadsInit => SampleInv
BY InitActivityInv DEF RangeReadsInit, SampleInv

\* A call that ends leaves no sample, no queue and no judgement behind.
LEMMA EndCallSampleInv ==
    ASSUME SampleInv, ActivityInv', NEW c \in Plans,
           NEW how \in {"done", "failed", "dropped"}, EndCall(c, how)
    PROVE  SampleInv'
<1> USE RangeReadsAssumption
<1>1. /\ phase' \in [Plans -> {"idle", "reading", "delegated", "returning",
                                "done", "failed", "dropped"}]
      /\ started' \in [Plans -> Nat]
      /\ {refused', queued'} \subseteq [Plans -> SUBSET Nat]
      /\ recorded' \in [Plans -> SUBSET {"transport", "interval"}]
  BY DEF EndCall, SampleInv
<1>2. ASSUME NEW d \in Plans
      PROVE  /\ refused'[d] \subseteq queued'[d]
             /\ d \in waited' => queued'[d] # {}
             /\ recorded'[d] # {} => queued'[d] = {} /\ phase'[d] = "returning"
             /\ recorded'[d] # {} /\ (d \in WarmupPlans \/ "interval" \in recorded'[d])
                  => sampled'[d]
  <2>1. CASE d = c
    BY <2>1 DEF EndCall, SampleInv
  <2>2. CASE d # c
    BY <2>2 DEF EndCall, EndRead, SampleInv, ActivityInv, ActivityTypeOK
  <2> QED
    BY <2>1, <2>2
<1> QED
  BY <1>1, <1>2 DEF SampleInv

\* A finished plan: a sample that needs isolation is recorded only with it, and
\* none if a request was refused.
LEMMA FinishPlanSampleInv ==
    ASSUME SampleInv, ActivityInv', NEW c \in Plans, FinishPlan(c)
    PROVE  SampleInv'
<1> DEFINE canSample == CanSample(c) /\ queued[c] = {}
<1> USE RangeReadsAssumption
<1>1. /\ phase[c] = "reading" /\ phase' = [phase EXCEPT ![c] = "returning"]
      /\ recorded' = [recorded EXCEPT ![c] = Recorded(c, canSample)]
      /\ sampled' = [sampled EXCEPT ![c] = canSample]
      /\ UNCHANGED <<started, refused, queued, waited>>
  BY DEF FinishPlan, JudgeRead
<1>2. /\ Recorded(c, canSample) \subseteq {"transport", "interval"}
      /\ Recorded(c, canSample) # {} => queued[c] = {}
      /\ c \in WarmupPlans /\ Recorded(c, canSample) # {} => canSample
      /\ "interval" \in Recorded(c, canSample) => canSample
  BY DEF Recorded
<1> HIDE DEF canSample
<1>3. /\ phase' \in [Plans -> {"idle", "reading", "delegated", "returning",
                                "done", "failed", "dropped"}]
      /\ recorded' \in [Plans -> SUBSET {"transport", "interval"}]
  BY <1>1, <1>2 DEF SampleInv
<1>4. ASSUME NEW d \in Plans
      PROVE  /\ recorded'[d] # {} => queued[d] = {} /\ phase'[d] = "returning"
             /\ recorded'[d] # {} /\ (d \in WarmupPlans \/ "interval" \in recorded'[d])
                  => sampled'[d]
  <2>1. CASE d = c
    <3>1. /\ recorded'[d] = Recorded(c, canSample) /\ phase'[d] = "returning"
          /\ sampled'[d] = canSample
      BY <1>1, <2>1 DEF SampleInv, ActivityInv, ActivityTypeOK
    <3> QED
      BY <1>2, <2>1, <3>1
  <2>2. CASE d # c
    BY <1>1, <2>2 DEF SampleInv, ActivityInv, ActivityTypeOK
  <2> QED
    BY <2>1, <2>2
<1> QED
  BY <1>1, <1>3, <1>4 DEF SampleInv

\* The requests of a plan: only one that was refused waits, and only while the
\* plan has recorded nothing.
LEMMA RequestSampleInv ==
    ASSUME SampleInv, ActivityInv', NEW c \in Plans, NEW i,
           StartRequest(c) \/ QueueRequest(c, i) \/ CompleteRequest(c, i)
    PROVE  SampleInv'
<1>1. CASE StartRequest(c)
  <2>1. ASSUME NEW d \in Plans
        PROVE  /\ refused'[d] \subseteq queued'[d]
               /\ d \in waited => queued'[d] # {}
               /\ recorded[d] # {} => queued'[d] = {}
    BY <1>1 DEF StartRequest, SampleInv
  <2>2. started' \in [Plans -> Nat] /\ {refused', queued'} \subseteq [Plans -> SUBSET Nat]
    BY <1>1 DEF StartRequest, SampleInv
  <2> QED
    BY <1>1, <2>1, <2>2 DEF StartRequest, SampleInv, activityVars
<1>2. CASE QueueRequest(c, i)
  <2>1. refused' \in [Plans -> SUBSET Nat] /\ \A d \in Plans : refused'[d] \subseteq refused[d]
    BY <1>2 DEF QueueRequest, SampleInv
  <2>2. waited' \subseteq waited \cup {c} /\ queued[c] # {}
    BY <1>2 DEF QueueRequest, SampleInv
  <2> QED
    BY <1>2, <2>1, <2>2 DEF QueueRequest, SampleInv, activityVars
<1>3. CASE CompleteRequest(c, i)
  BY <1>3 DEF CompleteRequest, SampleInv, activityVars
<1> QED
  BY <1>1, <1>2, <1>3

\* A plan that starts, or whose store answers for it, has recorded nothing.
LEMMA BeginSampleInv ==
    ASSUME SampleInv, ActivityInv', NEW c \in Plans,
           Begin(c) \/ BeginEmpty(c) \/ AnswerDelegated(c)
    PROVE  SampleInv'
<1> USE RangeReadsAssumption
<1>1. /\ phase[c] # "returning"
      /\ \E how \in {"delegated", "reading", "done", "returning"} :
            phase' = [phase EXCEPT ![c] = how]
      /\ UNCHANGED <<started, refused, queued, recorded, waited, sampled>>
  BY DEF Begin, BeginEmpty, AnswerDelegated, StartRead, BeginLive, activityVars
<1>2. recorded[c] = {}
  BY <1>1 DEF SampleInv
<1>3. phase' \in [Plans -> {"idle", "reading", "delegated", "returning",
                            "done", "failed", "dropped"}]
  BY <1>1 DEF SampleInv
<1>4. \A d \in Plans : recorded[d] # {} => phase'[d] = "returning"
  BY <1>1, <1>2 DEF SampleInv
<1> QED
  BY <1>1, <1>3, <1>4 DEF SampleInv

\* Plain GETs take part in the activity and in nothing else.
LEMMA GetSampleInv ==
    ASSUME SampleInv, ActivityInv', NEW g \in Gets,
           BeginGet(g) \/ GetHeaders(g) \/ EndGet(g)
    PROVE  SampleInv'
<1>1. \A d \in Plans : sampled'[d] = sampled[d]
  BY RangeReadsAssumption
     DEF BeginGet, GetHeaders, EndGet, StartRead, BeginLive, EndRead, activityVars,
         SampleInv, ActivityInv, ActivityTypeOK
<1>2. UNCHANGED planVars
  BY DEF BeginGet, GetHeaders, EndGet
<1> QED
  BY <1>1, <1>2 DEF SampleInv, planVars

LEMMA NextSampleInv ==
    ASSUME SampleInv, [RangeReadsNext]_rangeVars
    PROVE  SampleInv'
<1>1. ActivityInv'
  BY ReadsStepActivity, ActivityNextInv DEF SampleInv, rangeVars
<1>2. ASSUME NEW c \in Plans, PlanStep(c)
      PROVE  SampleInv'
  BY <1>1, <1>2, RequestSampleInv, FinishPlanSampleInv, BeginSampleInv, EndCallSampleInv
     DEF PlanStep, ReturnPlan
<1>3. ASSUME NEW c \in Plans, PlanFault(c)
      PROVE  SampleInv'
  BY <1>1, <1>3, EndCallSampleInv DEF PlanFault, FailRequest, FailDelegated, DropPlan
<1>4. ASSUME UNCHANGED rangeVars
      PROVE  SampleInv'
  BY <1>1, <1>4 DEF SampleInv, rangeVars, planVars, activityVars
<1> QED
  BY <1>1, <1>2, <1>3, <1>4, BeginSampleInv, GetSampleInv DEF RangeReadsNext, AllReadsOver

\* A plan that waited for a slot of the shared budget leaves no sample, and a
\* plan that met another read none that needs isolation.
THEOREM SamplesUncontended == RangeReadsSpec => []RecordedUncontended
<1>1. SampleInv => RecordedUncontended
  <2> SUFFICES ASSUME SampleInv, NEW c \in Plans, recorded[c] # {}
               PROVE  /\ c \notin waited
                      /\ c \in WarmupPlans \/ "interval" \in recorded[c] => c \notin met
    BY DEF RecordedUncontended
  <2>1. c \notin waited
    BY DEF SampleInv
  <2>2. sampled[c] => c \notin met
    BY RangeReadsAssumption DEF SampleInv, ActivityInv
  <2> QED
    BY <2>1, <2>2 DEF SampleInv
<1> QED
  BY InitSampleInv, NextSampleInv, <1>1, PTL DEF RangeReadsSpec

(* ---- permits and active reads ------------------------------------------ *)

\* A call that ends returns its permits, its queue entries and its ActiveRead.
LEMMA EndCallLeakInv ==
    ASSUME SampleInv, LeakInv, NEW c \in Plans, NEW how \in {"done", "failed", "dropped"},
           EndCall(c, how)
    PROVE  LeakInv'
<1> USE RangeReadsAssumption
<1> DEFINE gone == {claim \in ToSet(budget) : claim[1] = c}
<1>1. /\ phase' = [phase EXCEPT ![c] = how] /\ refused' = [refused EXCEPT ![c] = {}]
      /\ budget' = Without(budget, gone) /\ holders' = holders \ {c} /\ get' = get
  BY DEF EndCall, ReleaseAll, EndRead
<1> HIDE DEF gone
<1>2. \A d \in Plans : d # c => phase'[d] = phase[d]
  BY <1>1 DEF SampleInv
<1>3. phase'[c] \notin {"reading", "delegated", "returning"}
  BY <1>1 DEF SampleInv
<1>4. \A d \in Plans : (d \in holders' <=> UnderWay(d)') /\ (refused'[d] # {} => UnderWay(d)')
  BY <1>1, <1>2, <1>3 DEF LeakInv, SampleInv, UnderWay
<1>5. \A g \in Gets : g \in holders' <=> get'[g] \in {"headers", "body"}
  BY <1>1 DEF LeakInv
<1>6. budget' \in Seq(Plans \X Nat)
  BY <1>1, WithoutType DEF LeakInv
<1>7. ASSUME NEW k \in 1..Len(budget')
      PROVE  phase'[budget'[k][1]] \in {"reading", "delegated", "returning"}
  <2>1. Len(budget) \in Nat
    BY DEF LeakInv
  <2>2. PICK m \in 1..Len(budget) : budget'[k] = budget[m] /\ budget[m] \notin gone
    BY <1>1, <2>1, OnlyStayers
  <2>3. budget[m] \in ToSet(budget) /\ budget[m] \in Plans \X Nat
    BY DEF LeakInv, ToSet
  <2>4. budget[m][1] # c /\ budget[m][1] \in Plans
    BY <2>2, <2>3 DEF gone
  <2> QED
    BY <1>2, <2>2, <2>4 DEF LeakInv, UnderWay
<1>8. get' \in [Gets -> {"idle", "headers", "body", "over"}]
  BY <1>1 DEF LeakInv
<1> QED
  BY <1>4, <1>5, <1>6, <1>7, <1>8 DEF LeakInv, UnderWay

\* A request that starts, waits or completes belongs to a call under way.
LEMMA RequestLeakInv ==
    ASSUME SampleInv, LeakInv, NEW c \in Plans, NEW i,
           StartRequest(c) \/ QueueRequest(c, i) \/ CompleteRequest(c, i)
    PROVE  LeakInv'
<1>1. UNCHANGED <<phase, holders, get>>
  BY DEF StartRequest, QueueRequest, CompleteRequest, activityVars
<1>2. \A d \in Plans : UnderWay(d)' <=> UnderWay(d)
  BY <1>1 DEF UnderWay
<1>3. /\ UnderWay(c)
      /\ \A d \in Plans : refused'[d] # {} => refused[d] # {} \/ d = c
  BY DEF StartRequest, QueueRequest, CompleteRequest, LeakInv, SampleInv, UnderWay
<1>4. /\ budget' \in Seq(Plans \X Nat)
      /\ \A k \in 1..Len(budget') :
            \/ budget'[k][1] = c
            \/ \E m \in 1..Len(budget) : budget'[k] = budget[m]
  <2>1. CASE \E j \in Nat : budget' = Append(budget, <<c, j>>)
    <3>1. PICK j \in Nat : budget' = Append(budget, <<c, j>>)
      BY <2>1
    <3>2. budget \in Seq(Plans \X Nat) /\ <<c, j>> \in Plans \X Nat
      BY DEF LeakInv
    <3> QED
      BY <3>1, <3>2
  <2>2. CASE budget' = budget
    BY <2>2 DEF LeakInv
  <2>3. CASE CompleteRequest(c, i)
    <3>1. budget' = Without(budget, {<<c, i>>})
      BY <2>3 DEF CompleteRequest
    <3>2. Len(budget) \in Nat
      BY DEF LeakInv
    <3>3. budget' \in Seq(Plans \X Nat)
      BY <3>1, WithoutType DEF LeakInv
    <3>4. \A k \in 1..Len(budget') : \E m \in 1..Len(budget) : budget'[k] = budget[m]
      BY <3>1, <3>2, OnlyStayers
    <3> QED
      BY <3>3, <3>4
  <2>4. CASE StartRequest(c)
    <3>1. started[c] + 1 \in Nat
      BY DEF SampleInv
    <3> QED
      BY <2>1, <2>2, <2>4, <3>1 DEF StartRequest
  <2>5. CASE QueueRequest(c, i)
    <3>1. i \in Nat
      BY <2>5 DEF QueueRequest, SampleInv
    <3> QED
      BY <2>1, <2>5, <3>1 DEF QueueRequest
  <2> QED
    BY <2>3, <2>4, <2>5
<1>5. ASSUME NEW k \in 1..Len(budget')
      PROVE  phase[budget'[k][1]] \in {"reading", "delegated", "returning"}
  <2>1. CASE budget'[k][1] = c
    BY <1>3, <2>1 DEF UnderWay
  <2>2. CASE \E m \in 1..Len(budget) : budget'[k] = budget[m]
    <3>1. PICK m \in 1..Len(budget) : budget'[k] = budget[m]
      BY <2>2
    <3>2. UnderWay(budget[m][1])
      BY DEF LeakInv
    <3> QED
      BY <3>1, <3>2 DEF UnderWay
  <2> QED
    BY <1>4, <2>1, <2>2
<1>6. \A d \in Plans : (d \in holders <=> UnderWay(d)) /\ (refused'[d] # {} => UnderWay(d))
  BY <1>3 DEF LeakInv
<1>7. /\ \A d \in Plans : (d \in holders' <=> UnderWay(d)') /\ (refused'[d] # {} => UnderWay(d)')
      /\ \A k \in 1..Len(budget') : phase'[budget'[k][1]] \in {"reading", "delegated", "returning"}
  BY <1>1, <1>2, <1>5, <1>6
<1>8. /\ get' \in [Gets -> {"idle", "headers", "body", "over"}]
      /\ \A g \in Gets : g \in holders' <=> get'[g] \in {"headers", "body"}
  BY <1>1 DEF LeakInv
<1> QED
  BY <1>4, <1>7, <1>8 DEF LeakInv, UnderWay

\* A call that begins becomes active, and one that is about to return still is.
LEMMA PhaseLeakInv ==
    ASSUME SampleInv, LeakInv, NEW c \in Plans,
           Begin(c) \/ BeginEmpty(c) \/ AnswerDelegated(c) \/ FinishPlan(c)
    PROVE  LeakInv'
<1> USE RangeReadsAssumption
<1>1. UNCHANGED <<refused, budget, get>>
  BY DEF Begin, BeginEmpty, AnswerDelegated, FinishPlan
<1>2. /\ \A d \in Plans : d # c => (UnderWay(d)' <=> UnderWay(d))
      /\ UnderWay(c) => UnderWay(c)'
      /\ UnderWay(c)' <=> c \in holders'
      /\ holders' \subseteq holders \cup {c} /\ holders \subseteq holders'
  <2>1. CASE Begin(c)
    BY <2>1 DEF Begin, StartRead, BeginLive, UnderWay, SampleInv
  <2>2. CASE BeginEmpty(c)
    <3>1. /\ phase[c] = "idle" /\ phase' = [phase EXCEPT ![c] = "done"] /\ holders' = holders
          /\ c \in holders <=> UnderWay(c)
      BY <2>2 DEF BeginEmpty, LeakInv, activityVars
    <3>2. phase'[c] = "done" /\ \A d \in Plans : d # c => phase'[d] = phase[d]
      BY <3>1 DEF SampleInv
    <3> QED
      BY <3>1, <3>2 DEF UnderWay
  <2>3. CASE AnswerDelegated(c)
    BY <2>3 DEF AnswerDelegated, UnderWay, SampleInv, LeakInv, activityVars
  <2>4. CASE FinishPlan(c)
    BY <2>4 DEF FinishPlan, JudgeRead, UnderWay, SampleInv, LeakInv
  <2> QED
    BY <2>1, <2>2, <2>3, <2>4
<1>3. \A d \in Plans : (d \in holders' <=> UnderWay(d)') /\ (refused'[d] # {} => UnderWay(d)')
  BY <1>1, <1>2 DEF LeakInv
<1>4. \A k \in 1..Len(budget) : budget[k][1] \in Plans /\ UnderWay(budget[k][1])
  BY DEF LeakInv
<1> QED
  BY <1>1, <1>2, <1>3, <1>4 DEF LeakInv

\* A plain GET is active until its body ends or is dropped.
LEMMA GetLeakInv ==
    ASSUME SampleInv, LeakInv, NEW g \in Gets,
           BeginGet(g) \/ GetHeaders(g) \/ EndGet(g)
    PROVE  LeakInv'
<1> USE RangeReadsAssumption
<1>1. UNCHANGED <<phase, refused, budget>>
  BY DEF BeginGet, GetHeaders, EndGet, planVars
<1>2. /\ \A h \in Gets : h \in holders' <=> get'[h] \in {"headers", "body"}
      /\ \A d \in Plans : d \in holders' <=> d \in holders
  BY DEF BeginGet, GetHeaders, EndGet, StartRead, BeginLive, EndRead, activityVars, LeakInv
<1>3. get' \in [Gets -> {"idle", "headers", "body", "over"}]
  BY DEF BeginGet, GetHeaders, EndGet, LeakInv
<1>4. /\ \A d \in Plans : (d \in holders' <=> phase'[d] \in {"reading", "delegated", "returning"})
                        /\ (refused'[d] # {} => phase'[d] \in {"reading", "delegated", "returning"})
      /\ budget' \in Seq(Plans \X Nat)
      /\ \A k \in 1..Len(budget') : phase'[budget'[k][1]] \in {"reading", "delegated", "returning"}
  BY <1>1, <1>2 DEF LeakInv, UnderWay
<1> QED
  BY <1>2, <1>3, <1>4 DEF LeakInv, UnderWay

\* Before the first call nothing is claimed.
LEMMA InitLeakInv == RangeReadsInit => LeakInv
<1> SUFFICES ASSUME RangeReadsInit PROVE LeakInv
  OBVIOUS
<1>1. budget \in Seq(Plans \X Nat) /\ Len(budget) = 0
  BY DEF RangeReadsInit
<1> QED
  BY <1>1 DEF RangeReadsInit, ActivityInit, LeakInv, UnderWay

LEMMA NextLeakInv ==
    ASSUME SampleInv, LeakInv, [RangeReadsNext]_rangeVars
    PROVE  LeakInv'
<1>1. ASSUME NEW c \in Plans, PlanStep(c) PROVE LeakInv'
  BY <1>1, RequestLeakInv, PhaseLeakInv, EndCallLeakInv DEF PlanStep, ReturnPlan
<1>2. ASSUME NEW c \in Plans, PlanFault(c) PROVE LeakInv'
  BY <1>2, EndCallLeakInv DEF PlanFault, FailRequest, FailDelegated, DropPlan
<1>3. CASE UNCHANGED rangeVars
  BY <1>3 DEF LeakInv, UnderWay, rangeVars, planVars, activityVars
<1> QED
  BY <1>1, <1>2, <1>3, PhaseLeakInv, GetLeakInv DEF RangeReadsNext, AllReadsOver

\* When all plans and GETs of a store are over, whichever of them failed or were
\* dropped and at which await, every permit of the request budget is free and
\* the store counts as idle.
THEOREM BudgetComesBack == RangeReadsSpec => []NothingLeaks
<1>1. RangeReadsInit => LeakInv
  BY InitLeakInv
<1>2. SampleInv /\ LeakInv /\ [RangeReadsNext]_rangeVars => LeakInv'
  BY NextLeakInv
<1>3. SampleInv /\ LeakInv => NothingLeaks
  <2> SUFFICES ASSUME SampleInv, LeakInv, Over PROVE budget = <<>> /\ activeReads = 0
    BY DEF NothingLeaks
  <2>1. \A c \in Plans : ~UnderWay(c)
    BY DEF Over, UnderWay
  <2>2. budget = <<>>
    <3>1. \A k \in 1..Len(budget) : budget[k] \in Plans \X Nat
      BY DEF LeakInv
    <3>2. ~(1 \in 1..Len(budget))
      BY <2>1, <3>1 DEF LeakInv
    <3> QED
      BY <3>2 DEF LeakInv
  <2>3. holders = {}
    <3>1. \A g \in Gets : g \notin holders
      BY DEF LeakInv, Over
    <3>2. \A c \in Plans : c \notin holders
      BY <2>1 DEF LeakInv
    <3> QED
      BY <3>1, <3>2, RangeReadsAssumption DEF SampleInv, ActivityInv, ActivityTypeOK
  <2>4. activeReads = 0
    BY <2>3, FS_EmptySet DEF SampleInv, ActivityInv
  <2> QED
    BY <2>2, <2>4
<1> QED
  BY <1>1, <1>2, <1>3, InitSampleInv, NextSampleInv, PTL DEF RangeReadsSpec

(* ---- the bytes a plan returns ----------------------------------------------- *)

\* Completed requests that are all of a plan's, each once, are sorted into 1..n.
LEMMA AllSorted ==
    ASSUME NEW n \in Nat, NEW done \in Seq(Nat), Len(done) = n,
           \A k \in 1..n : done[k] \in 1..n,
           \A k \in 1..n : \A j \in 1..(k - 1) : done[j] # done[k]
    PROVE  Sorted(done) = [k \in 1..n |-> k]
<1>1. DOMAIN done = 1..n /\ done \in [1..n -> 1..n]
  OBVIOUS
<1>2. ASSUME NEW j \in 1..n, NEW k \in 1..n, done[j] = done[k] PROVE j = k
  <2>1. ~(j < k) /\ ~(k < j)
    BY <1>2
  <2> QED
    BY <2>1
<1>3. IsFiniteSet(1..n)
  BY FS_Interval
<1>4. done \in Surjection(1..n, 1..n)
  <2>1. done \in Injection(1..n, 1..n)
    BY <1>1, <1>2 DEF Injection, IsInjective
  <2> QED
    BY <1>3, <2>1, FS_Injection
<1>5. ToSet(done) = 1..n
  BY <1>1, <1>4 DEF ToSet, Surjection
<1>6. ASSUME NEW i \in 1..n PROVE Rank(done, i) = i
  <2> DEFINE low == {j \in 1..n : done[j] <= i}
             f == [j \in low |-> done[j]]
  <2>1. IsFiniteSet(low)
    BY <1>3, FS_Subset
  <2>2. f \in [low -> 1..i]
    BY <1>1
  <2>3. \A a, b \in low : f[a] = f[b] => a = b
    BY <1>2
  <2>4. \A y \in 1..i : \E a \in low : f[a] = y
    <3> SUFFICES ASSUME NEW y \in 1..i PROVE \E a \in low : f[a] = y
      OBVIOUS
    <3>1. y \in 1..n
      OBVIOUS
    <3>2. PICK a \in 1..n : done[a] = y
      BY <1>4, <3>1 DEF Surjection
    <3>3. a \in low /\ f[a] = done[a]
      BY <3>2
    <3> QED
      BY <3>2, <3>3
  <2> HIDE DEF f, low
  <2>5. f \in Bijection(low, 1..i)
    BY <2>2, <2>3, <2>4 DEF Bijection, Injection, IsInjective, Surjection
  <2>6. ExistsBijection(low, 1..i)
    BY <2>5 DEF ExistsBijection
  <2>7. Cardinality(1..i) = Cardinality(low)
    BY <2>1, <2>6, FS_Bijection
  <2>8. Cardinality(1..i) = i
    BY FS_Interval
  <2> QED
    BY <1>1, <2>7, <2>8 DEF low, Rank
<1>7. Sorted(done) = [k \in 1..n |-> CHOOSE i \in 1..n : Rank(done, i) = k]
  BY <1>1, <1>5 DEF Sorted
<1>8. ASSUME NEW k \in 1..n PROVE (CHOOSE i \in 1..n : Rank(done, i) = k) = k
  <2>1. Rank(done, k) = k /\ \A i \in 1..n : Rank(done, i) = k => i = k
    BY <1>6
  <2> QED
    BY <2>1
<1> QED
  BY <1>7, <1>8

\* The bytes of range r, cut out of those of a range p around it.
Cut(p, r) == SubSeq(BytesOf(p), r[1] - p[1] + 1, r[2] - p[1])

\* Slicing a buffer gives the bytes of the range that was asked for.
LEMMA CutBytes ==
    ASSUME NEW a \in Nat, NEW b \in Nat, NEW x \in Nat, NEW y \in Nat, a <= x, x <= y, y <= b
    PROVE  /\ Len(BytesOf(<<a, b>>)) = b - a
           /\ Cut(<<a, b>>, <<x, y>>) = BytesOf(<<x, y>>)
<1>1. b - a \in Nat /\ \A k \in 1..(b - a) : a + k - 1 \in Nat
  OBVIOUS
<1> DEFINE s == BytesOf(<<a, b>>)
           low == x - a + 1
           high == y - a
<1>2. s = [k \in 1..(b - a) |-> a + k - 1] /\ BytesOf(<<x, y>>) = [k \in 1..(y - x) |-> x + k - 1]
  BY DEF BytesOf
<1> HIDE DEF s
<1>3. s \in Seq(Nat) /\ Len(s) = b - a
  <2>1. s \in [1..(b - a) -> Nat]
    BY <1>1, <1>2
  <2> QED
    BY <1>1, <2>1
<1>4. /\ low \in Nat /\ high \in Nat /\ 1 <= low /\ high <= b - a /\ low <= high + 1
      /\ (high - low) + 1 = y - x /\ y - x \in Nat
  OBVIOUS
<1>5. \A k \in 1..(y - x) : (low + k) - 1 \in 1..(b - a) /\ s[(low + k) - 1] = x + k - 1
  BY <1>2
<1> HIDE DEF low, high
<1>6. /\ SubSeq(s, low, high) \in Seq(Nat) /\ Len(SubSeq(s, low, high)) = (high - low) + 1
      /\ \A k \in 1..((high - low) + 1) : SubSeq(s, low, high)[k] = s[(low + k) - 1]
  BY <1>3, <1>4
<1>7. SubSeq(s, low, high) = [k \in 1..(y - x) |-> SubSeq(s, low, high)[k]]
  BY <1>4, <1>6
<1>8. \A k \in 1..(y - x) : SubSeq(s, low, high)[k] = x + k - 1
  BY <1>4, <1>5, <1>6
<1>9. SubSeq(s, low, high) = BytesOf(<<x, y>>)
  BY <1>2, <1>7, <1>8
<1> QED
  BY <1>3, <1>9 DEF s, low, high, Cut

\* A requested range is cut out of the only physical range that can hold it.
LEMMA SliceOfOne ==
    ASSUME NEW plan \in Seq(Nat \X Nat), NEW r \in Nat \X Nat, r[1] <= r[2],
           \A j, k \in DOMAIN plan : j < k => plan[j][2] < plan[k][1],
           NEW j \in DOMAIN plan, plan[j][1] <= r[1], r[2] <= plan[j][2]
    PROVE  /\ Max({k \in DOMAIN plan : plan[k][1] <= r[1]}) = j
           /\ SubSeq(BytesOf(plan[j]), r[1] - plan[j][1] + 1,
                     Least(r[2] - plan[j][1], Len(BytesOf(plan[j])))) = BytesOf(r)
<1> DEFINE starts == {k \in DOMAIN plan : plan[k][1] <= r[1]}
           a == plan[j][1]
           b == plan[j][2]
<1>1. a \in Nat /\ b \in Nat /\ DOMAIN plan \subseteq Nat /\ r[1] \in Nat /\ r[2] \in Nat
  OBVIOUS
<1>2. j \in starts /\ \A k \in starts : j >= k
  <2>1. ASSUME NEW k \in DOMAIN plan, j < k PROVE ~(plan[k][1] <= r[1])
    <3>1. b < plan[k][1] /\ plan[k][1] \in Nat
      BY <2>1
    <3> QED
      BY <1>1, <3>1
  <2>2. ASSUME NEW k \in starts PROVE j >= k
    <3>1. k \in DOMAIN plan /\ plan[k][1] <= r[1] /\ j \in Nat /\ k \in Nat
      BY <1>1
    <3>2. ~(j < k)
      BY <2>1, <3>1
    <3> QED
      BY <3>1, <3>2
  <2> QED
    BY <2>2
<1>3. Max(starts) = j
  <2>1. Max(starts) = CHOOSE x \in starts : \A y \in starts : x >= y
    BY DEF Max
  <2>2. \A x \in starts : (\A y \in starts : x >= y) => x = j
    BY <1>1, <1>2
  <2> HIDE DEF starts
  <2> QED
    BY <1>2, <2>1, <2>2
<1>4. Len(BytesOf(plan[j])) = b - a /\ Cut(plan[j], r) = BytesOf(r)
  <2>1. PICK x \in Nat, y \in Nat : r = <<x, y>>
    OBVIOUS
  <2>2. PICK from \in Nat, to \in Nat : plan[j] = <<from, to>>
    OBVIOUS
  <2>3. from <= x /\ x <= y /\ y <= to /\ a = from /\ b = to
    BY <2>1, <2>2
  <2> HIDE DEF a, b
  <2>4. Len(BytesOf(<<from, to>>)) = to - from /\ Cut(<<from, to>>, <<x, y>>) = BytesOf(<<x, y>>)
    BY <2>3, CutBytes
  <2> QED
    BY <2>1, <2>2, <2>3, <2>4
<1>5. Least(r[2] - a, Len(BytesOf(plan[j]))) = r[2] - a
  <2>1. b - a >= r[2] - a /\ r[2] - a \in Int /\ b - a \in Int
    BY <1>1
  <2> HIDE DEF a, b
  <2> QED
    BY <1>4, <2>1 DEF Least
<1> QED
  BY <1>3, <1>4, <1>5 DEF Cut

\* The tail of execute_range_plan is right for every covering plan.
LEMMA SlicesAreRight ==
    ASSUME NEW requests \in Seq(Nat \X Nat), \A i \in DOMAIN requests : requests[i][1] <= requests[i][2],
           NEW plan, Covers(plan, requests)
    PROVE  SliceResults(requests, plan, [k \in DOMAIN plan |-> BytesOf(plan[k])])
             = [i \in DOMAIN requests |-> BytesOf(requests[i])]
<1> DEFINE bytes == [k \in DOMAIN plan |-> BytesOf(plan[k])]
           p(i) == Max({j \in DOMAIN plan : plan[j][1] <= requests[i][1]})
           cut(i) == SubSeq(bytes[p(i)], requests[i][1] - plan[p(i)][1] + 1,
                            Least(requests[i][2] - plan[p(i)][1], Len(bytes[p(i)])))
<1>1. SliceResults(requests, plan, bytes) = [i \in DOMAIN requests |-> cut(i)]
  BY DEF SliceResults
<1>2. ASSUME NEW i \in DOMAIN requests PROVE cut(i) = BytesOf(requests[i])
  <2>1. requests[i] \in Nat \X Nat /\ requests[i][1] <= requests[i][2]
    OBVIOUS
  <2>2. PICK j \in DOMAIN plan : plan[j][1] <= requests[i][1] /\ requests[i][2] <= plan[j][2]
    BY DEF Covers
  <2>3. /\ p(i) = j
        /\ SubSeq(BytesOf(plan[j]), requests[i][1] - plan[j][1] + 1,
                  Least(requests[i][2] - plan[j][1], Len(BytesOf(plan[j])))) = BytesOf(requests[i])
    <3>1. /\ plan \in Seq(Nat \X Nat)
          /\ \A a, b \in DOMAIN plan : a < b => plan[a][2] < plan[b][1]
      BY DEF Covers
    <3>2. ASSUME NEW r \in Nat \X Nat, r[1] <= r[2], plan[j][1] <= r[1], r[2] <= plan[j][2]
          PROVE  /\ Max({k \in DOMAIN plan : plan[k][1] <= r[1]}) = j
                 /\ SubSeq(BytesOf(plan[j]), r[1] - plan[j][1] + 1,
                           Least(r[2] - plan[j][1], Len(BytesOf(plan[j])))) = BytesOf(r)
      BY <3>1, <3>2, SliceOfOne, ZenonT(30)
    <3>3. PICK r \in Nat \X Nat : r = requests[i]
      BY <2>1
    <3>4. r[1] <= r[2] /\ plan[j][1] <= r[1] /\ r[2] <= plan[j][2]
      BY <2>1, <2>2, <3>3
    <3>5. p(i) = Max({k \in DOMAIN plan : plan[k][1] <= r[1]})
      BY <3>3
    <3> HIDE DEF bytes, p
    <3> QED
      BY <3>2, <3>3, <3>4, <3>5
  <2>4. bytes[j] = BytesOf(plan[j])
    OBVIOUS
  <2> HIDE DEF p, bytes
  <2> QED
    BY <2>3, <2>4
<1> QED
  BY <1>1, <1>2

\* The physical ranges themselves, which a partial read returns.
LEMMA PlanCoversItself ==
    ASSUME NEW plan, NEW requests, Covers(plan, requests)
    PROVE  Covers(plan, plan)
<1>1. plan \in Seq(Nat \X Nat) /\ \A i \in DOMAIN plan : plan[i] \in Nat \X Nat
  BY DEF Covers
<1>2. \A i \in DOMAIN plan : plan[i][1] <= plan[i][1] /\ plan[i][2] <= plan[i][2]
  BY <1>1
<1> QED
  BY <1>2 DEF Covers

\* Steps of other plans: the claims of plan d stay, or leave the budget.
LEMMA RequestFrame ==
    ASSUME NEW d \in Plans, RequestOK(d),
           started'[d] = started[d], physical'[d] = physical[d], requested'[d] = requested[d],
           refused'[d] = refused[d], completed'[d] = completed[d],
           UnderWay(d)' => UnderWay(d), phase'[d] = "reading" => phase[d] = "reading",
           \/ UnderWay(d)'
           \/ ~UnderWay(d),
           \A k \in 1..Len(budget') : budget'[k][1] = d =>
             \E m \in 1..Len(budget) : budget'[k] = budget[m]
    PROVE  RequestOK(d)'
BY DEF RequestOK

\* A request is polled for the first time.
LEMMA StartRequestOK ==
    ASSUME SampleInv, LeakInv, RequestInv, NEW c \in Plans, StartRequest(c)
    PROVE  RequestInv'
<1> DEFINE i == started[c] + 1
<1>1. /\ budget \in Seq(Plans \X Nat) /\ Len(budget) \in Nat
      /\ started \in [Plans -> Nat] /\ refused \in [Plans -> SUBSET Nat]
      /\ completed[c] \in Seq(Nat) /\ physical[c] \in Seq(Nat \X Nat) /\ RequestOK(c)
  BY DEF SampleInv, LeakInv, RequestInv
<1>2. /\ i \in DOMAIN physical[c] /\ phase[c] = "reading"
      /\ started' = [started EXCEPT ![c] = i]
      /\ \/ budget' = Append(budget, <<c, i>>) /\ refused' = [refused EXCEPT ![c] = @]
         \/ budget' = budget /\ refused' = [refused EXCEPT ![c] = @ \cup {i}]
      /\ UNCHANGED <<input, phase, requested, physical, completed, results>>
  BY DEF StartRequest
<1>3. /\ started'[c] = i /\ i \in Nat /\ i <= Len(physical[c]) /\ started[c] \in Nat
      /\ refused'[c] \in {refused[c], refused[c] \cup {i}}
      /\ budget' = budget \/ (budget' = Append(budget, <<c, i>>) /\ refused'[c] = refused[c])
      /\ \A d \in Plans : d # c => started'[d] = started[d] /\ refused'[d] = refused[d]
  <2>1. started[c] \in Nat /\ i \in Nat /\ Len(physical[c]) \in Nat
    BY <1>1
  <2> HIDE DEF i
  <2>2. i <= Len(physical[c])
    BY <1>1, <1>2, <2>1
  <2>3. started'[c] = i /\ \A d \in Plans : d # c => started'[d] = started[d]
    BY <1>1, <1>2
  <2>4. /\ \A d \in Plans : d # c => refused'[d] = refused[d]
        /\ \/ budget' = Append(budget, <<c, i>>) /\ refused'[c] = refused[c]
           \/ budget' = budget /\ refused'[c] = refused[c] \cup {i}
    BY <1>1, <1>2
  <2> QED
    BY <2>1, <2>2, <2>3, <2>4
<1> HIDE DEF i
<1>4. /\ Len(budget') \in Nat
      /\ \A k \in 1..Len(budget') :
           \/ k \in 1..Len(budget) /\ budget'[k] = budget[k]
           \/ budget'[k] = <<c, i>> /\ refused'[c] = refused[c]
  <2>1. CASE budget' = budget
    BY <1>1, <2>1
  <2>2. CASE budget' = Append(budget, <<c, i>>) /\ refused'[c] = refused[c]
    BY <1>1, <1>3, <2>2
  <2> QED
    BY <1>3, <2>1, <2>2
<1>5. i \notin 1..started[c] /\ 1..started[c] \subseteq 1..i /\ i \in 1..i
  BY <1>3 DEF i
<1>6. RequestOK(c)'
  <2>1. refused'[c] \subseteq 1..started'[c]
    BY <1>1, <1>3, <1>5 DEF RequestOK
  <2>2. ASSUME NEW k \in 1..Len(budget'), budget'[k][1] = c
        PROVE  /\ budget'[k][2] \in 1..started'[c] /\ budget'[k][2] \notin refused'[c]
               /\ \A j \in 1..Len(completed'[c]) : completed'[c][j] # budget'[k][2]
    <3>1. CASE k \in 1..Len(budget) /\ budget'[k] = budget[k]
      <4>1. /\ budget[k][2] \in 1..started[c] /\ budget[k][2] \notin refused[c]
            /\ \A j \in 1..Len(completed[c]) : completed[c][j] # budget[k][2]
        BY <1>1, <2>2, <3>1 DEF RequestOK
      <4>2. budget[k][2] \in 1..i /\ budget[k][2] # i
        BY <1>5, <4>1
      <4> QED
        BY <1>2, <1>3, <3>1, <4>1, <4>2
    <3>2. CASE budget'[k] = <<c, i>> /\ refused'[c] = refused[c]
      <4>1. refused[c] \subseteq 1..started[c] /\ \A j \in 1..Len(completed[c]) : completed[c][j] \in 1..started[c]
        BY <1>1 DEF RequestOK
      <4>2. budget'[k][2] = i
        BY <3>2
      <4> QED
        BY <1>2, <1>3, <1>5, <3>2, <4>1, <4>2
    <3> QED
      BY <1>4, <3>1, <3>2
  <2>3. ASSUME NEW k \in 1..Len(completed'[c])
        PROVE  /\ completed'[c][k] \in 1..started'[c] /\ completed'[c][k] \notin refused'[c]
               /\ \A j \in 1..(k - 1) : completed'[c][j] # completed'[c][k]
    BY <1>1, <1>2, <1>3, <1>5 DEF RequestOK
  <2> QED
    BY <1>1, <1>2, <1>3, <2>1, <2>2, <2>3 DEF RequestOK, UnderWay
<1>7. ASSUME NEW d \in Plans, d # c PROVE RequestOK(d)'
  <2>1. \A k \in 1..Len(budget') : budget'[k][1] = d =>
           \E m \in 1..Len(budget) : budget'[k] = budget[m]
    BY <1>4, <1>7
  <2> QED
    BY <1>2, <1>3, <1>7, <2>1, RequestFrame DEF RequestInv, UnderWay
<1> QED
  BY <1>2, <1>6, <1>7 DEF RequestInv

\* A refused request joins the queue.
LEMMA QueueRequestOK ==
    ASSUME SampleInv, LeakInv, RequestInv, NEW c \in Plans, NEW i, QueueRequest(c, i)
    PROVE  RequestInv'
<1>1. /\ budget \in Seq(Plans \X Nat) /\ Len(budget) \in Nat
      /\ refused \in [Plans -> SUBSET Nat] /\ completed[c] \in Seq(Nat) /\ RequestOK(c)
  BY DEF SampleInv, LeakInv, RequestInv
<1>2. /\ i \in refused[c] /\ budget' = Append(budget, <<c, i>>)
      /\ refused' = [refused EXCEPT ![c] = @ \ {i}]
      /\ UNCHANGED <<input, phase, requested, physical, started, completed, results>>
  BY DEF QueueRequest
<1>3. /\ refused'[c] = refused[c] \ {i} /\ i \in Nat
      /\ \A d \in Plans : d # c => refused'[d] = refused[d]
  BY <1>1, <1>2
<1>4. \A k \in 1..Len(budget') :
         (k \in 1..Len(budget) /\ budget'[k] = budget[k]) \/ budget'[k] = <<c, i>>
  BY <1>1, <1>2, <1>3
<1>5. RequestOK(c)'
  <2>1. ASSUME NEW k \in 1..Len(budget'), budget'[k][1] = c
        PROVE  /\ budget'[k][2] \in 1..started'[c] /\ budget'[k][2] \notin refused'[c]
               /\ \A j \in 1..Len(completed'[c]) : completed'[c][j] # budget'[k][2]
    <3>1. CASE k \in 1..Len(budget) /\ budget'[k] = budget[k]
      BY <1>1, <1>2, <1>3, <2>1, <3>1 DEF RequestOK
    <3>2. CASE budget'[k] = <<c, i>>
      BY <1>1, <1>2, <1>3, <3>2 DEF RequestOK
    <3> QED
      BY <1>4, <3>1, <3>2
  <2> QED
    BY <1>1, <1>2, <1>3, <2>1 DEF RequestOK, UnderWay
<1>6. ASSUME NEW d \in Plans, d # c PROVE RequestOK(d)'
  <2>1. \A k \in 1..Len(budget') : budget'[k][1] = d =>
           \E m \in 1..Len(budget) : budget'[k] = budget[m]
    BY <1>4, <1>6
  <2> QED
    BY <1>2, <1>3, <1>6, <2>1, RequestFrame DEF RequestInv, UnderWay
<1> QED
  BY <1>2, <1>5, <1>6 DEF RequestInv

\* A request completes and gives its permit back.
LEMMA CompleteRequestOK ==
    ASSUME SampleInv, LeakInv, RequestInv, NEW c \in Plans, NEW i, CompleteRequest(c, i)
    PROVE  RequestInv'
<1>1. /\ budget \in Seq(Plans \X Nat) /\ Len(budget) \in Nat
      /\ completed \in [Plans -> Seq(Nat)] /\ completed[c] \in Seq(Nat) /\ RequestOK(c)
  BY DEF LeakInv, RequestInv
<1>2. /\ Holds(<<c, i>>) /\ completed' = [completed EXCEPT ![c] = Append(@, i)]
      /\ budget' = Without(budget, {<<c, i>>})
      /\ UNCHANGED <<input, phase, requested, physical, started, refused, results>>
  BY DEF CompleteRequest
<1>3. PICK held \in 1..Len(budget) : budget[held] = <<c, i>>
  <2>1. PICK k \in 1..Least(SharedReads, Len(budget)) : budget[k] = <<c, i>>
    BY <1>2 DEF Holds
  <2>2. k \in 1..Len(budget)
    BY <1>1, RangeReadsAssumption DEF Least
  <2> QED
    BY <2>1, <2>2
<1>4. /\ i \in 1..started[c] /\ i \notin refused[c] /\ i \in Nat
      /\ \A j \in 1..Len(completed[c]) : completed[c][j] # i
  <2>1. budget[held][1] = c /\ budget[held][2] = i /\ budget[held] \in Plans \X Nat
    BY <1>1, <1>3
  <2> QED
    BY <1>1, <2>1 DEF RequestOK
<1>5. /\ Len(budget') \in Nat
      /\ \A k \in 1..Len(budget') : \E m \in 1..Len(budget) :
           budget'[k] = budget[m] /\ budget[m] # <<c, i>>
  <2>1. PICK gone : gone = {<<c, i>>}
    OBVIOUS
  <2>2. budget' = Without(budget, gone)
    BY <1>2, <2>1
  <2>3. /\ Len(Without(budget, gone)) \in Nat
        /\ \A k \in 1..Len(Without(budget, gone)) : \E m \in 1..Len(budget) :
             Without(budget, gone)[k] = budget[m] /\ budget[m] \notin gone
    <3>1. \A q, away : Len(q) \in Nat =>
             /\ Len(Without(q, away)) \in Nat
             /\ \A k \in 1..Len(Without(q, away)) : \E m \in 1..Len(q) :
                  Without(q, away)[k] = q[m] /\ q[m] \notin away
      BY OnlyStayers
    <3> QED
      BY <1>1, <3>1
  <2> QED
    BY <2>1, <2>2, <2>3
<1>6. /\ completed'[c] = Append(completed[c], i) /\ completed' \in [Plans -> Seq(Nat)]
      /\ \A d \in Plans : d # c => completed'[d] = completed[d]
  <2>1. Append(completed[c], i) \in Seq(Nat)
    BY <1>1, <1>4
  <2> QED
    BY <1>1, <1>2, <2>1
<1>7. /\ Len(completed[c]) \in Nat /\ Len(completed'[c]) = Len(completed[c]) + 1
      /\ completed'[c][Len(completed[c]) + 1] = i
      /\ \A k \in 1..Len(completed[c]) : completed'[c][k] = completed[c][k]
  <2>1. ASSUME NEW done \in Seq(Nat)
        PROVE  /\ Len(done) \in Nat /\ Len(Append(done, i)) = Len(done) + 1
               /\ Append(done, i)[Len(done) + 1] = i
               /\ \A k \in 1..Len(done) : Append(done, i)[k] = done[k]
    BY <1>4
  <2> QED
    BY <1>1, <1>6, <2>1
<1>8. RequestOK(c)'
  <2>1. ASSUME NEW k \in 1..Len(budget'), budget'[k][1] = c
        PROVE  /\ budget'[k][2] \in 1..started'[c] /\ budget'[k][2] \notin refused'[c]
               /\ \A j \in 1..Len(completed'[c]) : completed'[c][j] # budget'[k][2]
    <3>1. PICK m \in 1..Len(budget) : budget'[k] = budget[m] /\ budget[m] # <<c, i>>
      BY <1>5
    <3>2. budget[m] \in Plans \X Nat /\ budget[m][1] = c /\ budget[m][2] # i
      <4>1. budget[m] \in Plans \X Nat /\ budget[m][1] = c
        <5>1. budget \in Seq(Plans \X Nat)
          BY <1>1
        <5>2. budget[m] \in Plans \X Nat
          BY <5>1
        <5> QED
          BY <2>1, <3>1, <5>2
      <4>2. PICK d \in Plans, x \in Nat : budget[m] = <<d, x>>
        BY <4>1
      <4> QED
        BY <3>1, <4>1, <4>2
    <3>3. /\ budget[m][2] \in 1..started[c] /\ budget[m][2] \notin refused[c]
          /\ \A j \in 1..Len(completed[c]) : completed[c][j] # budget[m][2]
      BY <1>1, <3>2 DEF RequestOK
    <3>4. \A j \in 1..Len(completed'[c]) : j \in 1..Len(completed[c]) \/ j = Len(completed[c]) + 1
      <4>1. \A n \in Nat : \A j \in 1..(n + 1) : j \in 1..n \/ j = n + 1
        OBVIOUS
      <4> QED
        BY <1>7, <4>1
    <3>5. ASSUME NEW j \in 1..Len(completed'[c]) PROVE completed'[c][j] # budget[m][2]
      <4>1. CASE j \in 1..Len(completed[c])
        BY <1>7, <3>3, <4>1
      <4>2. CASE j = Len(completed[c]) + 1
        BY <1>7, <3>2, <4>2
      <4> QED
        BY <3>4, <4>1, <4>2
    <3>6. started'[c] = started[c] /\ refused'[c] = refused[c]
      BY <1>2
    <3> QED
      BY <3>1, <3>3, <3>5, <3>6
  <2>2. ASSUME NEW k \in 1..Len(completed'[c])
        PROVE  /\ completed'[c][k] \in 1..started'[c] /\ completed'[c][k] \notin refused'[c]
               /\ \A j \in 1..(k - 1) : completed'[c][j] # completed'[c][k]
    <3>1. \A j \in 1..(k - 1) : j \in 1..Len(completed[c])
      BY <1>7
    <3>2. k \in 1..Len(completed[c]) \/ k = Len(completed[c]) + 1
      BY <1>7
    <3>3. /\ \A j \in 1..Len(completed[c]) : completed[c][j] # i
          /\ started'[c] = started[c] /\ refused'[c] = refused[c]
      BY <1>2, <1>4
    <3>4. CASE k = Len(completed[c]) + 1
      BY <1>4, <1>7, <3>1, <3>3, <3>4
    <3>5. CASE k \in 1..Len(completed[c])
      <4>1. /\ completed[c][k] \in 1..started[c] /\ completed[c][k] \notin refused[c]
            /\ \A j \in 1..(k - 1) : completed[c][j] # completed[c][k]
        BY <1>1, <3>5 DEF RequestOK
      <4> QED
        BY <1>7, <3>1, <3>3, <3>5, <4>1
    <3> QED
      BY <3>2, <3>4, <3>5
  <2> QED
    BY <1>1, <1>2, <2>1, <2>2 DEF RequestOK, UnderWay
<1>9. ASSUME NEW d \in Plans, d # c PROVE RequestOK(d)'
  <2>1. \A k \in 1..Len(budget') : budget'[k][1] = d =>
           \E m \in 1..Len(budget) : budget'[k] = budget[m]
    BY <1>5
  <2>2. RequestOK(d) /\ completed'[d] = completed[d]
    BY <1>6, <1>9 DEF RequestInv
  <2> QED
    BY <1>2, <2>1, <2>2, RequestFrame DEF UnderWay
<1> QED
  BY <1>2, <1>6, <1>8, <1>9 DEF RequestInv

\* A call that ends forgets its requests.
LEMMA EndCallRequestOK ==
    ASSUME SampleInv, LeakInv, RequestInv, NEW c \in Plans, NEW how \in {"done", "failed", "dropped"},
           EndCall(c, how)
    PROVE  RequestInv'
<1> DEFINE gone == {claim \in ToSet(budget) : claim[1] = c}
<1>1. /\ phase' = [phase EXCEPT ![c] = how] /\ refused' = [refused EXCEPT ![c] = {}]
      /\ requested' = [requested EXCEPT ![c] = <<>>] /\ physical' = [physical EXCEPT ![c] = <<>>]
      /\ started' = [started EXCEPT ![c] = 0] /\ completed' = [completed EXCEPT ![c] = <<>>]
      /\ results' = [results EXCEPT ![c] = <<>>] /\ input' = input /\ budget' = Without(budget, gone)
  BY DEF EndCall, ReleaseAll
<1>2. /\ budget \in Seq(Plans \X Nat) /\ Len(budget) \in Nat
      /\ started \in [Plans -> Nat] /\ refused \in [Plans -> SUBSET Nat]
      /\ phase \in [Plans -> {"idle", "reading", "delegated", "returning", "done", "failed", "dropped"}]
      /\ completed \in [Plans -> Seq(Nat)] /\ DOMAIN results = Plans
      /\ requested \in [Plans -> Seq(Nat \X Nat)] /\ physical \in [Plans -> Seq(Nat \X Nat)]
  BY DEF SampleInv, LeakInv, RequestInv
<1>3. \A k \in 1..Len(budget') : \E m \in 1..Len(budget) : budget'[k] = budget[m] /\ budget[m][1] # c
  <2>1. \A k \in 1..Len(Without(budget, gone)) : \E m \in 1..Len(budget) :
           Without(budget, gone)[k] = budget[m] /\ budget[m] \notin gone
    <3> HIDE DEF gone
    <3>1. Len(budget) \in Nat
      BY <1>2
    <3> QED
      BY ONLY <3>1, OnlyStayers
  <2>2. ASSUME NEW m \in 1..Len(budget), budget[m] \notin gone PROVE budget[m][1] # c
    <3>1. budget[m] \in ToSet(budget)
      <4>1. m \in DOMAIN budget
        BY <1>2
      <4> QED
        BY <4>1 DEF ToSet
    <3> QED
      BY <2>2, <3>1
  <2> QED
    BY <1>1, <2>1, <2>2
<1>4. /\ requested' \in [Plans -> Seq(Nat \X Nat)] /\ physical' \in [Plans -> Seq(Nat \X Nat)]
      /\ completed' \in [Plans -> Seq(Nat)] /\ DOMAIN results' = Plans
  BY <1>1, <1>2
<1>5. RequestOK(c)'
  <2>1. /\ started'[c] = 0 /\ physical'[c] = <<>> /\ refused'[c] = {} /\ completed'[c] = <<>>
        /\ phase'[c] = how
    BY <1>1, <1>2
  <2>2. Len(physical'[c]) = 0 /\ Len(completed'[c]) = 0
    BY <2>1
  <2>3. \A k \in 1..Len(budget') : budget'[k][1] # c
    BY <1>3
  <2> QED
    BY <2>1, <2>2, <2>3 DEF RequestOK
<1>6. ASSUME NEW d \in Plans, d # c PROVE RequestOK(d)'
  <2>1. /\ started'[d] = started[d] /\ physical'[d] = physical[d] /\ requested'[d] = requested[d]
        /\ refused'[d] = refused[d] /\ completed'[d] = completed[d] /\ phase'[d] = phase[d]
    BY <1>1, <1>2, <1>6
  <2> QED
    BY <1>3, <2>1, RequestFrame DEF RequestInv, UnderWay
<1> QED
  BY <1>1, <1>4, <1>5, <1>6 DEF RequestInv

(* ---- which ranges are read ---------------------------------------------- *)

ByteRanges == Nat \X Nat
ValidRanges(ranges) == ranges \in Seq(ByteRanges) /\ \A i \in 1..Len(ranges) : ranges[i][1] <= ranges[i][2]

\* The ranges of a list in the order in which merge_ranges meets them.
InStartOrder(s, ranges) ==
    /\ ValidRanges(s) /\ Len(s) = Len(ranges)
    /\ \A j, k \in 1..Len(s) : j < k => s[j][1] <= s[k][1]
    /\ \A i \in 1..Len(ranges) : \E k \in 1..Len(s) : s[k] = ranges[i]

LEMMA ByStartIs ==
    ASSUME NEW ranges, ValidRanges(ranges)
    PROVE  InStartOrder(ByStart(ranges), ranges)
<1> DEFINE S == DOMAIN ranges
           Before(i, j) == \/ ranges[i][1] < ranges[j][1]
                           \/ ranges[i][1] = ranges[j][1] /\ i < j
           n == Cardinality(S)
           o == [k \in 1..n |-> CHOOSE x \in S : Cardinality({y \in S : Before(y, x)}) = k - 1]
<1>1. Len(ranges) \in Nat /\ S = 1..Len(ranges) /\ \A i \in S : ranges[i] \in ByteRanges
  BY DEF ValidRanges
<1>2. IsFiniteSet(S) /\ n = Len(ranges)
  BY <1>1, FS_Interval
<1>3. \A i \in S : i \in Nat /\ ranges[i][1] \in Nat
  BY <1>1 DEF ByteRanges
<1>4. ByStart(ranges) = [k \in DOMAIN o |-> ranges[o[k]]]
  BY Zenon DEF ByStart, InOrder
<1>5. PICK R : \A x, y \in S : <<x, y>> \in R <=> Before(x, y)
  <2> DEFINE Q == {p \in S \X S : Before(p[1], p[2])}
  <2>1. \A x, y \in S : <<x, y>> \in Q <=> Before(x, y)
    OBVIOUS
  <2> HIDE DEF Q, Before
  <2> QED
    BY <2>1
<1>6. StrictOrder(S, R)
  <2>1. \A x, y, z \in S : Before(x, y) /\ Before(y, z) => Before(x, z)
    BY <1>3
  <2>2. \A x \in S : ~Before(x, x)
    BY <1>3
  <2>3. \A x, y \in S : x # y => Before(x, y) \/ Before(y, x)
    BY <1>3
  <2> HIDE DEF Before, S
  <2> QED
    BY <1>5, <2>1, <2>2, <2>3 DEF StrictOrder
<1>7. \A x \in S : RankIn(S, R, x) = Cardinality({y \in S : Before(y, x)})
  <2> HIDE DEF Before, S
  <2>1. \A x \in S : {y \in S : <<y, x>> \in R} = {y \in S : Before(y, x)}
    BY <1>5
  <2> QED
    BY <2>1, Zenon DEF RankIn
<1> HIDE DEF Before, S
<1>8. n \in Nat /\ \A k \in 0..(n - 1) : \E x \in S : Cardinality({y \in S : Before(y, x)}) = k
  <2>1. n \in Nat /\ \A k \in 0..(n - 1) : \E x \in S : RankIn(S, R, x) = k
    BY ONLY <1>2, <1>6, RanksNumber
  <2> HIDE DEF n
  <2> QED
    BY <1>7, <2>1
<1>9. ASSUME NEW k \in 1..n PROVE o[k] \in S /\ RankIn(S, R, o[k]) = k - 1
  <2>1. k - 1 \in 0..(n - 1)
    BY <1>8
  <2>2. o[k] = CHOOSE x \in S : Cardinality({y \in S : Before(y, x)}) = k - 1
    OBVIOUS
  <2>3. o[k] \in S /\ Cardinality({y \in S : Before(y, o[k])}) = k - 1
    BY <1>8, <2>1, <2>2, Zenon
  <2> QED
    BY <1>7, <2>3
<1>10. o \in [1..n -> S]
  BY <1>9
<1> HIDE DEF o
<1>11. SortedBy(S, R, o)
  <2>1. Ranked(S, R, o)
    BY <1>9, <1>10 DEF Ranked
  <2> QED
    BY ONLY <1>2, <1>6, <2>1, SortedIs
<1>12. /\ o \in [1..n -> S] /\ Len(o) = n /\ DOMAIN o = 1..n
       /\ \A j, k \in 1..n : j < k => Before(o[j], o[k])
       /\ \A x \in S : \E k \in 1..n : o[k] = x
  <2>1. Len(o) = n /\ \A j, k \in 1..n : o[j] \in S /\ o[k] \in S /\ (j < k => <<o[j], o[k]>> \in R)
    BY <1>10, <1>11 DEF SortedBy
  <2>2. \A x \in S : \E k \in 1..n : o[k] = x
    BY <1>11, <2>1 DEF SortedBy
  <2> QED
    BY <1>5, <1>10, <2>1, <2>2
<1> DEFINE s == [k \in 1..n |-> ranges[o[k]]]
<1>13. ByStart(ranges) = s
  <2>1. DOMAIN o = 1..n
    BY <1>12
  <2> QED
    BY <1>4, <2>1, Zenon
<1>14. s \in Seq(ByteRanges) /\ Len(s) = n /\ n = Len(ranges)
  <2>1. \A k \in 1..n : ranges[o[k]] \in ByteRanges
    BY <1>1, <1>12
  <2>2. n \in Nat /\ n = Len(ranges)
    BY <1>2, <1>8
  <2> HIDE DEF n
  <2>3. s \in [1..n -> ByteRanges]
    BY <2>1
  <2> QED
    BY <2>2, <2>3
<1>15. ASSUME NEW k \in 1..n PROVE s[k][1] <= s[k][2]
  <2>1. s[k] = ranges[o[k]] /\ o[k] \in 1..Len(ranges)
    BY <1>1, <1>12
  <2> QED
    BY <2>1 DEF ValidRanges
<1>16. ASSUME NEW j \in 1..n, NEW k \in 1..n, j < k PROVE s[j][1] <= s[k][1]
  <2>1. Before(o[j], o[k]) /\ o[j] \in S /\ o[k] \in S
    BY <1>12, <1>16
  <2>2. ranges[o[j]][1] \in Nat /\ ranges[o[k]][1] \in Nat
    BY <1>3, <2>1
  <2> QED
    BY <2>1, <2>2 DEF Before
<1>17. ASSUME NEW i \in 1..Len(ranges) PROVE \E k \in 1..n : s[k] = ranges[i]
  <2>1. PICK k \in 1..n : o[k] = i
    BY <1>1, <1>12
  <2> QED
    BY <2>1
<1> HIDE DEF s, n
<1> QED
  BY <1>13, <1>14, <1>15, <1>16, <1>17 DEF InStartOrder, ValidRanges

-----------------------------------------------------------------------------
(* merge_ranges.                                                           *)

\* A plan that has taken in the first k ranges of s.
Apart(plan) == \A j, l \in 1..Len(plan) : j < l => plan[j][2] < plan[l][1]
CoversFirst(plan, s, k) ==
    \A i \in 1..k : \E j \in 1..Len(plan) : plan[j][1] <= s[i][1] /\ s[i][2] <= plan[j][2]
Merged(plan, s, k) ==
    /\ ValidRanges(plan) /\ Apart(plan) /\ CoversFirst(plan, s, k)
    /\ k = 0 => Len(plan) = 0
    /\ k >= 1 => Len(plan) >= 1 /\ plan[Len(plan)][1] <= s[k][1]

\* What a round makes of a plan that is not empty: its last range grows, or a
\* range is added.
LEMMA LastGrows ==
    ASSUME NEW plan, ValidRanges(plan), Apart(plan), Len(plan) >= 1,
           NEW end \in Nat, plan[Len(plan)][2] <= end, NEW after,
           after = EndLastAt(plan, end)
    PROVE  /\ ValidRanges(after) /\ Apart(after) /\ Len(after) = Len(plan)
           /\ after[Len(plan)] = <<plan[Len(plan)][1], end>>
           /\ \A j \in 1..Len(plan) : after[j][1] = plan[j][1] /\ plan[j][2] <= after[j][2]
<1> DEFINE n == Len(plan)
           last == <<plan[n][1], end>>
<1>1. n \in Nat /\ n \in 1..n /\ DOMAIN plan = 1..n /\ \A j \in 1..n : plan[j] \in ByteRanges
  BY DEF ValidRanges
<1>2. \A j \in 1..n : plan[j][1] \in Nat /\ plan[j][2] \in Nat /\ plan[j][1] <= plan[j][2]
  BY <1>1 DEF ValidRanges, ByteRanges
<1>3. last \in ByteRanges /\ last[1] = plan[n][1] /\ last[2] = end
  BY <1>1, <1>2 DEF ByteRanges
<1> HIDE DEF last
<1>4. after = [j \in 1..n |-> IF j = n THEN last ELSE plan[j]]
  BY <1>1 DEF last, EndLastAt
<1> HIDE DEF n
<1>5. after \in Seq(ByteRanges) /\ Len(after) = n /\ after[n] = last
  <2>1. after \in [1..n -> ByteRanges]
    BY <1>1, <1>3, <1>4
  <2>2. after \in Seq(ByteRanges) /\ Len(after) = n
    BY <1>1, <2>1
  <2> QED
    BY <1>1, <1>4, <2>2
<1>6. ASSUME NEW j \in 1..n PROVE after[j][1] = plan[j][1] /\ plan[j][2] <= after[j][2] /\ (j # n => after[j] = plan[j])
  <2>1. CASE j = n
    BY <1>3, <1>5, <2>1 DEF n
  <2>2. CASE j # n
    BY <1>2, <1>4, <2>2
  <2> QED
    BY <2>1, <2>2
<1>7. ASSUME NEW j \in 1..n PROVE after[j][1] <= after[j][2]
  <2>1. after[j] \in ByteRanges
    BY <1>5
  <2>2. after[j][1] \in Nat /\ after[j][2] \in Nat
    BY <2>1 DEF ByteRanges
  <2> QED
    BY <1>2, <1>6, <2>2
<1>8. ASSUME NEW j \in 1..n, NEW l \in 1..n, j < l PROVE after[j][2] < after[l][1]
  <2>1. j # n
    BY <1>1, <1>8
  <2>2. plan[j][2] < plan[l][1]
    BY <1>8 DEF Apart, n
  <2> QED
    BY <1>6, <2>1, <2>2
<1> QED
  BY <1>3, <1>5, <1>6, <1>7, <1>8 DEF ValidRanges, Apart, n, last

IsAdded(after, plan, r) ==
    /\ ValidRanges(after) /\ Apart(after) /\ Len(after) = Len(plan) + 1 /\ after[Len(plan) + 1] = r
    /\ \A j \in 1..Len(plan) : after[j] = plan[j]
EndsBefore(plan, r) == Len(plan) >= 1 => plan[Len(plan)][2] < r[1]

LEMMA RangeAdded ==
    ASSUME NEW plan, ValidRanges(plan), Apart(plan), NEW r, r \in ByteRanges, r[1] <= r[2], EndsBefore(plan, r)
    PROVE  IsAdded(Append(plan, r), plan, r)
<1> DEFINE n == Len(plan)
           after == Append(plan, r)
<1>1. n \in Nat /\ \A j \in 1..n : plan[j] \in ByteRanges
  BY DEF ValidRanges
<1>2. \A j \in 1..n : plan[j][1] \in Nat /\ plan[j][2] \in Nat /\ plan[j][1] <= plan[j][2]
  BY <1>1 DEF ValidRanges, ByteRanges
<1>3. /\ after \in Seq(ByteRanges) /\ Len(after) = n + 1 /\ after[n + 1] = r
      /\ \A j \in 1..n : after[j] = plan[j]
  BY DEF ValidRanges
<1>4. r[1] \in Nat
  BY DEF ByteRanges
<1>5. ASSUME NEW j \in 1..n PROVE plan[j][2] < r[1]
  <2>1. n \in 1..n /\ plan[n][2] < r[1]
    BY <1>1 DEF EndsBefore
  <2>2. CASE j = n
    BY <2>1, <2>2
  <2>3. CASE j # n
    <3>1. plan[j][2] < plan[n][1]
      BY <1>1, <2>1, <2>3 DEF Apart
    <3> QED
      BY <1>2, <1>4, <2>1, <3>1
  <2> QED
    BY <2>2, <2>3
<1> HIDE DEF n, after
<1>6. \A j \in 1..(n + 1) : j \in 1..n \/ j = n + 1
  BY <1>1
<1>7. \A j \in 1..(n + 1) : after[j][1] <= after[j][2]
  BY <1>2, <1>3, <1>6
<1>8. ASSUME NEW j \in 1..(n + 1), NEW l \in 1..(n + 1), j < l PROVE after[j][2] < after[l][1]
  <2>1. j \in 1..n /\ after[j] = plan[j]
    BY <1>1, <1>3, <1>8
  <2>2. CASE l = n + 1
    BY <1>3, <1>5, <2>1, <2>2
  <2>3. CASE l \in 1..n
    BY <1>3, <1>8, <2>1, <2>3 DEF Apart, n
  <2> QED
    BY <1>6, <2>2, <2>3
<1> QED
  BY <1>3, <1>7, <1>8 DEF n, after, IsAdded, ValidRanges, Apart

LEMMA ExtendKeeps ==
    ASSUME NEW ranges, NEW s, InStartOrder(s, ranges), NEW maxGap \in Nat,
           NEW k \in 0..(Len(s) - 1), NEW plan, Merged(plan, s, k)
    PROVE  Merged(ExtendPlan(plan, s[k + 1], maxGap), s, k + 1)
<1> DEFINE r == s[k + 1]
           n == Len(plan)
           after == ExtendPlan(plan, r, maxGap)
<1>1. k \in Nat /\ k + 1 \in 1..Len(s) /\ Len(s) \in Nat /\ r \in ByteRanges /\ r[1] <= r[2]
  BY DEF InStartOrder, ValidRanges
<1>2. r[1] \in Nat /\ r[2] \in Nat
  BY <1>1 DEF ByteRanges
<1>3. n \in Nat /\ plan \in Seq(ByteRanges) /\ ValidRanges(plan) /\ Apart(plan)
  BY DEF Merged, ValidRanges
<1>4. plan # <<>> <=> n >= 1
  BY <1>3
<1>5. \A i \in 1..(k + 1) : i \in 1..k \/ i = k + 1
  BY <1>1
<1>6. ASSUME n >= 1 PROVE plan[n][1] \in Nat /\ plan[n][2] \in Nat /\ plan[n][1] <= plan[n][2] /\ Last(plan) = plan[n]
  <2>1. plan[n] \in ByteRanges /\ plan[n][1] <= plan[n][2]
    BY <1>3, <1>6 DEF ValidRanges
  <2> QED
    BY <2>1 DEF Last, ByteRanges
<1>7. CASE n >= 1 /\ r[1] - plan[n][2] <= maxGap
  <2> DEFINE end == Larger(plan[n][2], r[2])
  <2>1. end \in Nat /\ plan[n][2] <= end /\ r[2] <= end
    BY <1>2, <1>6, <1>7 DEF Larger
  <2>2. after = EndLastAt(plan, end)
    BY <1>4, <1>6, <1>7 DEF ExtendPlan
  <2> HIDE DEF end, r, after
  <2>3. /\ ValidRanges(after) /\ Apart(after) /\ Len(after) = n /\ after[n] = <<plan[n][1], end>>
        /\ \A j \in 1..n : after[j][1] = plan[j][1] /\ plan[j][2] <= after[j][2]
    BY <1>3, <1>7, <2>1, <2>2, LastGrows
  <2> HIDE DEF n
  <2>4. plan[n][1] <= r[1]
    <3>1. k # 0
      BY <1>7 DEF Merged, n
    <3>2. k \in 1..Len(s) /\ k < k + 1 /\ plan[n][1] <= s[k][1]
      BY <1>1, <3>1 DEF Merged, n
    <3>3. s[k][1] <= r[1] /\ s[k] \in ByteRanges
      BY <1>1, <3>2 DEF InStartOrder, ValidRanges, r
    <3>4. s[k][1] \in Nat
      BY <3>3 DEF ByteRanges
    <3> QED
      BY <1>2, <1>6, <1>7, <3>2, <3>3, <3>4
  <2>5. ASSUME NEW i \in 1..(k + 1)
        PROVE  \E j \in 1..n : after[j][1] <= s[i][1] /\ s[i][2] <= after[j][2]
    <3>1. CASE i = k + 1
      <4>1. n \in 1..n /\ after[n][1] = plan[n][1] /\ after[n][2] = end
        BY <1>3, <1>7, <2>3
      <4> QED
        BY <2>1, <2>4, <3>1, <4>1 DEF r
    <3>2. CASE i \in 1..k
      <4>1. PICK j \in 1..n : plan[j][1] <= s[i][1] /\ s[i][2] <= plan[j][2]
        BY <3>2 DEF Merged, CoversFirst, n
      <4>2. after[j][1] = plan[j][1] /\ plan[j][2] <= after[j][2]
        BY <2>3
      <4>3. plan[j] \in ByteRanges /\ after[j] \in ByteRanges /\ s[i] \in ByteRanges
        <5>1. i \in 1..Len(s)
          BY <1>1, <3>2
        <5>2. s[i] \in ByteRanges
          BY <5>1 DEF ValidRanges, InStartOrder
        <5>3. plan \in Seq(ByteRanges) /\ after \in Seq(ByteRanges) /\ Len(after) = n /\ Len(plan) = n
          BY <1>3, <2>3 DEF ValidRanges, n
        <5> QED
          BY <5>2, <5>3
      <4>4. plan[j][2] \in Nat /\ after[j][2] \in Nat /\ s[i][2] \in Nat
        BY <4>3 DEF ByteRanges
      <4>5. s[i][2] <= after[j][2]
        BY <4>1, <4>2, <4>4
      <4> QED
        BY <4>1, <4>2, <4>5
    <3> QED
      BY <1>5, <3>1, <3>2
  <2>6. Len(after) >= 1 /\ after[Len(after)][1] <= s[k + 1][1] /\ k + 1 # 0
    BY <1>1, <1>7, <2>3, <2>4 DEF r
  <2>7. CoversFirst(after, s, k + 1)
    BY <2>3, <2>5 DEF CoversFirst
  <2>8. Merged(after, s, k + 1)
    BY <2>3, <2>6, <2>7 DEF Merged
  <2> QED
    BY <2>8 DEF after, r
<1>8. CASE ~(n >= 1 /\ r[1] - plan[n][2] <= maxGap)
  <2>1. after = Append(plan, r)
    BY <1>4, <1>6, <1>8 DEF ExtendPlan
  <2>2. n >= 1 => plan[n][2] < r[1]
    BY <1>2, <1>6, <1>8
  <2> HIDE DEF r, after
  <2>3. /\ ValidRanges(after) /\ Apart(after) /\ Len(after) = n + 1 /\ after[n + 1] = r
        /\ \A j \in 1..n : after[j] = plan[j]
    <3>1. r \in ByteRanges /\ r[1] <= r[2]
      BY <1>1 DEF r
    <3>2. EndsBefore(plan, r)
      BY <2>2 DEF EndsBefore
    <3>3. IsAdded(after, plan, r)
      BY <1>3, <2>1, <3>1, <3>2, RangeAdded
    <3> QED
      BY <3>3 DEF IsAdded
  <2>4. n + 1 \in 1..(n + 1) /\ \A j \in 1..n : j \in 1..(n + 1)
    BY <1>3
  <2> HIDE DEF n
  <2>5. ASSUME NEW i \in 1..(k + 1)
        PROVE  \E j \in 1..(n + 1) : after[j][1] <= s[i][1] /\ s[i][2] <= after[j][2]
    <3>1. CASE i = k + 1
      <4>1. after[n + 1][1] <= s[i][1] /\ s[i][2] <= after[n + 1][2]
        BY <1>2, <2>3, <3>1 DEF r
      <4> QED
        BY <2>4, <4>1
    <3>2. CASE i \in 1..k
      <4>1. PICK j \in 1..n : plan[j][1] <= s[i][1] /\ s[i][2] <= plan[j][2]
        BY <3>2 DEF Merged, CoversFirst, n
      <4> QED
        BY <2>3, <2>4, <4>1
    <3> QED
      BY <1>5, <3>1, <3>2
  <2>6. Len(after) >= 1 /\ after[Len(after)][1] <= s[k + 1][1] /\ k + 1 # 0
    BY <1>1, <1>2, <1>3, <2>3 DEF r
  <2>7. CoversFirst(after, s, k + 1)
    BY <2>3, <2>5 DEF CoversFirst
  <2>8. Merged(after, s, k + 1)
    BY <2>3, <2>6, <2>7 DEF Merged
  <2> QED
    BY <2>8 DEF after, r
<1> QED
  BY <1>7, <1>8

LEMMA LastEndType ==
    ASSUME NEW plan \in Seq(ByteRanges), NEW end \in Nat
    PROVE  EndLastAt(plan, end) \in Seq(ByteRanges)
<1> DEFINE n == Len(plan)
           last == <<plan[n][1], end>>
<1>1. n \in Nat /\ DOMAIN plan = 1..n /\ \A j \in 1..n : plan[j] \in ByteRanges
  OBVIOUS
<1>2. n \in 1..n => last \in ByteRanges
  BY <1>1 DEF ByteRanges
<1>3. EndLastAt(plan, end) = [j \in 1..n |-> IF j = n THEN last ELSE plan[j]]
  BY <1>1 DEF EndLastAt
<1> HIDE DEF n, last
<1>4. EndLastAt(plan, end) \in [1..n -> ByteRanges]
  BY <1>1, <1>2, <1>3
<1> QED
  BY <1>1, <1>4

LEMMA ExtendType ==
    ASSUME NEW plan \in Seq(ByteRanges), NEW r \in ByteRanges, NEW maxGap
    PROVE  ExtendPlan(plan, r, maxGap) \in Seq(ByteRanges)
<1>1. CASE plan # <<>> /\ r[1] - Last(plan)[2] <= maxGap
  <2>1. Last(plan) \in ByteRanges
    BY <1>1 DEF Last
  <2>2. Larger(Last(plan)[2], r[2]) \in Nat
    BY <2>1 DEF Larger, ByteRanges
  <2> QED
    BY <1>1, <2>2, LastEndType DEF ExtendPlan
<1>2. CASE ~(plan # <<>> /\ r[1] - Last(plan)[2] <= maxGap)
  BY <1>2 DEF ExtendPlan
<1> QED
  BY <1>1, <1>2

\* merge_ranges starts from nothing and takes one range after the other.
LEMMA MergeRun ==
    ASSUME NEW ranges, NEW maxGap, NEW s, s = ByStart(ranges), s \in Seq(ByteRanges)
    PROVE  \E run \in [0..Len(s) -> Seq(ByteRanges)] :
             /\ run[0] = <<>>
             /\ \A k \in 1..Len(s) : run[k] = ExtendPlan(run[k - 1], s[k], maxGap)
             /\ MergeRanges(ranges, maxGap) = run[Len(s)]
<1> DEFINE n == Len(s)
           A == Seq(ByteRanges)
           base == <<>>
           Solves(iter) ==
             iter = [d \in SUBSET (1..n) |->
                       IF d = {} THEN base ELSE ExtendPlan(iter[d \ {Max(d)}], s[Max(d)], maxGap)]
           fold == CHOOSE iter : Solves(iter)
           round == [p \in A \X (1..n) |-> ExtendPlan(p[1], s[p[2]], maxGap)]
<1>1. n \in Nat /\ DOMAIN s = 1..n /\ base \in A /\ \A k \in 1..n : s[k] \in ByteRanges
  OBVIOUS
<1>2. MergeRanges(ranges, maxGap) = fold[1..n]
  <2>1. DOMAIN s = 1..n
    BY <1>1
  <2> QED
    BY <2>1, Zenon DEF MergeRanges, FoldLeft, MapThenFoldSet
<1>3. round \in [A \X (1..n) -> A] /\ \A a \in A, k \in 1..n : round[<<a, k>>] = ExtendPlan(a, s[k], maxGap)
  <2>1. \A a \in A, k \in 1..n : ExtendPlan(a, s[k], maxGap) \in A
    BY <1>1, ExtendType
  <2> HIDE DEF A, n
  <2> QED
    BY <2>1
<1> HIDE DEF n, A, base, round
<1>4. ASSUME NEW d \in SUBSET (1..n), d # {} PROVE Max(d) \in 1..n /\ d \ {Max(d)} \in SUBSET (1..n)
  <2>1. d \subseteq 0..n
    BY <1>1
  <2> QED
    BY <1>1, <1>4, <2>1, MaxOf
<1>5. \E iter : Solves(iter)
  <2>1. PICK iter \in [SUBSET (1..n) -> A] : IsFold(iter, n, base, round)
    BY <1>1, <1>3, FoldExists
  <2>2. ASSUME NEW d \in SUBSET (1..n), d # {}
        PROVE  iter[d] = ExtendPlan(iter[d \ {Max(d)}], s[Max(d)], maxGap)
    <3>1. Max(d) \in 1..n /\ iter[d \ {Max(d)}] \in A
      BY <1>4, <2>2
    <3> QED
      BY <1>3, <2>1, <2>2, <3>1 DEF IsFold
  <2>3. \A d \in SUBSET (1..n) :
          iter[d] = IF d = {} THEN base ELSE ExtendPlan(iter[d \ {Max(d)}], s[Max(d)], maxGap)
    BY <2>1, <2>2 DEF IsFold
  <2>4. Solves(iter)
    BY <2>3
  <2> QED
    BY <2>4
<1>6. Solves(fold)
  BY <1>5, Zenon
<1> HIDE DEF fold
<1>7. ASSUME NEW d \in SUBSET (1..n)
      PROVE  /\ d = {} => fold[d] = base
             /\ d # {} /\ fold[d \ {Max(d)}] \in A => fold[d] = round[<<fold[d \ {Max(d)}], Max(d)>>]
  <2>1. fold[d] = IF d = {} THEN base ELSE ExtendPlan(fold[d \ {Max(d)}], s[Max(d)], maxGap)
    BY <1>6
  <2> QED
    BY <1>3, <1>4, <2>1
<1> DEFINE run == RunOf(fold, n)
<1>8. Recurs(run, A, n, base, round)
  <2>1. FoldsFrom(fold, A, n, base, round)
    BY <1>7 DEF FoldsFrom
  <2> QED
    BY <1>1, <1>3, <2>1, FoldRuns
<1>9. run[n] = fold[1..n]
  <2>1. n \in 0..n
    BY <1>1
  <2> QED
    BY <2>1 DEF RunOf
<1> HIDE DEF run
<1>10. ASSUME NEW k \in 1..n PROVE run[k] = ExtendPlan(run[k - 1], s[k], maxGap)
  <2>1. k - 1 \in 0..n
    BY <1>1
  <2>2. run[k - 1] \in A /\ run[k] = round[<<run[k - 1], k>>]
    BY <1>8, <2>1 DEF Recurs
  <2> QED
    BY <1>3, <2>2
<1>11. run \in [0..n -> A] /\ run[0] = base
  BY <1>8 DEF Recurs
<1> QED
  BY <1>2, <1>9, <1>10, <1>11 DEF n, A, base

\* merge_ranges covers what is asked for, with ranges that do not touch.
LEMMA MergeCovers ==
    ASSUME NEW ranges, ValidRanges(ranges), NEW maxGap \in Nat
    PROVE  /\ ValidRanges(MergeRanges(ranges, maxGap)) /\ Apart(MergeRanges(ranges, maxGap))
           /\ CoversFirst(MergeRanges(ranges, maxGap), ranges, Len(ranges))
<1> DEFINE s == ByStart(ranges)
           n == Len(s)
           plan == MergeRanges(ranges, maxGap)
<1>1. InStartOrder(s, ranges)
  BY ByStartIs
<1> HIDE DEF s, plan
<1>2. s \in Seq(ByteRanges) /\ n \in Nat /\ n = Len(ranges)
  BY <1>1 DEF InStartOrder, ValidRanges
<1>3. PICK run \in [0..n -> Seq(ByteRanges)] :
        /\ run[0] = <<>>
        /\ \A k \in 1..n : run[k] = ExtendPlan(run[k - 1], s[k], maxGap)
        /\ plan = run[n]
  <2>1. s = ByStart(ranges) /\ plan = MergeRanges(ranges, maxGap)
    BY DEF s, plan
  <2>2. \E run \in [0..Len(s) -> Seq(ByteRanges)] :
          /\ run[0] = <<>>
          /\ \A k \in 1..Len(s) : run[k] = ExtendPlan(run[k - 1], s[k], maxGap)
          /\ MergeRanges(ranges, maxGap) = run[Len(s)]
    BY ONLY <1>2, <2>1, MergeRun
  <2> QED
    BY <2>1, <2>2
<1> HIDE DEF n
<1> DEFINE S == {k \in 0..n : Merged(run[k], s, k)}
<1>4. 0 \in S
  <2>1. Merged(<<>>, s, 0)
    BY DEF Merged, ValidRanges, Apart, CoversFirst
  <2> QED
    BY <1>2, <1>3, <2>1
<1>5. ASSUME NEW k \in 0..(n - 1), k \in S PROVE k + 1 \in S
  <2>1. k + 1 \in 1..n /\ k + 1 \in 0..n /\ (k + 1) - 1 = k
    BY <1>2
  <2>2. Merged(run[k], s, k) /\ k \in 0..(Len(s) - 1)
    BY <1>5 DEF n
  <2>3. Merged(ExtendPlan(run[k], s[k + 1], maxGap), s, k + 1)
    BY <1>1, <2>2, ExtendKeeps
  <2> QED
    BY <1>3, <2>1, <2>3
<1> HIDE DEF S
<1>6. \A k \in 0..n : k \in S
  BY <1>2, <1>4, <1>5, IntervalInduction
<1>7. Merged(plan, s, n)
  <2>1. n \in S
    BY <1>2, <1>6
  <2> QED
    BY <1>3, <2>1 DEF S
<1>8. CoversFirst(plan, ranges, Len(ranges))
  <2> SUFFICES ASSUME NEW i \in 1..Len(ranges)
               PROVE  \E j \in 1..Len(plan) : plan[j][1] <= ranges[i][1] /\ ranges[i][2] <= plan[j][2]
    BY DEF CoversFirst
  <2>1. PICK k \in 1..n : s[k] = ranges[i]
    BY <1>1 DEF InStartOrder, n
  <2> QED
    BY <1>7, <2>1 DEF Merged, CoversFirst
<1> QED
  BY <1>7, <1>8 DEF Merged, plan

-----------------------------------------------------------------------------
(* merge_smallest_gaps.                                                    *)

\* A plan that has taken in the first k ranges of exact.
Joined(plan, exact, k) ==
    /\ ValidRanges(plan) /\ Apart(plan) /\ CoversFirst(plan, exact, k)
    /\ k = 0 => Len(plan) = 0
    /\ k >= 1 => Len(plan) >= 1 /\ plan[Len(plan)][2] = exact[k][2]

LEMMA JoinKeeps ==
    ASSUME NEW exact, ValidRanges(exact), Apart(exact), NEW merged,
           NEW k \in 0..(Len(exact) - 1), NEW plan, Joined(plan, exact, k)
    PROVE  Joined(JoinNext(plan, exact, merged, k + 1), exact, k + 1)
<1> DEFINE r == exact[k + 1]
           n == Len(plan)
           after == JoinNext(plan, exact, merged, k + 1)
<1>1. /\ k \in Nat /\ k + 1 \in 1..Len(exact) /\ Len(exact) \in Nat /\ r \in ByteRanges /\ r[1] <= r[2]
      /\ (k + 1) - 1 = k /\ (k + 1 > 1 <=> k >= 1)
  BY DEF ValidRanges
<1>2. r[1] \in Nat /\ r[2] \in Nat
  BY <1>1 DEF ByteRanges
<1>3. n \in Nat /\ plan \in Seq(ByteRanges) /\ ValidRanges(plan) /\ Apart(plan)
  BY DEF Joined, ValidRanges
<1>4. \A i \in 1..(k + 1) : i \in 1..k \/ i = k + 1
  BY <1>1
<1>5. ASSUME k >= 1
      PROVE  /\ n >= 1 /\ plan[n][1] \in Nat /\ plan[n][2] \in Nat /\ plan[n][1] <= plan[n][2]
             /\ plan[n][2] < r[1]
  <2>1. n >= 1 /\ plan[n][2] = exact[k][2]
    BY <1>5 DEF Joined
  <2>2. plan[n] \in ByteRanges /\ plan[n][1] <= plan[n][2]
    BY <1>3, <2>1 DEF ValidRanges
  <2>3. exact[k][2] < r[1]
    <3>1. k \in 1..Len(exact) /\ k < k + 1
      BY <1>1, <1>5
    <3> QED
      BY <1>1, <3>1 DEF Apart
  <2> QED
    BY <2>1, <2>2, <2>3 DEF ByteRanges
<1>6. CASE k >= 1 /\ k \in merged
  <2>1. after = EndLastAt(plan, r[2])
    BY <1>1, <1>6 DEF JoinNext
  <2>2. n >= 1 /\ plan[n][2] <= r[2]
    BY <1>1, <1>2, <1>5, <1>6
  <2> HIDE DEF r, after
  <2>3. /\ ValidRanges(after) /\ Apart(after) /\ Len(after) = n /\ after[n] = <<plan[n][1], r[2]>>
        /\ \A j \in 1..n : after[j][1] = plan[j][1] /\ plan[j][2] <= after[j][2]
    BY <1>2, <1>3, <2>1, <2>2, LastGrows
  <2> HIDE DEF n
  <2>4. plan[n][1] <= r[1]
    BY <1>2, <1>5, <1>6
  <2>5. ASSUME NEW i \in 1..(k + 1)
        PROVE  \E j \in 1..n : after[j][1] <= exact[i][1] /\ exact[i][2] <= after[j][2]
    <3>1. CASE i = k + 1
      <4>1. n \in 1..n /\ after[n][1] = plan[n][1] /\ after[n][2] = r[2]
        BY <1>3, <2>2, <2>3
      <4> QED
        BY <1>2, <2>4, <3>1, <4>1 DEF r
    <3>2. CASE i \in 1..k
      <4>1. PICK j \in 1..n : plan[j][1] <= exact[i][1] /\ exact[i][2] <= plan[j][2]
        BY <3>2 DEF Joined, CoversFirst, n
      <4>2. after[j][1] = plan[j][1] /\ plan[j][2] <= after[j][2]
        BY <2>3
      <4>3. plan[j] \in ByteRanges /\ after[j] \in ByteRanges /\ exact[i] \in ByteRanges
        <5>1. i \in 1..Len(exact)
          BY <1>1, <3>2
        <5>2. exact[i] \in ByteRanges
          BY <5>1 DEF ValidRanges
        <5>3. plan \in Seq(ByteRanges) /\ after \in Seq(ByteRanges) /\ Len(after) = n /\ Len(plan) = n
          BY <1>3, <2>3 DEF ValidRanges, n
        <5> QED
          BY <5>2, <5>3
      <4>4. plan[j][2] \in Nat /\ after[j][2] \in Nat /\ exact[i][2] \in Nat
        BY <4>3 DEF ByteRanges
      <4>5. exact[i][2] <= after[j][2]
        BY <4>1, <4>2, <4>4
      <4> QED
        BY <4>1, <4>2, <4>5
    <3> QED
      BY <1>4, <3>1, <3>2
  <2>6. Len(after) >= 1 /\ after[Len(after)][2] = exact[k + 1][2] /\ k + 1 # 0
    BY <1>1, <2>2, <2>3 DEF r
  <2>7. CoversFirst(after, exact, k + 1)
    BY <2>3, <2>5 DEF CoversFirst
  <2>8. Joined(after, exact, k + 1)
    BY <2>3, <2>6, <2>7 DEF Joined
  <2> QED
    BY <2>8 DEF after, r
<1>7. CASE ~(k >= 1 /\ k \in merged)
  <2>1. after = Append(plan, r)
    BY <1>1, <1>7 DEF JoinNext
  <2>2. EndsBefore(plan, r)
    <3>1. CASE k >= 1
      BY <1>5, <3>1 DEF EndsBefore
    <3>2. CASE k = 0
      BY <3>2 DEF EndsBefore, Joined
    <3> QED
      BY <1>1, <3>1, <3>2
  <2> HIDE DEF r, after
  <2>3. IsAdded(after, plan, r)
    <3>1. r \in ByteRanges /\ r[1] <= r[2]
      BY <1>1 DEF r
    <3> QED
      BY <1>3, <2>1, <2>2, <3>1, RangeAdded
  <2>4. n + 1 \in 1..(n + 1) /\ \A j \in 1..n : j \in 1..(n + 1)
    BY <1>3
  <2>5. /\ ValidRanges(after) /\ Apart(after) /\ Len(after) = n + 1 /\ after[n + 1] = r
        /\ \A j \in 1..n : after[j] = plan[j]
    BY <2>3 DEF IsAdded
  <2> HIDE DEF n
  <2>6. ASSUME NEW i \in 1..(k + 1)
        PROVE  \E j \in 1..(n + 1) : after[j][1] <= exact[i][1] /\ exact[i][2] <= after[j][2]
    <3>1. CASE i = k + 1
      <4>1. after[n + 1][1] <= exact[i][1] /\ exact[i][2] <= after[n + 1][2]
        BY <1>2, <2>5, <3>1 DEF r
      <4> QED
        BY <2>4, <4>1
    <3>2. CASE i \in 1..k
      <4>1. PICK j \in 1..n : plan[j][1] <= exact[i][1] /\ exact[i][2] <= plan[j][2]
        BY <3>2 DEF Joined, CoversFirst, n
      <4> QED
        BY <2>4, <2>5, <4>1
    <3> QED
      BY <1>4, <3>1, <3>2
  <2>7. Len(after) >= 1 /\ after[Len(after)][2] = exact[k + 1][2] /\ k + 1 # 0
    BY <1>1, <1>3, <2>5 DEF r
  <2>8. CoversFirst(after, exact, k + 1)
    BY <2>5, <2>6 DEF CoversFirst
  <2>9. Joined(after, exact, k + 1)
    BY <2>5, <2>7, <2>8 DEF Joined
  <2> QED
    BY <2>9 DEF after, r
<1> QED
  BY <1>6, <1>7

LEMMA JoinType ==
    ASSUME NEW exact \in Seq(ByteRanges), NEW merged, NEW plan \in Seq(ByteRanges), NEW i \in 1..Len(exact)
    PROVE  JoinNext(plan, exact, merged, i) \in Seq(ByteRanges)
<1>1. exact[i] \in ByteRanges
  OBVIOUS
<1>2. CASE i > 1 /\ i - 1 \in merged
  <2>1. exact[i][2] \in Nat
    BY <1>1 DEF ByteRanges
  <2> QED
    BY <1>2, <2>1, LastEndType DEF JoinNext
<1>3. CASE ~(i > 1 /\ i - 1 \in merged)
  BY <1>1, <1>3 DEF JoinNext
<1> QED
  BY <1>2, <1>3

\* The rounds of merge_smallest_gaps, and the plan they end with.
JoinRounds(run, exact, merged, plan) ==
    /\ run \in [0..Len(exact) -> Seq(ByteRanges)] /\ run[0] = <<>>
    /\ \A k \in 1..Len(exact) : run[k] = JoinNext(run[k - 1], exact, merged, k)
    /\ plan = run[Len(exact)]

LEMMA JoinRun ==
    ASSUME NEW exact \in Seq(ByteRanges), NEW gaps, NEW count
    PROVE  \E run, merged : JoinRounds(run, exact, merged, MergeSmallestGaps(exact, gaps, count))
<1> DEFINE n == Len(exact)
           merged == {gaps[k][2] : k \in 1..Least(count, Len(gaps))}
           plan == MergeSmallestGaps(exact, gaps, count)
           A == Seq(ByteRanges)
           base == <<>>
           index == [i \in DOMAIN exact |-> i]
           Solves(iter) ==
             iter = [d \in SUBSET (1..n) |->
                       IF d = {} THEN base ELSE JoinNext(iter[d \ {Max(d)}], exact, merged, index[Max(d)])]
           fold == CHOOSE iter : Solves(iter)
           round == [p \in A \X (1..n) |-> JoinNext(p[1], exact, merged, p[2])]
<1>1. n \in Nat /\ DOMAIN exact = 1..n /\ base \in A /\ DOMAIN index = 1..n /\ \A k \in 1..n : index[k] = k
  OBVIOUS
<1>2. plan = fold[1..n]
  <2>1. plan = FoldLeftDomain(LAMBDA p, i : JoinNext(p, exact, merged, i), <<>>, exact)
    BY Zenon DEF MergeSmallestGaps
  <2> HIDE DEF plan, merged
  <2>2. FoldLeftDomain(LAMBDA p, i : JoinNext(p, exact, merged, i), <<>>, exact)
          = FoldLeft(LAMBDA p, i : JoinNext(p, exact, merged, i), <<>>, index)
    BY Zenon DEF FoldLeftDomain
  <2>3. DOMAIN index = 1..n
    BY <1>1
  <2> HIDE DEF index
  <2>4. FoldLeft(LAMBDA p, i : JoinNext(p, exact, merged, i), <<>>, index) = fold[1..n]
    BY <2>3, Zenon DEF FoldLeft, MapThenFoldSet
  <2> QED
    BY <2>1, <2>2, <2>4, Zenon
<1> HIDE DEF plan, merged
<1> HIDE DEF index
<1>3. round \in [A \X (1..n) -> A] /\ \A a \in A, k \in 1..n : round[<<a, k>>] = JoinNext(a, exact, merged, k)
  <2>1. \A a \in A, k \in 1..n : JoinNext(a, exact, merged, k) \in A
    BY JoinType
  <2> HIDE DEF A, n
  <2> QED
    BY <2>1
<1> HIDE DEF n, A, base, round
<1>4. ASSUME NEW d \in SUBSET (1..n), d # {}
      PROVE  Max(d) \in 1..n /\ d \ {Max(d)} \in SUBSET (1..n) /\ index[Max(d)] = Max(d)
  <2>1. d \subseteq 0..n
    BY <1>1
  <2> QED
    BY <1>1, <1>4, <2>1, MaxOf
<1>5. \E iter : Solves(iter)
  <2>1. PICK iter \in [SUBSET (1..n) -> A] : IsFold(iter, n, base, round)
    BY <1>1, <1>3, FoldExists
  <2>2. ASSUME NEW d \in SUBSET (1..n), d # {}
        PROVE  iter[d] = JoinNext(iter[d \ {Max(d)}], exact, merged, index[Max(d)])
    <3>1. Max(d) \in 1..n /\ iter[d \ {Max(d)}] \in A /\ index[Max(d)] = Max(d)
      BY <1>4, <2>2
    <3> QED
      BY <1>3, <2>1, <2>2, <3>1 DEF IsFold
  <2>3. \A d \in SUBSET (1..n) :
          iter[d] = IF d = {} THEN base ELSE JoinNext(iter[d \ {Max(d)}], exact, merged, index[Max(d)])
    BY <2>1, <2>2 DEF IsFold
  <2>4. Solves(iter)
    BY <2>3
  <2> QED
    BY <2>4
<1>6. Solves(fold)
  BY <1>5, Zenon
<1> HIDE DEF fold
<1>7. ASSUME NEW d \in SUBSET (1..n)
      PROVE  /\ d = {} => fold[d] = base
             /\ d # {} /\ fold[d \ {Max(d)}] \in A => fold[d] = round[<<fold[d \ {Max(d)}], Max(d)>>]
  <2>1. fold[d] = IF d = {} THEN base ELSE JoinNext(fold[d \ {Max(d)}], exact, merged, index[Max(d)])
    BY <1>6
  <2> QED
    BY <1>3, <1>4, <2>1
<1> DEFINE run == RunOf(fold, n)
<1>8. Recurs(run, A, n, base, round)
  <2>1. FoldsFrom(fold, A, n, base, round)
    BY <1>7 DEF FoldsFrom
  <2> QED
    BY <1>1, <1>3, <2>1, FoldRuns
<1>9. run[n] = fold[1..n]
  <2>1. n \in 0..n
    BY <1>1
  <2> QED
    BY <2>1 DEF RunOf
<1> HIDE DEF run
<1>10. ASSUME NEW k \in 1..n PROVE run[k] = JoinNext(run[k - 1], exact, merged, k)
  <2>1. k - 1 \in 0..n
    BY <1>1
  <2>2. run[k - 1] \in A /\ run[k] = round[<<run[k - 1], k>>]
    BY <1>8, <2>1 DEF Recurs
  <2> QED
    BY <1>3, <2>2
<1>11. run \in [0..n -> A] /\ run[0] = base
  BY <1>8 DEF Recurs
<1>12. JoinRounds(run, exact, merged, plan)
  <2>1. plan = run[Len(exact)]
    BY <1>2, <1>9 DEF n
  <2>2. run \in [0..Len(exact) -> Seq(ByteRanges)] /\ run[0] = <<>>
    BY <1>11 DEF n, A, base
  <2> QED
    BY <1>10, <2>1, <2>2 DEF JoinRounds, n
<1> QED
  BY ONLY <1>12, Zenon DEF plan

\* Whichever gaps are read as well, the plan covers the exact one.
LEMMA JoinCovers ==
    ASSUME NEW exact, ValidRanges(exact), Apart(exact), NEW gaps, NEW count
    PROVE  /\ ValidRanges(MergeSmallestGaps(exact, gaps, count)) /\ Apart(MergeSmallestGaps(exact, gaps, count))
           /\ CoversFirst(MergeSmallestGaps(exact, gaps, count), exact, Len(exact))
<1> DEFINE n == Len(exact)
           plan == MergeSmallestGaps(exact, gaps, count)
<1>1. exact \in Seq(ByteRanges) /\ n \in Nat
  BY DEF ValidRanges
<1> HIDE DEF plan
<1>2. PICK run, merged : JoinRounds(run, exact, merged, plan)
  BY <1>1, JoinRun DEF plan
<1>3. /\ run \in [0..n -> Seq(ByteRanges)] /\ run[0] = <<>>
      /\ \A k \in 1..n : run[k] = JoinNext(run[k - 1], exact, merged, k)
  BY <1>2 DEF JoinRounds
<1>4. plan = run[n]
  BY <1>2 DEF JoinRounds
<1> HIDE DEF n
<1> DEFINE S == {k \in 0..n : Joined(run[k], exact, k)}
<1>5. 0 \in S
  <2>1. Joined(<<>>, exact, 0)
    BY DEF Joined, ValidRanges, Apart, CoversFirst
  <2>2. 0 \in 0..n
    BY <1>1
  <2> QED
    BY <1>3, <2>1, <2>2
<1>6. ASSUME NEW k \in 0..(n - 1), k \in S PROVE k + 1 \in S
  <2>1. k + 1 \in 1..n /\ k + 1 \in 0..n /\ (k + 1) - 1 = k
    BY <1>1
  <2>2. Joined(run[k], exact, k) /\ k \in 0..(Len(exact) - 1)
    BY <1>6 DEF n
  <2>3. Joined(JoinNext(run[k], exact, merged, k + 1), exact, k + 1)
    BY <2>2, JoinKeeps
  <2> QED
    BY <1>3, <2>1, <2>3
<1> HIDE DEF S
<1>7. \A k \in 0..n : k \in S
  BY <1>1, <1>5, <1>6, IntervalInduction
<1>8. Joined(plan, exact, n)
  <2>1. n \in S
    BY <1>1, <1>7
  <2> QED
    BY <1>4, <2>1 DEF S
<1> QED
  BY <1>8 DEF Joined, plan, n

LEMMA ContainsAll ==
    ASSUME NEW plan, ValidRanges(plan), NEW exact, ValidRanges(exact), NEW ranges, ValidRanges(ranges),
           CoversFirst(plan, exact, Len(exact)), CoversFirst(exact, ranges, Len(ranges))
    PROVE  CoversFirst(plan, ranges, Len(ranges))
<1> SUFFICES ASSUME NEW i \in 1..Len(ranges)
             PROVE  \E j \in 1..Len(plan) : plan[j][1] <= ranges[i][1] /\ ranges[i][2] <= plan[j][2]
  BY DEF CoversFirst
<1>1. PICK k \in 1..Len(exact) : exact[k][1] <= ranges[i][1] /\ ranges[i][2] <= exact[k][2]
  BY DEF CoversFirst
<1>2. PICK j \in 1..Len(plan) : plan[j][1] <= exact[k][1] /\ exact[k][2] <= plan[j][2]
  BY DEF CoversFirst
<1>3. plan[j] \in ByteRanges /\ exact[k] \in ByteRanges /\ ranges[i] \in ByteRanges
  BY DEF ValidRanges
<1>4. /\ plan[j][1] \in Nat /\ plan[j][2] \in Nat /\ exact[k][1] \in Nat /\ exact[k][2] \in Nat
      /\ ranges[i][1] \in Nat /\ ranges[i][2] \in Nat
  BY <1>3 DEF ByteRanges
<1>5. plan[j][1] <= ranges[i][1] /\ ranges[i][2] <= plan[j][2]
  <2>1. \A a, b, c \in Nat : a <= b /\ b <= c => a <= c
    OBVIOUS
  <2> QED
    BY ONLY <1>1, <1>2, <1>4, <2>1, Zenon
<1> QED
  BY <1>5

-----------------------------------------------------------------------------
(* choose_range_plan and choose_bounded_range_plan.                        *)

Covering(plan, ranges) == ValidRanges(plan) /\ Apart(plan) /\ CoversFirst(plan, ranges, Len(ranges))

LEMMA GapsCovered ==
    ASSUME NEW ranges, ValidRanges(ranges), NEW exact, Covering(exact, ranges), NEW gaps, NEW count
    PROVE  Covering(MergeSmallestGaps(exact, gaps, count), ranges)
<1> DEFINE plan == MergeSmallestGaps(exact, gaps, count)
<1>1. ValidRanges(exact) /\ Apart(exact) /\ CoversFirst(exact, ranges, Len(ranges))
  BY DEF Covering
<1>2. ValidRanges(plan) /\ Apart(plan) /\ CoversFirst(plan, exact, Len(exact))
  BY <1>1, JoinCovers
<1> HIDE DEF plan
<1>3. CoversFirst(plan, ranges, Len(ranges))
  BY <1>1, <1>2, ContainsAll
<1>4. Covering(plan, ranges)
  BY <1>2, <1>3 DEF Covering
<1> QED
  BY <1>4 DEF plan

LEMMA WavesNat ==
    ASSUME NEW count \in Nat, NEW concurrency \in Nat
    PROVE  RequestWaves(count, concurrency) \in Nat
<1> DEFINE a == count + Larger(concurrency, 1) - 1
           b == Larger(concurrency, 1)
<1>1. a \in Nat /\ b \in Nat \ {0}
  BY DEF Larger
<1> HIDE DEF a, b
<1>2. a \div b \in Nat
  BY <1>1
<1> QED
  BY <1>2 DEF RequestWaves, a, b

LEMMA BytesNat ==
    ASSUME NEW plan, ValidRanges(plan)
    PROVE  RangeBytes(plan) \in Nat
<1> DEFINE n == Len(plan)
           s == [i \in DOMAIN plan |-> plan[i][2] - plan[i][1]]
<1>1. n \in Nat /\ DOMAIN plan = 1..n /\ \A i \in 1..n : plan[i] \in ByteRanges /\ plan[i][1] <= plan[i][2]
  BY DEF ValidRanges
<1>2. \A i \in 1..n : plan[i][2] - plan[i][1] \in Nat
  BY <1>1 DEF ByteRanges
<1>3. s \in [1..n -> Nat] /\ s \in [1..n -> Int]
  BY <1>1, <1>2
<1>4. RangeBytes(plan) = SumOf(s)
  BY Zenon DEF RangeBytes
<1> HIDE DEF s, n
<1> QED
  BY <1>1, <1>3, <1>4, PrefixGrows

\* Each plan that choose_range_plan weighs covers what is asked for.
CoveringAll(candidates, ranges) ==
    /\ candidates \in Seq(Seq(ByteRanges)) /\ Len(candidates) >= 1
    /\ \A i \in 1..Len(candidates) : Covering(candidates[i], ranges)

LEMMA CandidatesCover ==
    ASSUME NEW ranges, ValidRanges(ranges)
    PROVE  CoveringAll(CandidateRangePlans(ranges), ranges)
<1> DEFINE exact == MergeRanges(ranges, 0)
           gaps == SortedGaps(exact, <<>>)
           waves == RequestWaves(Len(exact), MaxConcurrentReads) - 1
           most == MaxRangeRequests \div MaxConcurrentReads
           highest == Least(waves, most)
           InWaves(w) == MergeSmallestGaps(exact, gaps, Len(exact) - w * MaxConcurrentReads)
           Small(w) == RangeBytes(InWaves(w)) <= MaxByteAmplification * RangeBytes(exact)
           kept == {w \in 1..highest : \A v \in w..highest : Small(v)}
           m == Cardinality(kept)
           rest == [k \in 1..m |-> InWaves(highest + 1 - k)]
<1>1. CandidateRangePlans(ranges) = IF exact = <<>> THEN <<exact>> ELSE <<exact>> \o rest
  BY Zenon DEF CandidateRangePlans
<1>2. Covering(exact, ranges)
  BY MergeCovers DEF Covering
<1> HIDE DEF exact, gaps
<1>3. \A w : Covering(InWaves(w), ranges)
  BY <1>2, GapsCovered
<1>4. highest \in Int
  <2>1. MaxConcurrentReads \in Nat \ {0} /\ MaxRangeRequests \in Nat
    BY RangePlanningAssumption
  <2>2. Len(exact) \in Nat
    BY <1>2 DEF Covering, ValidRanges
  <2>3. waves \in Int
    <3>1. RequestWaves(Len(exact), MaxConcurrentReads) \in Nat
      BY ONLY <2>1, <2>2, WavesNat
    <3> QED
      BY ONLY <3>1
  <2>4. most \in Int
    BY <2>1
  <2> HIDE DEF waves, most
  <2> QED
    BY <2>3, <2>4 DEF Least
<1> HIDE DEF InWaves, highest
<1>5. m \in Nat
  <2>1. IsFiniteSet(1..highest)
    BY <1>4, FS_Interval
  <2>2. kept \subseteq 1..highest
    BY Zenon
  <2> HIDE DEF kept
  <2> QED
    BY <2>1, <2>2, FS_Subset, FS_CardinalityType
<1> HIDE DEF m
<1>6. exact \in Seq(ByteRanges) /\ \A k \in 1..m : InWaves(highest + 1 - k) \in Seq(ByteRanges)
  BY <1>2, <1>3 DEF Covering, ValidRanges
<1>7. rest \in Seq(Seq(ByteRanges)) /\ Len(rest) = m /\ \A k \in 1..m : Covering(rest[k], ranges)
  <2>1. rest \in [1..m -> Seq(ByteRanges)]
    BY <1>6
  <2>2. rest \in Seq(Seq(ByteRanges)) /\ Len(rest) = m
    BY <1>5, <2>1
  <2> QED
    BY <1>3, <2>2
<1> HIDE DEF rest
<1>8. CoveringAll(<<exact>>, ranges)
  BY <1>2, <1>6 DEF CoveringAll
<1>9. CoveringAll(<<exact>> \o rest, ranges)
  <2> DEFINE all == <<exact>> \o rest
  <2>1. all \in Seq(Seq(ByteRanges)) /\ Len(all) = m + 1 /\ all[1] = exact /\ \A k \in 1..m : all[k + 1] = rest[k]
    BY <1>5, <1>6, <1>7
  <2> HIDE DEF all
  <2>2. ASSUME NEW i \in 1..Len(all) PROVE Covering(all[i], ranges)
    <3>1. CASE i = 1
      BY <1>2, <2>1, <3>1
    <3>2. CASE i # 1
      <4>1. i - 1 \in 1..m /\ (i - 1) + 1 = i
        BY <1>5, <2>1, <3>2
      <4>2. all[i] = rest[i - 1]
        BY <2>1, <4>1
      <4> QED
        BY <1>7, <4>1, <4>2
    <3> QED
      BY <3>1, <3>2
  <2>3. CoveringAll(all, ranges)
    BY <1>5, <2>1, <2>2 DEF CoveringAll
  <2> QED
    BY <2>3 DEF all
<1> QED
  BY <1>1, <1>8, <1>9

LEMMA ChosenCovers ==
    ASSUME NEW ranges, ValidRanges(ranges), NEW delay, delay # NoEstimate => delay \in Nat
    PROVE  Covering(ChooseRangePlan(ranges, delay), ranges)
<1> DEFINE candidates == CandidateRangePlans(ranges)
           n == Len(candidates)
           coldStart == IF Len(candidates[1]) > MaxRangeRequests /\ Len(candidates) > 1 THEN 2 ELSE 1
           Cost(i) == RangeCostBytes(candidates[i], delay)
           costs == {Cost(i) : i \in DOMAIN candidates}
           best == Min(costs)
           competitive == {i \in DOMAIN candidates :
                             Cost(i) <= best + (best * DecisionMarginPercent) \div 100}
           NoWorse(i, j) == LET a == candidates[i] b == candidates[j]
                            IN  \/ RangeBytes(a) < RangeBytes(b)
                                \/ RangeBytes(a) = RangeBytes(b) /\ Len(a) <= Len(b)
           leaders == {i \in competitive : \A j \in competitive : NoWorse(i, j)}
<1>1. ChooseRangePlan(ranges, delay)
        = IF delay = NoEstimate THEN candidates[coldStart] ELSE candidates[Min(leaders)]
  BY Zenon DEF ChooseRangePlan, ChooseAmong
<1>2. CoveringAll(candidates, ranges)
  BY CandidatesCover
<1> HIDE DEF candidates
<1>3. /\ n \in Nat /\ n >= 1 /\ DOMAIN candidates = 1..n
      /\ \A i \in 1..n : Covering(candidates[i], ranges) /\ ValidRanges(candidates[i])
  BY <1>2 DEF CoveringAll, Covering
<1>4. coldStart \in 1..n
  BY <1>3
<1>5. ASSUME delay # NoEstimate PROVE Min(leaders) \in 1..n
  <2>1. ASSUME NEW i \in 1..n PROVE Cost(i) \in Nat
    <3> DEFINE plan == candidates[i]
               bytes == RangeBytes(plan)
               waves == RequestWaves(Len(plan), MaxConcurrentReads)
    <3>1. ValidRanges(plan) /\ Len(plan) \in Nat
      BY <1>3 DEF ValidRanges
    <3>2. bytes \in Nat
      BY <3>1, BytesNat
    <3>3. waves \in Nat
      BY <3>1, RangePlanningAssumption, WavesNat
    <3>4. Cost(i) = bytes + waves * delay
      BY DEF RangeCostBytes
    <3> HIDE DEF bytes, waves
    <3> QED
      BY <1>5, <3>2, <3>3, <3>4
  <2> HIDE DEF Cost
  <2>2. costs \subseteq Nat /\ costs # {}
    BY <1>3, <2>1
  <2>3. best \in costs
    BY <2>2, MinOf
  <2>4. PICK least \in 1..n : best = Cost(least)
    BY <1>3, <2>3
  <2> HIDE DEF best
  <2>5. best \in Nat
    BY <2>1, <2>4
  <2>6. best <= best + (best * DecisionMarginPercent) \div 100
    BY <2>5 DEF DecisionMarginPercent
  <2>7. least \in competitive /\ competitive \subseteq 1..n
    BY <1>3, <2>4, <2>6
  <2> HIDE DEF competitive
  <2> DEFINE Bytes(i) == RangeBytes(candidates[i])
             Requests(i) == Len(candidates[i])
  <2>8. \A i \in 1..n : Bytes(i) \in Nat /\ Requests(i) \in Nat
    BY <1>3, BytesNat DEF ValidRanges
  <2>9. \A i, j : NoWorse(i, j) <=> Bytes(i) < Bytes(j) \/ (Bytes(i) = Bytes(j) /\ Requests(i) <= Requests(j))
    OBVIOUS
  <2> HIDE DEF Bytes, Requests, NoWorse
  <2>10. PICK i \in competitive : \A j \in competitive : Bytes(i) <= Bytes(j)
    <3> DEFINE T == {Bytes(i) : i \in competitive}
    <3>1. T \subseteq Nat /\ T # {}
      BY <2>7, <2>8
    <3>2. PICK t \in T : \A u \in T : t <= u
      BY <3>1, LeastNat
    <3> QED
      BY <3>2
  <2> DEFINE light == {j \in competitive : Bytes(j) = Bytes(i)}
  <2>11. PICK k \in light : \A j \in light : Requests(k) <= Requests(j)
    <3> DEFINE T == {Requests(j) : j \in light}
    <3>1. T \subseteq Nat /\ T # {}
      BY <2>7, <2>8
    <3>2. PICK t \in T : \A u \in T : t <= u
      BY <3>1, LeastNat
    <3> QED
      BY <3>2
  <2>12. ASSUME NEW j \in competitive PROVE NoWorse(k, j)
    <3>1. Bytes(k) = Bytes(i) /\ Bytes(i) <= Bytes(j) /\ Bytes(i) \in Nat /\ Bytes(j) \in Nat
      BY <2>7, <2>8, <2>10, <2>11
    <3>2. Bytes(j) = Bytes(i) => Requests(k) <= Requests(j)
      BY <2>11
    <3> QED
      BY <2>9, <3>1, <3>2
  <2>13. leaders # {} /\ leaders \subseteq competitive
    <3>1. k \in competitive
      BY <2>11
    <3>2. k \in leaders
      BY <2>12, <3>1
    <3> QED
      BY <3>2
  <2> HIDE DEF leaders
  <2>14. leaders \subseteq Nat /\ leaders \subseteq 1..n
    BY <2>7, <2>13
  <2> QED
    BY <2>13, <2>14, MinOf
<1> HIDE DEF coldStart, leaders, n
<1> QED
  BY <1>1, <1>3, <1>4, <1>5

LEMMA BoundedCovers ==
    ASSUME NEW ranges, ValidRanges(ranges), NEW cached, NEW delay, NEW concurrency, NEW byteBudget, NEW overhead,
           ChooseBoundedRangePlan(ranges, cached, delay, concurrency, byteBudget, overhead) # NoPlan
    PROVE  Covering(ChooseBoundedRangePlan(ranges, cached, delay, concurrency, byteBudget, overhead), ranges)
<1> DEFINE plan == ChooseBoundedRangePlan(ranges, cached, delay, concurrency, byteBudget, overhead)
           exact == MergeRanges(ranges, 0)
<1>1. Covering(exact, ranges)
  BY MergeCovers DEF Covering
<1>2. \E gaps, count : plan = MergeSmallestGaps(exact, gaps, count)
  BY Zenon DEF ChooseBoundedRangePlan
<1> HIDE DEF exact, plan
<1>3. PICK gaps, count : plan = MergeSmallestGaps(exact, gaps, count)
  BY <1>2
<1>4. Covering(plan, ranges)
  BY <1>1, <1>3, GapsCovered
<1> QED
  BY <1>4 DEF plan

LEMMA CoveringCovers ==
    ASSUME NEW plan, NEW ranges, ValidRanges(ranges), Covering(plan, ranges)
    PROVE  Covers(plan, ranges)
<1>1. plan \in Seq(ByteRanges) /\ DOMAIN plan = 1..Len(plan) /\ DOMAIN ranges = 1..Len(ranges)
  BY DEF Covering, ValidRanges
<1> QED
  BY <1>1 DEF Covering, ValidRanges, Apart, CoversFirst, Covers, ByteRanges

\* Whatever its ranges, its strategy and its estimate, a call of get_ranges or
\* read_partial_ranges is refused, or gets from merge_ranges, choose_range_plan or
\* choose_bounded_range_plan physical ranges that are sorted, do not touch, and
\* each requested range lies within one of them.
THEOREM PlannersCover ==
    ASSUME NEW call, WellFormed(call)
    PROVE  Planned(call)
<1> DEFINE ranges == call.ranges
           plan == PlanOf(call)
<1>1. /\ ValidRanges(ranges) /\ MergeGap \in Nat /\ call.strategy \in Strategies
      /\ call.delay # NoEstimate => call.delay \in Nat
  BY RangeReadsAssumption DEF WellFormed, ValidRanges, ByteRanges
<1>2. CASE call.strategy = "ReadExactRanges"
  <2>1. plan = MergeRanges(ranges, 0)
    BY <1>2 DEF PlanOf
  <2>2. Covering(plan, ranges)
    BY <1>1, <2>1, MergeCovers DEF Covering
  <2> QED
    BY <1>1, <2>2, CoveringCovers DEF Planned
<1>3. CASE call.strategy = "MergeRangesWithinOneMegabyte"
  <2>1. plan = MergeRanges(ranges, MergeGap)
    BY <1>3 DEF PlanOf
  <2>2. Covering(plan, ranges)
    BY <1>1, <2>1, MergeCovers DEF Covering
  <2> QED
    BY <1>1, <2>2, CoveringCovers DEF Planned
<1>4. CASE call.strategy = "ChooseAutomatically"
  <2>1. plan = ChooseRangePlan(ranges, call.delay)
    BY <1>4 DEF PlanOf
  <2>2. Covering(plan, ranges)
    BY <1>1, <2>1, ChosenCovers
  <2> QED
    BY <1>1, <2>2, CoveringCovers DEF Planned
<1>5. CASE call.strategy = "Partial"
  <2>1. plan = ChooseBoundedRangePlan(ranges, <<>>, call.delay, SharedReads, call.byteBudget, 0)
    BY <1>5 DEF PlanOf
  <2>2. plan # NoPlan => Covering(plan, ranges)
    BY <1>1, <2>1, BoundedCovers
  <2> QED
    BY <1>1, <2>2, CoveringCovers DEF Planned
<1>6. CASE call.strategy = "UseStoreImplementation"
  BY <1>6 DEF Planned
<1> QED
  BY <1>1, <1>2, <1>3, <1>4, <1>5, <1>6 DEF Strategies

(* ---- the requests of a plan --------------------------------------------- *)

\* A call starts with a plan that covers what it has to return.
LEMMA BeginRequestOK ==
    ASSUME SampleInv, LeakInv, RequestInv, NEW c \in Plans, Begin(c)
    PROVE  RequestInv'
<1> DEFINE plan == PlanOf(input[c])
           wanted == IF input[c].strategy = "Partial" THEN plan ELSE input[c].ranges
           to == IF input[c].strategy = "UseStoreImplementation" THEN "delegated" ELSE "reading"
<1>1. /\ phase[c] = "idle" /\ plan # NoPlan /\ phase' = [phase EXCEPT ![c] = to]
      /\ requested' = [requested EXCEPT ![c] = wanted] /\ physical' = [physical EXCEPT ![c] = plan]
      /\ UNCHANGED <<input, started, refused, completed, budget, results>>
  BY DEF Begin
<1>2. Planned(input[c]) /\ WellFormed(input[c])
  BY WorkloadsAssumption, PlannersCover DEF RequestInv
<1>3. /\ plan \in Seq(Nat \X Nat) /\ wanted \in Seq(Nat \X Nat)
      /\ to = "reading" => Covers(plan, wanted) /\ \A i \in DOMAIN wanted : wanted[i][1] <= wanted[i][2]
  <2>1. CASE input[c].strategy = "UseStoreImplementation"
    <3>1. plan = <<>> /\ wanted = input[c].ranges /\ to = "delegated"
      BY <2>1 DEF PlanOf
    <3>2. input[c].ranges \in Seq(Nat \X Nat)
      BY <1>2 DEF WellFormed
    <3> HIDE DEF plan, wanted, to
    <3> QED
      BY <3>1, <3>2
  <2>2. CASE input[c].strategy # "UseStoreImplementation"
    <3>1. /\ Covers(plan, input[c].ranges) /\ input[c].ranges \in Seq(Nat \X Nat)
          /\ \A i \in DOMAIN input[c].ranges : input[c].ranges[i][1] <= input[c].ranges[i][2]
      BY <1>1, <1>2, <2>2 DEF Planned, WellFormed
    <3>2. wanted = plan \/ wanted = input[c].ranges
      OBVIOUS
    <3> HIDE DEF plan, wanted, to
    <3>3. Covers(plan, plan) /\ plan \in Seq(Nat \X Nat) /\ \A i \in DOMAIN plan : plan[i][1] <= plan[i][2]
      <4>1. Covers(plan, plan)
        BY <3>1, PlanCoversItself
      <4> QED
        BY <4>1 DEF Covers
    <3> QED
      BY <3>1, <3>2, <3>3
  <2> QED
    BY <2>1, <2>2
<1>4. /\ phase \in [Plans -> {"idle", "reading", "delegated", "returning", "done", "failed", "dropped"}]
      /\ started \in [Plans -> Nat] /\ RequestOK(c)
      /\ requested \in [Plans -> Seq(Nat \X Nat)] /\ physical \in [Plans -> Seq(Nat \X Nat)]
  BY DEF SampleInv, RequestInv
<1>5. to \in {"delegated", "reading"}
  OBVIOUS
<1> HIDE DEF plan, wanted, to
<1>6. /\ phase'[c] = to /\ requested'[c] = wanted /\ physical'[c] = plan
      /\ requested' \in [Plans -> Seq(Nat \X Nat)] /\ physical' \in [Plans -> Seq(Nat \X Nat)]
      /\ \A d \in Plans : d # c => /\ phase'[d] = phase[d] /\ requested'[d] = requested[d]
                                   /\ physical'[d] = physical[d]
  BY <1>1, <1>3, <1>4
<1>7. RequestOK(c)'
  <2>1. started'[c] = 0 /\ Len(plan) \in Nat
    BY <1>1, <1>3, <1>4 DEF RequestOK, UnderWay
  <2>2. started[c] = 0 /\ UnderWay(c)'
    BY <1>1, <1>5, <1>6, <2>1 DEF UnderWay
  <2> QED
    BY <1>1, <1>3, <1>4, <1>6, <2>1, <2>2 DEF RequestOK
<1>8. ASSUME NEW d \in Plans, d # c PROVE RequestOK(d)'
  <2>1. \A k \in 1..Len(budget') : budget'[k][1] = d =>
           \E m \in 1..Len(budget) : budget'[k] = budget[m]
    BY <1>1
  <2>2. RequestOK(d)
    BY DEF RequestInv
  <2> QED
    BY <1>1, <1>6, <1>8, <2>1, <2>2, RequestFrame DEF UnderWay
<1> QED
  BY <1>1, <1>6, <1>7, <1>8 DEF RequestInv

\* Steps that only move a plan on.
LEMMA PhaseRequestOK ==
    ASSUME SampleInv, LeakInv, RequestInv, NEW c \in Plans,
           BeginEmpty(c) \/ FinishPlan(c) \/ AnswerDelegated(c)
    PROVE  RequestInv'
<1>1. /\ UNCHANGED <<input, requested, physical, started, refused, completed, budget>>
      /\ DOMAIN results' = DOMAIN results
      /\ \/ phase[c] = "idle" /\ phase' = [phase EXCEPT ![c] = "done"]
         \/ phase[c] \in {"reading", "delegated"} /\ phase' = [phase EXCEPT ![c] = "returning"]
  BY DEF BeginEmpty, FinishPlan, AnswerDelegated
<1>2. phase \in [Plans -> {"idle", "reading", "delegated", "returning", "done", "failed", "dropped"}]
  BY DEF SampleInv
<1>3. ASSUME NEW d \in Plans PROVE RequestOK(d)'
  <2>1. RequestOK(d)
    BY DEF RequestInv
  <2>2. (UnderWay(d)' <=> UnderWay(d)) /\ (phase'[d] = "reading" => phase[d] = "reading")
    BY <1>1, <1>2 DEF UnderWay
  <2>3. \A k \in 1..Len(budget') : budget'[k][1] = d =>
           \E m \in 1..Len(budget) : budget'[k] = budget[m]
    BY <1>1
  <2> QED
    BY <1>1, <2>1, <2>2, <2>3, RequestFrame
<1> QED
  BY <1>1, <1>3 DEF RequestInv

\* No step lets a request complete twice, or out of its plan.
LEMMA RequestStep ==
    ASSUME SampleInv, LeakInv, RequestInv, [RangeReadsNext]_rangeVars
    PROVE  RequestInv'
<1>1. ASSUME NEW c \in Plans, Begin(c) \/ BeginEmpty(c) \/ PlanStep(c) \/ PlanFault(c) PROVE RequestInv'
  BY <1>1, BeginRequestOK, PhaseRequestOK, StartRequestOK, QueueRequestOK, CompleteRequestOK,
     EndCallRequestOK
     DEF PlanStep, PlanFault, ReturnPlan, FailRequest, FailDelegated, DropPlan
<1>2. ASSUME UNCHANGED planVars PROVE RequestInv'
  <2>1. ASSUME NEW d \in Plans PROVE RequestOK(d)'
    BY <1>2 DEF planVars, RequestInv, RequestOK, UnderWay
  <2> QED
    BY <1>2, <2>1 DEF planVars, RequestInv
<1>3. CASE UNCHANGED rangeVars \/ \E g \in Gets : BeginGet(g) \/ GetHeaders(g) \/ EndGet(g)
  BY <1>2, <1>3 DEF rangeVars, BeginGet, GetHeaders, EndGet
<1> QED
  BY <1>1, <1>3 DEF RangeReadsNext, AllReadsOver

\* What a plan whose requests have all completed returns.
LEMMA PlanResultsRight ==
    ASSUME RequestInv, SampleInv, NEW c \in Plans, FinishPlan(c)
    PROVE  PlanResults(c) = [i \in DOMAIN requested[c] |-> BytesOf(requested[c][i])]
<1> DEFINE n == Len(physical[c])
           done == completed[c]
           plan == physical[c]
<1>1. /\ RequestOK(c) /\ phase[c] = "reading" /\ Len(done) = n /\ n \in Nat /\ done \in Seq(Nat)
      /\ started[c] \in Nat /\ requested[c] \in Seq(Nat \X Nat) /\ plan \in Seq(Nat \X Nat)
  BY DEF RequestInv, SampleInv, FinishPlan
<1>2. /\ \A k \in 1..n : done[k] \in 1..n
      /\ \A k \in 1..n : \A j \in 1..(k - 1) : done[j] # done[k]
  <2>1. /\ \A k \in 1..Len(done) : done[k] \in 1..started[c]
        /\ \A k \in 1..Len(done) : \A j \in 1..(k - 1) : done[j] # done[k]
        /\ started[c] <= n
    BY <1>1 DEF RequestOK
  <2> HIDE DEF n, done, plan
  <2>2. 1..started[c] \subseteq 1..n
    BY <1>1, <2>1
  <2> QED
    BY <1>1, <2>1, <2>2
<1>3. /\ Covers(plan, requested[c])
      /\ \A i \in DOMAIN requested[c] : requested[c][i][1] <= requested[c][i][2]
  BY <1>1 DEF RequestOK
<1>4. PlanResults(c) = SliceResults(requested[c], plan,
                         [k \in DOMAIN Sorted(done) |-> BytesOf(plan[Sorted(done)[k]])])
  BY DEF PlanResults
<1>5. DOMAIN plan = 1..n
  BY <1>1
<1> HIDE DEF n, done, plan
<1>6. Sorted(done) = [k \in 1..n |-> k]
  BY <1>1, <1>2, AllSorted
<1>7. [k \in DOMAIN Sorted(done) |-> BytesOf(plan[Sorted(done)[k]])] = [k \in DOMAIN plan |-> BytesOf(plan[k])]
  BY <1>5, <1>6
<1>8. SliceResults(requested[c], plan, [k \in DOMAIN plan |-> BytesOf(plan[k])])
        = [i \in DOMAIN requested[c] |-> BytesOf(requested[c][i])]
  BY <1>1, <1>3, SlicesAreRight
<1> QED
  BY <1>4, <1>7, <1>8

\* Only the two steps that answer a call write its results.
LEMMA BytesStep ==
    ASSUME SampleInv, RequestInv, RequestedBytesReturned, [RangeReadsNext]_rangeVars
    PROVE  RequestedBytesReturned'
<1>1. /\ phase \in [Plans -> {"idle", "reading", "delegated", "returning", "done", "failed", "dropped"}]
      /\ DOMAIN results = Plans /\ requested \in [Plans -> Seq(Nat \X Nat)]
  BY DEF SampleInv, RequestInv
<1> DEFINE Right(c) == phase[c] = "returning" =>
                         results[c] = [i \in DOMAIN requested[c] |-> BytesOf(requested[c][i])]
<1>2. \A c \in Plans : Right(c)
  BY DEF RequestedBytesReturned
<1>3. ASSUME NEW c \in Plans, Begin(c) \/ BeginEmpty(c) \/ PlanStep(c) \/ PlanFault(c),
             NEW d \in Plans
      PROVE  Right(d)'
  <2>1. CASE FinishPlan(c)
    <3>1. /\ results' = [results EXCEPT ![c] = PlanResults(c)] /\ UNCHANGED requested
          /\ phase' = [phase EXCEPT ![c] = "returning"]
      BY <2>1 DEF FinishPlan
    <3>2. PlanResults(c) = [i \in DOMAIN requested[c] |-> BytesOf(requested[c][i])]
      BY <2>1, PlanResultsRight
    <3> QED
      BY <1>1, <1>2, <3>1, <3>2
  <2>2. CASE AnswerDelegated(c)
    BY <1>1, <1>2, <2>2 DEF AnswerDelegated
  <2>3. ASSUME NEW how \in {"done", "failed", "dropped"}, EndCall(c, how) PROVE Right(d)'
    BY <1>1, <1>2, <2>3 DEF EndCall
  <2>4. CASE Begin(c)
    <3>1. /\ phase'[c] # "returning" /\ UNCHANGED results
          /\ d # c => phase'[d] = phase[d] /\ requested'[d] = requested[d]
      BY <1>1, <2>4 DEF Begin
    <3> QED
      BY <1>2, <3>1
  <2>5. CASE BeginEmpty(c)
    BY <1>1, <1>2, <2>5 DEF BeginEmpty
  <2>6. CASE StartRequest(c) \/ \E i \in DOMAIN physical[c] : QueueRequest(c, i) \/ CompleteRequest(c, i)
    BY <1>2, <2>6 DEF StartRequest, QueueRequest, CompleteRequest
  <2> QED
    BY <1>3, <2>1, <2>2, <2>3, <2>4, <2>5, <2>6
       DEF PlanStep, PlanFault, ReturnPlan, FailRequest, FailDelegated, DropPlan
<1>4. ASSUME UNCHANGED planVars, NEW d \in Plans PROVE Right(d)'
  BY <1>2, <1>4 DEF planVars
<1>5. CASE UNCHANGED rangeVars \/ \E g \in Gets : BeginGet(g) \/ GetHeaders(g) \/ EndGet(g)
  <2>1. UNCHANGED planVars
    BY <1>5 DEF rangeVars, BeginGet, GetHeaders, EndGet
  <2> QED
    BY <1>4, <2>1 DEF RequestedBytesReturned
<1>6. CASE \E c \in Plans : Begin(c) \/ BeginEmpty(c) \/ PlanStep(c) \/ PlanFault(c)
  BY <1>3, <1>6 DEF RequestedBytesReturned
<1> QED
  BY <1>5, <1>6 DEF RangeReadsNext, AllReadsOver

\* A plan that returns has exactly the requested bytes.  merge_ranges and the two
\* choosers cover any list of ranges with what they read (PlannersCover); in
\* whichever order the requests then complete, wait and are retried for a permit,
\* no buffer is lost, doubled or taken for another.
THEOREM BytesAreReturned == RangeReadsSpec => []RequestedBytesReturned
<1>1. RangeReadsInit => RequestInv /\ RequestedBytesReturned
  <2> SUFFICES ASSUME RangeReadsInit PROVE RequestInv /\ RequestedBytesReturned
    OBVIOUS
  <2>1. ASSUME NEW c \in Plans PROVE RequestOK(c) /\ phase[c] = "idle"
    <3>1. /\ started[c] = 0 /\ physical[c] = <<>> /\ refused[c] = {} /\ completed[c] = <<>>
          /\ phase[c] = "idle" /\ budget = <<>>
      BY DEF RangeReadsInit
    <3>2. Len(physical[c]) = 0 /\ Len(completed[c]) = 0 /\ Len(budget) = 0
      BY <3>1
    <3> QED
      BY <3>1, <3>2 DEF RequestOK
  <2>2. RequestInv
    BY <2>1 DEF RangeReadsInit, RequestInv
  <2> QED
    BY <2>1, <2>2 DEF RequestedBytesReturned
<1>2. SampleInv /\ LeakInv /\ RequestInv /\ RequestedBytesReturned /\ [RangeReadsNext]_rangeVars
        => RequestInv' /\ RequestedBytesReturned'
  BY RequestStep, BytesStep
<1>3. SampleInv /\ LeakInv /\ [RangeReadsNext]_rangeVars => LeakInv'
  BY NextLeakInv
<1> QED
  BY <1>1, <1>2, <1>3, InitSampleInv, NextSampleInv, InitLeakInv, PTL DEF RangeReadsSpec

(* ---- opening files ------------------------------------------------------ *)

\* Who is first in a queue stays first when another task leaves or joins it.
LEMMA LeaveQueue ==
    ASSUME NEW queue \in [FilesOpened -> Seq(Tasks)], NEW t \in Tasks
    PROVE  /\ Leave(queue, t) \in [FilesOpened -> Seq(Tasks)]
           /\ \A u \in Tasks : u # t /\ First(queue, u) => First(Leave(queue, t), u)
<1>1. \A f \in FilesOpened : Without(queue[f], {t}) \in Seq(Tasks)
  BY WithoutType
<1>2. ASSUME NEW u \in Tasks, u # t, First(queue, u)
      PROVE  First(Leave(queue, t), u)
  <2>1. FileOf[u] \in FilesOpened /\ queue[FileOf[u]] \in Seq(Tasks)
    BY DEF FilesOpened
  <2>2. Leave(queue, t)[FileOf[u]] = Without(queue[FileOf[u]], {t})
    BY <2>1 DEF Leave
  <2>3. queue[FileOf[u]] # <<>> /\ Head(queue[FileOf[u]]) = u
    BY <1>2 DEF First
  <2>4. /\ Without(queue[FileOf[u]], {t}) # <<>>
        /\ Head(Without(queue[FileOf[u]], {t})) = u
    BY <1>2, <2>1, <2>3, HeadStays
  <2> QED
    BY <2>2, <2>4 DEF First
<1> QED
  BY <1>1, <1>2 DEF Leave

LEMMA JoinQueue ==
    ASSUME NEW queue \in [FilesOpened -> Seq(Tasks)], NEW t \in Tasks
    PROVE  /\ Join(queue, t) \in [FilesOpened -> Seq(Tasks)]
           /\ \A u \in Tasks : First(queue, u) => First(Join(queue, t), u)
<1> DEFINE joined == Join(queue, t)
<1>1. \A u \in Tasks : FileOf[u] \in FilesOpened
  BY DEF FilesOpened
<1>2. joined \in [FilesOpened -> Seq(Tasks)]
  BY <1>1 DEF Join
<1>3. ASSUME NEW u \in Tasks, First(queue, u) PROVE First(joined, u)
  <2>1. queue[FileOf[u]] \in Seq(Tasks) /\ queue[FileOf[u]] # <<>> /\ Head(queue[FileOf[u]]) = u
    BY <1>1, <1>3 DEF First
  <2>2. joined[FileOf[u]] = queue[FileOf[u]] \/ joined[FileOf[u]] = Append(queue[FileOf[u]], t)
    BY <1>1 DEF Join
  <2> QED
    BY <2>1, <2>2 DEF First
<1> QED
  BY <1>2, <1>3

\* Two tasks of one file are not both first.
LEMMA OneFirst ==
    ASSUME NEW queue, NEW t, NEW u, FileOf[t] = FileOf[u], First(queue, t), First(queue, u)
    PROVE  t = u
BY DEF First

\* Ending a future keeps the types.
LEMMA EndTaskType ==
    ASSUME OpenTypeOK, NEW t \in Tasks, NEW how \in Ended, EndTask(t, how)
    PROVE  /\ step' \in [Tasks -> Steps]
           /\ cellQueue' \in [FilesOpened -> Seq(Tasks)]
           /\ rowsQueue' \in [FilesOpened -> Seq(Tasks)]
           /\ rows' \in [Tasks -> Tasks \cup {None}]
BY LeaveQueue DEF OpenTypeOK, EndTask, Go, Steps

LEMMA TakeRowsType ==
    ASSUME OpenTypeOK, NEW t \in Tasks, NEW load \in Tasks \cup {None}, TakeRows(t, load)
    PROVE  /\ step' \in [Tasks -> Steps]
           /\ rowsQueue' \in [FilesOpened -> Seq(Tasks)]
           /\ rows' \in [Tasks -> Tasks \cup {None}]
<1>1. rowsQueue' \in [FilesOpened -> Seq(Tasks)]
  BY LeaveQueue DEF TakeRows, OpenTypeOK
<1>2. step' \in [Tasks -> Steps]
  BY DEF TakeRows, OpenTypeOK, Go, Steps, Ended
<1>3. rows' \in [Tasks -> Tasks \cup {None}]
  BY DEF TakeRows, OpenTypeOK
<1> QED
  BY <1>1, <1>2, <1>3

LEMMA OpenTypes ==
    ASSUME OpenTypeOK, [OpenNext]_openVars
    PROVE  OpenTypeOK'
<1> USE FileOpeningAssumption
<1>1. \A t \in Tasks : FileOf[t] \in FilesOpened
  BY DEF FilesOpened
<1>2. ASSUME NEW t \in Tasks, OpenStep(t) \/ FailOpen(t) \/ CancelTask(t) \/ DropTask(t)
      PROVE  OpenTypeOK'
  <2>1. CASE BeginOpen(t)
    <3>1. CASE SharedCache
      <4>1. cellQueue' = Join(cellQueue, t)
        BY <2>1, <3>1 DEF BeginOpen
      <4>2. cellQueue \in [FilesOpened -> Seq(Tasks)]
        BY DEF OpenTypeOK
      <4>3. cellQueue' \in [FilesOpened -> Seq(Tasks)]
        BY <4>1, <4>2, JoinQueue
      <4> QED
        BY <2>1, <4>3 DEF BeginOpen, Go, OpenTypeOK, Steps
    <3>2. CASE ~SharedCache
      BY <2>1, <3>2 DEF BeginOpen, Go, OpenTypeOK, Steps
    <3> QED
      BY <3>1, <3>2
  <2>2. CASE BeginLoad(t)
    BY <1>1, <2>2 DEF BeginLoad, Go, OpenTypeOK, Steps
  <2>3. CASE FinishLoad(t)
    BY <2>3, LeaveQueue DEF FinishLoad, Go, OpenTypeOK, Steps
  <2>4. CASE UseCachedMetadata(t)
    BY <2>4, LeaveQueue DEF UseCachedMetadata, Go, OpenTypeOK, Steps
  <2>5. CASE FailOpen(t)
    BY <2>5, EndTaskType DEF FailOpen, OpenTypeOK, Ended
  <2>6. CASE ObserveCancellation(t)
    BY <2>6, EndTaskType DEF ObserveCancellation, OpenTypeOK, Ended
  <2>7. CASE BeginRows(t)
    <3>1. rowsQueue' \in [FilesOpened -> Seq(Tasks)]
      <4>1. rowsQueue \in [FilesOpened -> Seq(Tasks)]
        BY DEF OpenTypeOK
      <4>2. rowsQueue' = rowsQueue \/ rowsQueue' = Join(rowsQueue, t)
        BY <2>7 DEF BeginRows
      <4> QED
        BY <4>1, <4>2, JoinQueue
    <3> QED
      BY <2>7, <3>1 DEF BeginRows, Go, OpenTypeOK, Steps
  <2>8. CASE UseCachedRows(t)
    <3>1. cachedRows[FileOf[t]] \in Tasks \cup {None}
      BY <1>1 DEF OpenTypeOK
    <3> QED
      BY <2>8, <3>1, TakeRowsType DEF UseCachedRows, TakeRows, OpenTypeOK
  <2>9. CASE SpawnLoad(t)
    BY <2>9 DEF SpawnLoad, Go, OpenTypeOK, Steps
  <2>10. CASE ThreadEnds(t)
    BY <2>10 DEF ThreadEnds, OpenTypeOK
  <2>11. CASE ReceiveRows(t)
    <3>1. cachedRows' \in [FilesOpened -> Tasks \cup {None}]
      BY <1>1, <2>11 DEF ReceiveRows, OpenTypeOK
    <3>2. TakeRows(t, t) /\ thread' = [thread EXCEPT ![t] = "none"]
      BY <2>11 DEF ReceiveRows
    <3>3. thread' \in [Tasks -> {"none", "running", "loaded", "failed"}]
      BY <3>2 DEF OpenTypeOK
    <3> QED
      BY <3>1, <3>2, <3>3, TakeRowsType DEF TakeRows, OpenTypeOK
  <2>12. CASE RowsFailed(t)
    BY <2>12, EndTaskType DEF RowsFailed, OpenTypeOK, Ended
  <2>13. CASE CloseFile(t)
    BY <2>13, EndTaskType DEF CloseFile, OpenTypeOK, Ended
  <2>14. CASE CancelTask(t)
    BY <2>14 DEF CancelTask, OpenTypeOK
  <2>15. CASE DropTask(t)
    BY <2>15, EndTaskType DEF DropTask, OpenTypeOK, Ended
  <2> QED
    BY <1>2, <2>1, <2>2, <2>3, <2>4, <2>5, <2>6, <2>7, <2>8, <2>9, <2>10, <2>11, <2>12,
       <2>13, <2>14, <2>15 DEF OpenStep
<1>3. CASE UNCHANGED openVars
  BY <1>3 DEF openVars, OpenTypeOK
<1> QED
  BY <1>2, <1>3 DEF OpenNext, AllEnded

\* A task that does nothing with a load or with rows but give up its own keeps
\* RowsInv: nobody is woken into a second load, nobody obtains rows.
LEMMA RowsKept ==
    ASSUME OpenTypeOK, RowsInv, NEW t \in Tasks, UNCHANGED cachedRows,
           rows' = rows \/ rows' = [rows EXCEPT ![t] = None],
           \A u \in Tasks : u # t => step'[u] = step[u],
           step'[t] = "loadRows" => step[t] = "loadRows" /\ UNCHANGED rowsQueue,
           \/ UNCHANGED rowsQueue
           \/ rowsQueue' = Leave(rowsQueue, t)
           \/ rowsQueue' = Join(rowsQueue, t)
    PROVE  RowsInv'
<1> USE FileOpeningAssumption
<1>1. rowsQueue \in [FilesOpened -> Seq(Tasks)]
  BY DEF OpenTypeOK
<1>2. \A u \in Tasks : u # t /\ First(rowsQueue, u) => First(rowsQueue', u)
  <2>1. CASE rowsQueue' = Leave(rowsQueue, t)
    BY <1>1, <2>1, LeaveQueue
  <2>2. CASE rowsQueue' = Join(rowsQueue, t)
    BY <1>1, <2>2, JoinQueue
  <2> QED
    BY <2>1, <2>2
<1>3. \A u \in Tasks : rows'[u] = None \/ rows'[u] = rows[u]
  BY DEF OpenTypeOK
<1>4. \A f : ~Upgrades(f) => ~(cachedRows'[f] # None /\ \E u \in Tasks : rows'[u] = cachedRows'[f])
  BY <1>3 DEF Upgrades
<1>5. ASSUME NEW u \in Tasks, step'[u] = "loadRows"
      PROVE  First(rowsQueue', u) /\ step[u] = "loadRows"
  BY <1>2, <1>5 DEF RowsInv
<1>6. ASSUME NEW u \in Tasks
      PROVE  /\ rows'[u] # None => rows'[u] = cachedRows'[FileOf[u]]
             /\ cachedRows'[FileOf[u]] # None => FileOf[cachedRows'[FileOf[u]]] = FileOf[u]
  BY <1>3 DEF RowsInv
<1> QED
  BY <1>4, <1>5, <1>6 DEF RowsInv, First, Upgrades

\* A task that obtains the rows of its file holds the lock, so that nobody of
\* its file is loading.
LEMMA TakeKeepsRows ==
    ASSUME OpenTypeOK, RowsInv, NEW t \in Tasks, NEW load \in Tasks,
           First(rowsQueue, t), TakeRows(t, load),
           FileOf[load] = FileOf[t],
           cachedRows' = [cachedRows EXCEPT ![FileOf[t]] = load],
           cachedRows[FileOf[t]] = load \/ ~Upgrades(FileOf[t])
    PROVE  RowsInv'
<1> USE FileOpeningAssumption
<1>1. /\ rowsQueue \in [FilesOpened -> Seq(Tasks)]
      /\ \A u \in Tasks : FileOf[u] \in FilesOpened
      /\ cachedRows \in [FilesOpened -> Tasks \cup {None}] /\ rows \in [Tasks -> Tasks \cup {None}]
      /\ step \in [Tasks -> Steps]
  BY DEF OpenTypeOK, FilesOpened
<1>2. /\ cachedRows'[FileOf[t]] = load
      /\ \A u \in Tasks : FileOf[u] # FileOf[t] => cachedRows'[FileOf[u]] = cachedRows[FileOf[u]]
  BY <1>1
<1>3. /\ rows'[t] \in {rows[t], load}
      /\ \A u \in Tasks : u # t => rows'[u] = rows[u] /\ step'[u] = step[u]
      /\ step'[t] \in {"cancelled", "open"}
  BY <1>1 DEF TakeRows, Go
<1>4. \A u \in Tasks : FileOf[u] = FileOf[t] => rows[u] \in {None, load}
  BY <1>1 DEF RowsInv, Upgrades
<1>5. ASSUME NEW u \in Tasks
      PROVE  /\ rows'[u] # None => rows'[u] = cachedRows'[FileOf[u]]
             /\ cachedRows'[FileOf[u]] # None => FileOf[cachedRows'[FileOf[u]]] = FileOf[u]
  <2>1. CASE FileOf[u] = FileOf[t]
    BY <1>2, <1>3, <1>4, <2>1
  <2>2. CASE FileOf[u] # FileOf[t]
    BY <1>2, <1>3, <2>2 DEF RowsInv
  <2> QED
    BY <2>1, <2>2
<1>6. ASSUME NEW u \in Tasks, step'[u] = "loadRows"
      PROVE  /\ First(rowsQueue', u)
             /\ ~(cachedRows'[FileOf[u]] # None /\ \E v \in Tasks : rows'[v] = cachedRows'[FileOf[u]])
  <2>1. u # t /\ step[u] = "loadRows" /\ First(rowsQueue, u)
    BY <1>3, <1>6 DEF RowsInv
  <2>2. FileOf[u] # FileOf[t]
    BY <2>1, OneFirst
  <2>3. First(rowsQueue', u)
    BY <1>1, <2>1, LeaveQueue DEF TakeRows
  <2>4. cachedRows'[FileOf[u]] = cachedRows[FileOf[u]]
    BY <1>2, <2>2
  <2>5. cachedRows[FileOf[u]] # None => FileOf[cachedRows[FileOf[u]]] = FileOf[u]
    BY DEF RowsInv
  <2>6. cachedRows[FileOf[u]] # None => \A v \in Tasks : rows[v] # cachedRows[FileOf[u]]
    BY <2>1 DEF RowsInv, Upgrades
  <2>7. cachedRows[FileOf[u]] # None => load # cachedRows[FileOf[u]]
    BY <2>2, <2>5
  <2> QED
    BY <1>3, <2>3, <2>4, <2>6, <2>7
<1> QED
  BY <1>5, <1>6 DEF RowsInv, First, Upgrades

LEMMA NextRowsInv ==
    ASSUME OpenTypeOK, RowsInv, [OpenNext]_openVars
    PROVE  RowsInv'
<1> USE FileOpeningAssumption
<1>1. /\ step \in [Tasks -> Steps]
      /\ \A t \in Tasks : cachedRows[FileOf[t]] \in Tasks \cup {None}
      /\ cachedRows \in [FilesOpened -> Tasks \cup {None}]
  BY DEF OpenTypeOK, FilesOpened
<1>2. ASSUME NEW t \in Tasks, OpenStep(t) \/ FailOpen(t) \/ CancelTask(t) \/ DropTask(t)
      PROVE  RowsInv'
  <2>1. CASE BeginOpen(t) \/ BeginLoad(t) \/ FinishLoad(t) \/ UseCachedMetadata(t)
    <3>1. /\ UNCHANGED <<rowsQueue, rows, cachedRows>>
          /\ \E s \in {"metadata", "loadMetadata", "setup"} : Go(t, s)
      BY <2>1 DEF BeginOpen, BeginLoad, FinishLoad, UseCachedMetadata
    <3> QED
      BY <1>1, <3>1, RowsKept DEF Go
  <2>2. CASE \/ FailOpen(t) \/ ObserveCancellation(t) \/ RowsFailed(t) \/ CloseFile(t)
             \/ DropTask(t)
    <3>1. UNCHANGED cachedRows /\ \E how \in Ended : EndTask(t, how)
      BY <2>2 DEF FailOpen, ObserveCancellation, RowsFailed, CloseFile, DropTask, Ended
    <3> QED
      BY <1>1, <3>1, RowsKept DEF EndTask, Go, Ended
  <2>3. CASE BeginRows(t)
    BY <1>1, <2>3, RowsKept DEF BeginRows, Go
  <2>4. CASE UseCachedRows(t)
    <3>1. First(rowsQueue, t) /\ Upgrades(FileOf[t]) /\ TakeRows(t, cachedRows[FileOf[t]])
          /\ UNCHANGED cachedRows
      BY <2>4 DEF UseCachedRows
    <3>2. cachedRows[FileOf[t]] \in Tasks /\ FileOf[cachedRows[FileOf[t]]] = FileOf[t]
      BY <1>1, <3>1 DEF Upgrades, RowsInv
    <3>3. cachedRows' = [cachedRows EXCEPT ![FileOf[t]] = cachedRows[FileOf[t]]]
      BY <1>1, <3>1
    <3> QED
      BY <3>1, <3>2, <3>3, TakeKeepsRows
  <2>5. CASE SpawnLoad(t)
    <3>1. /\ First(rowsQueue, t) /\ ~Upgrades(FileOf[t])
          /\ UNCHANGED <<rowsQueue, rows, cachedRows>>
          /\ \A u \in Tasks : u # t => step'[u] = step[u]
      BY <1>1, <2>5 DEF SpawnLoad, Go
    <3> QED
      BY <3>1 DEF RowsInv, First, Upgrades
  <2>6. CASE ThreadEnds(t) \/ CancelTask(t)
    BY <1>1, <2>6, RowsKept DEF ThreadEnds, CancelTask
  <2>7. CASE ReceiveRows(t)
    BY <2>7, TakeKeepsRows DEF ReceiveRows, RowsInv
  <2> QED
    BY <1>2, <2>1, <2>2, <2>3, <2>4, <2>5, <2>6, <2>7 DEF OpenStep
<1>3. CASE UNCHANGED openVars
  BY <1>3 DEF openVars, RowsInv, First, Upgrades
<1> QED
  BY <1>2, <1>3 DEF OpenNext, AllEnded

\* The range tasks that read one file share one copy of its deleted rows, for
\* any number of tasks and files, whichever loads failed or were abandoned.
THEOREM RowsAreShared == OpenSpec => []OneCopyOfRows
<1>1. OpenInit => OpenTypeOK /\ RowsInv
  <2> SUFFICES ASSUME OpenInit PROVE OpenTypeOK /\ RowsInv
    OBVIOUS
  <2>1. \A t \in Tasks : FileOf[t] \in FilesOpened
    BY FileOpeningAssumption DEF FilesOpened
  <2>2. OpenTypeOK
    BY DEF OpenInit, OpenTypeOK, Steps
  <2> QED
    BY <2>1, <2>2 DEF OpenInit, RowsInv
<1>2. OpenTypeOK /\ RowsInv /\ [OpenNext]_openVars => OpenTypeOK' /\ RowsInv'
  BY OpenTypes, NextRowsInv
<1>3. RowsInv => OneCopyOfRows
  BY DEF RowsInv, OneCopyOfRows
<1> QED
  BY <1>1, <1>2, <1>3, PTL DEF OpenSpec

\* What keeps LoadInv: no new load, the cell as it was, and a task that stops
\* loading gave up.
LEMMA LoadsKept ==
    ASSUME OpenTypeOK, LoadInv, SharedCache, NEW t \in Tasks, UNCHANGED <<cell, loads>>,
           \A u \in Tasks : u # t => step'[u] = step[u],
           step[t] \notin {"failed", "cancelled", "dropped"},
           step'[t] = "loadMetadata" => step[t] = "loadMetadata" /\ UNCHANGED cellQueue,
           step[t] = "loadMetadata" => step'[t] \in {"loadMetadata", "failed", "cancelled", "dropped"},
           \/ UNCHANGED cellQueue
           \/ cellQueue' = Leave(cellQueue, t)
           \/ cellQueue' = Join(cellQueue, t)
    PROVE  LoadInv'
<1> USE FileOpeningAssumption
<1>1. /\ cellQueue \in [FilesOpened -> Seq(Tasks)]
      /\ cell \in [FilesOpened -> BOOLEAN] /\ loads \in [FilesOpened -> Nat]
  BY DEF OpenTypeOK
<1>2. \A u \in Tasks : u # t /\ First(cellQueue, u) => First(cellQueue', u)
  <2>1. CASE cellQueue' = Leave(cellQueue, t)
    BY <1>1, <2>1, LeaveQueue
  <2>2. CASE cellQueue' = Join(cellQueue, t)
    BY <1>1, <2>2, JoinQueue
  <2> QED
    BY <2>1, <2>2
<1>3. ASSUME NEW u \in Tasks, step'[u] = "loadMetadata"
      PROVE  First(cellQueue', u) /\ ~cell'[FileOf[u]]
  BY <1>2, <1>3 DEF LoadInv
<1>4. ASSUME NEW f \in FilesOpened
      PROVE  loads'[f] <= Cardinality(GaveUp(f)') + (IF cell'[f] \/ Loading(f)' THEN 1 ELSE 0)
  <2>1. /\ IsFiniteSet(GaveUp(f)) /\ IsFiniteSet(GaveUp(f)')
        /\ Cardinality(GaveUp(f)) \in Nat /\ Cardinality(GaveUp(f)') \in Nat
    BY FS_Subset, FS_CardinalityType DEF GaveUp
  <2>2. GaveUp(f) \subseteq GaveUp(f)'
    BY DEF GaveUp
  <2>3. Cardinality(GaveUp(f)) <= Cardinality(GaveUp(f)')
    BY <2>1, <2>2, FS_Subset
  <2>4. loads[f] <= Cardinality(GaveUp(f)) + (IF cell[f] \/ Loading(f) THEN 1 ELSE 0)
    BY DEF LoadInv
  <2>5. CASE Loading(f) => Loading(f)'
    BY <1>1, <2>1, <2>3, <2>4, <2>5
  <2>6. CASE Loading(f) /\ ~Loading(f)'
    <3>1. PICK u \in Tasks : FileOf[u] = f /\ step[u] = "loadMetadata"
      BY <2>6 DEF Loading
    <3>2. u = t /\ t \in GaveUp(f)' /\ t \notin GaveUp(f)
      BY <2>6, <3>1 DEF Loading, GaveUp
    <3>3. Cardinality(GaveUp(f)) # Cardinality(GaveUp(f)')
      BY <2>1, <2>2, <3>2, FS_Subset
    <3> QED
      BY <1>1, <2>1, <2>3, <2>4, <3>3
  <2> QED
    BY <2>5, <2>6
<1> QED
  BY <1>3, <1>4 DEF LoadInv, First

\* The turn to initialise the cell comes to one task, and only at an empty cell.
LEMMA BeginLoadKept ==
    ASSUME OpenTypeOK, LoadInv, SharedCache, NEW t \in Tasks, BeginLoad(t)
    PROVE  LoadInv'
<1> USE FileOpeningAssumption
<1>1. /\ step \in [Tasks -> Steps] /\ loads \in [FilesOpened -> Nat] /\ FileOf[t] \in FilesOpened
      /\ First(cellQueue, t) /\ ~cell[FileOf[t]] /\ UNCHANGED <<cellQueue, cell>>
      /\ step[t] = "metadata" /\ step' = [step EXCEPT ![t] = "loadMetadata"]
      /\ loads' = [loads EXCEPT ![FileOf[t]] = @ + 1]
  BY DEF BeginLoad, OpenTypeOK, Go, FilesOpened
<1>2. \A u \in Tasks : step'[u] = "loadMetadata" => First(cellQueue', u) /\ ~cell'[FileOf[u]]
  BY <1>1 DEF LoadInv
<1>3. ASSUME NEW f \in FilesOpened
      PROVE  loads'[f] <= Cardinality(GaveUp(f)') + (IF cell'[f] \/ Loading(f)' THEN 1 ELSE 0)
  <2>1. GaveUp(f)' = GaveUp(f)
    BY <1>1 DEF GaveUp
  <2>2. Cardinality(GaveUp(f)) \in Nat
    BY FS_Subset, FS_CardinalityType DEF GaveUp
  <2>3. loads[f] <= Cardinality(GaveUp(f)) + (IF cell[f] \/ Loading(f) THEN 1 ELSE 0)
    BY DEF LoadInv
  <2>4. Loading(f) => Loading(f)'
    BY <1>1 DEF Loading
  <2>5. CASE f = FileOf[t]
    <3>1. ~Loading(f)
      BY <1>1, <2>5, OneFirst DEF Loading, LoadInv
    <3>2. Loading(f)'
      BY <1>1, <2>5 DEF Loading
    <3> QED
      BY <1>1, <2>1, <2>2, <2>3, <2>5, <3>1, <3>2
  <2>6. CASE f # FileOf[t]
    BY <1>1, <2>1, <2>2, <2>3, <2>4, <2>6
  <2> QED
    BY <2>5, <2>6
<1> QED
  BY <1>2, <1>3 DEF LoadInv, First

\* The load that succeeds fills the cell, and no other was running.
LEMMA FinishLoadKept ==
    ASSUME OpenTypeOK, LoadInv, SharedCache, NEW t \in Tasks, FinishLoad(t)
    PROVE  LoadInv'
<1> USE FileOpeningAssumption
<1>1. /\ step \in [Tasks -> Steps] /\ loads \in [FilesOpened -> Nat] /\ FileOf[t] \in FilesOpened
      /\ cell \in [FilesOpened -> BOOLEAN] /\ cellQueue \in [FilesOpened -> Seq(Tasks)]
      /\ \A u \in Tasks : FileOf[u] \in FilesOpened
      /\ step[t] = "loadMetadata" /\ step' = [step EXCEPT ![t] = "setup"]
      /\ cell' = [cell EXCEPT ![FileOf[t]] = TRUE] /\ cellQueue' = Leave(cellQueue, t)
      /\ UNCHANGED loads
  BY DEF FinishLoad, OpenTypeOK, Go, FilesOpened
<1>2. ASSUME NEW u \in Tasks, step'[u] = "loadMetadata"
      PROVE  First(cellQueue', u) /\ ~cell'[FileOf[u]]
  <2>1. u # t /\ step[u] = "loadMetadata"
    BY <1>1, <1>2
  <2>2. First(cellQueue, u) /\ First(cellQueue, t) /\ ~cell[FileOf[u]]
    BY <1>1, <2>1 DEF LoadInv
  <2>3. FileOf[u] # FileOf[t]
    BY <2>1, <2>2, OneFirst
  <2> QED
    BY <1>1, <2>1, <2>2, <2>3, LeaveQueue
<1>3. ASSUME NEW f \in FilesOpened
      PROVE  loads'[f] <= Cardinality(GaveUp(f)') + (IF cell'[f] \/ Loading(f)' THEN 1 ELSE 0)
  <2>1. GaveUp(f)' = GaveUp(f)
    BY <1>1 DEF GaveUp
  <2>2. Cardinality(GaveUp(f)) \in Nat
    BY FS_Subset, FS_CardinalityType DEF GaveUp
  <2>3. loads[f] <= Cardinality(GaveUp(f)) + (IF cell[f] \/ Loading(f) THEN 1 ELSE 0)
    BY DEF LoadInv
  <2>4. cell[f] \/ Loading(f) => cell'[f] \/ Loading(f)'
    BY <1>1 DEF Loading
  <2> QED
    BY <1>1, <2>1, <2>2, <2>3, <2>4
<1> QED
  BY <1>2, <1>3 DEF LoadInv, First

LEMMA NextLoadInv ==
    ASSUME OpenTypeOK, LoadInv, [OpenNext]_openVars
    PROVE  LoadInv'
<1> SUFFICES ASSUME SharedCache PROVE LoadInv'
  BY DEF LoadInv
<1> USE FileOpeningAssumption
<1>1. step \in [Tasks -> Steps]
  BY DEF OpenTypeOK
<1>2. ASSUME NEW t \in Tasks, OpenStep(t) \/ FailOpen(t) \/ CancelTask(t) \/ DropTask(t)
      PROVE  LoadInv'
  <2>1. CASE BeginOpen(t)
    BY <1>1, <2>1, LoadsKept DEF BeginOpen, Go
  <2>2. CASE BeginLoad(t) \/ FinishLoad(t)
    BY <2>2, BeginLoadKept, FinishLoadKept
  <2>3. CASE UseCachedMetadata(t)
    BY <1>1, <2>3, LoadsKept DEF UseCachedMetadata, Go
  <2>4. CASE FailOpen(t) \/ ObserveCancellation(t) \/ RowsFailed(t) \/ DropTask(t)
    <3>1. /\ UNCHANGED <<cell, loads>> /\ step[t] \notin Ended
          /\ \E how \in {"failed", "cancelled", "dropped"} : EndTask(t, how)
      BY <2>4 DEF FailOpen, ObserveCancellation, RowsFailed, DropTask, Ended
    <3> QED
      BY <1>1, <3>1, LoadsKept DEF EndTask, Go, Ended
  <2>5. CASE CloseFile(t)
    BY <1>1, <2>5, LoadsKept DEF CloseFile, EndTask, Go
  <2>6. CASE BeginRows(t)
    BY <1>1, <2>6, LoadsKept DEF BeginRows, Go
  <2>7. CASE UseCachedRows(t)
    BY <1>1, <2>7, LoadsKept DEF UseCachedRows, TakeRows, Go
  <2>8. CASE SpawnLoad(t)
    BY <1>1, <2>8, LoadsKept DEF SpawnLoad, Go
  <2>9. CASE ReceiveRows(t)
    BY <1>1, <2>9, LoadsKept DEF ReceiveRows, TakeRows, Go
  <2>10. CASE ThreadEnds(t) \/ CancelTask(t)
    BY <2>10 DEF ThreadEnds, CancelTask, LoadInv, GaveUp, Loading, First
  <2> QED
    BY <1>2, <2>1, <2>2, <2>3, <2>4, <2>5, <2>6, <2>7, <2>8, <2>9, <2>10 DEF OpenStep
<1>3. CASE UNCHANGED openVars
  BY <1>3 DEF openVars, LoadInv, GaveUp, Loading, First
<1> QED
  BY <1>2, <1>3 DEF OpenNext, AllEnded

\* With a shared cache every metadata load of a file beyond one is accounted for
\* by a task that failed, was cancelled or was dropped.
THEOREM LoadsAreShared == OpenSpec => []RepeatedLoadsExplained
<1> USE FileOpeningAssumption
<1>1. OpenInit => OpenTypeOK /\ LoadInv
  <2> SUFFICES ASSUME OpenInit PROVE OpenTypeOK /\ LoadInv
    OBVIOUS
  <2>1. OpenTypeOK
    BY DEF OpenInit, OpenTypeOK, Steps
  <2>2. ASSUME NEW f \in FilesOpened PROVE Cardinality(GaveUp(f)) \in Nat
    BY FS_Subset, FS_CardinalityType DEF GaveUp
  <2> QED
    BY <2>1, <2>2 DEF OpenInit, LoadInv
<1>2. OpenTypeOK /\ LoadInv /\ [OpenNext]_openVars => OpenTypeOK' /\ LoadInv'
  BY OpenTypes, NextLoadInv
<1>3. OpenTypeOK /\ LoadInv => RepeatedLoadsExplained
  <2> SUFFICES ASSUME OpenTypeOK, LoadInv, SharedCache, NEW f \in FilesOpened
               PROVE  loads[f] <= 1 + Cardinality(GaveUp(f))
    BY DEF RepeatedLoadsExplained
  <2>1. Cardinality(GaveUp(f)) \in Nat
    BY FS_Subset, FS_CardinalityType DEF GaveUp
  <2>2. loads[f] <= Cardinality(GaveUp(f)) + (IF cell[f] \/ Loading(f) THEN 1 ELSE 0)
    BY DEF LoadInv
  <2> QED
    BY <2>1, <2>2 DEF OpenTypeOK
<1> QED
  BY <1>1, <1>2, <1>3, PTL DEF OpenSpec

=============================================================================
