------------------------ MODULE WarmupRecoveryProofs ------------------------
(***************************************************************************)
(* For any number of scans: one warmup attempt, no lost wakeup, and no     *)
(* scan that may run or await the attempt planned with a profile that the  *)
(* attempt replaces.                                                       *)
(***************************************************************************)
EXTENDS WarmupRecovery, TLAPS

\* Only calls that plan a scan reach recover_network_warmup.
LEMMA RecoveringScans == Recovering \subseteq Scans
  BY ScansAssumption DEF Recovering

LEMMA InitRecoveryInv == Init => RecoveryInv
<1> SUFFICES ASSUME Init PROVE RecoveryInv
  OBVIOUS
<1>1. pending \in BOOLEAN /\ running \in BOOLEAN
  BY Zenon DEF Init
<1>2. /\ profile \in Profiles /\ calls \in Nat
      /\ seen \in [Scans -> Nat] /\ used \in [Scans -> Profiles]
      /\ \A s \in Scans : seen[s] <= calls
  BY DEF Init, Profiles
<1>3. /\ pc \in [Scans -> {"idle"}]
      /\ \A s \in Scans : pc[s] = "idle"
  BY DEF Init
<1>4. TypeOK
  BY <1>1, <1>2, <1>3 DEF TypeOK
<1>5. \A s \in Scans : ~Busy(s) /\ ~Running(s)
  BY <1>3 DEF Busy, Running, Notifying
<1>6. OneAttempt
  BY <1>5 DEF OneAttempt, Init
<1>7. \A s \in Recovering : s \in Scans
  BY RecoveringScans
<1> QED
  BY <1>2, <1>3, <1>4, <1>6, <1>7 DEF RecoveryInv, NoStrandedScan, ProfileCurrent

\* A step that only moves s between two places outside the attempt.
LEMMA MoveInv ==
    ASSUME RecoveryInv, NEW s \in Scans, ~Busy(s),
           NEW to \in {"enter", "enabled", "waiting", "proceed", "planned", "dropped"},
           Goto(s, to), UNCHANGED <<pending, running, profile, calls>>,
           seen' = seen \/ seen' = [seen EXCEPT ![s] = calls],
           \/ used' = used /\ to # "planned"
           \/ pc[s] = "proceed" /\ used' = [used EXCEPT ![s] = profile],
           to = "waiting" => running,
           to \in {"proceed", "planned"} /\ s \in Recovering => ~running /\ ~pending
    PROVE  RecoveryInv'
<1> USE DEF RecoveryInv
<1>1. TypeOK' /\ \A t \in Scans : seen'[t] <= calls'
  BY DEF TypeOK, Goto
<1>2. /\ pc'[s] = to
      /\ \A t \in Scans : t # s => /\ pc'[t] = pc[t] /\ seen'[t] = seen[t]
                                   /\ used'[t] = used[t]
      /\ to = "planned" => used'[s] = profile
  BY DEF TypeOK, Goto
<1>3. \A t \in Scans : /\ Busy(t)' <=> Busy(t)
                       /\ Running(t)' <=> Running(t)
                       /\ Notifying(t)' <=> Notifying(t)
  BY <1>2 DEF Busy, Running, Notifying
<1>4. OneAttempt'
  BY <1>3 DEF OneAttempt
<1>5. NoStrandedScan'
  BY <1>2, <1>3 DEF NoStrandedScan
<1>6. ProfileCurrent'
  BY <1>2, RecoveringScans DEF ProfileCurrent
<1>7. \A t \in Recovering : pc'[t] \in {"proceed", "planned"} => ~running' /\ ~pending'
  BY <1>2, RecoveringScans
<1> QED
  BY <1>1, <1>4, <1>5, <1>6, <1>7

\* A step within the attempt: s holds it before and after.
LEMMA AttemptInv ==
    ASSUME RecoveryInv, NEW s \in Scans, Running(s),
           NEW to \in {"measured", "clearing", "abandon"}, Goto(s, to),
           UNCHANGED <<pending, running, calls, seen, used>>,
           profile' \in Profiles
    PROVE  RecoveryInv'
<1> USE DEF RecoveryInv
<1>1. TypeOK' /\ \A t \in Scans : seen'[t] <= calls'
  BY DEF TypeOK, Goto
<1>2. pc'[s] = to /\ \A t \in Scans : t # s => pc'[t] = pc[t]
  BY DEF TypeOK, Goto
<1>3. \A t \in Scans : /\ Busy(t)' <=> Busy(t)
                       /\ Running(t)' <=> Running(t)
                       /\ Notifying(t)' <=> Notifying(t)
  BY <1>2 DEF Busy, Running, Notifying
<1>4. OneAttempt'
  BY <1>3 DEF OneAttempt
<1>5. NoStrandedScan'
  BY <1>2, <1>3 DEF NoStrandedScan
<1>6. running
  BY DEF OneAttempt
<1>7. \A t \in Recovering : pc'[t] \notin {"proceed", "planned"}
  BY <1>2, <1>6, RecoveringScans
<1> QED
  BY <1>1, <1>4, <1>5, <1>7 DEF ProfileCurrent

\* InspectState takes the plan: the attempt begins.
LEMMA TakePlanInv ==
    ASSUME RecoveryInv, NEW s \in Scans, pc[s] = "enabled", ~running, pending,
           ~pending', running', Goto(s, "attempt"),
           pending' \in BOOLEAN, running' \in BOOLEAN,
           UNCHANGED <<profile, calls, seen, used>>
    PROVE  RecoveryInv'
<1> USE DEF RecoveryInv
<1>1. TypeOK' /\ \A t \in Scans : seen'[t] <= calls'
  BY DEF TypeOK, Goto
<1>2. pc'[s] = "attempt" /\ \A t \in Scans : t # s => pc'[t] = pc[t]
  BY DEF TypeOK, Goto
<1>3. \A t \in Scans : Busy(t)' => t = s
  BY <1>2 DEF OneAttempt, Busy, Running, Notifying
<1>4. Running(s)' /\ calls' = 0
  BY <1>2 DEF Running, OneAttempt
<1>5. OneAttempt'
  BY <1>3, <1>4 DEF OneAttempt
<1>6. NoStrandedScan'
  BY DEF NoStrandedScan
<1>7. \A t \in Recovering : pc'[t] \notin {"proceed", "planned"}
  BY <1>2, RecoveringScans
<1> QED
  BY <1>1, <1>5, <1>6, <1>7 DEF ProfileCurrent

LEMMA ClearRunningInv ==
    ASSUME RecoveryInv, NEW s \in Scans, ClearRunning(s)
    PROVE  RecoveryInv'
<1> USE DEF RecoveryInv
<1>1. running' = FALSE /\ UNCHANGED <<pending, profile, calls, seen, used>>
  BY DEF ClearRunning
<1>2. /\ pc'[s] \in {"notify", "abandoned"} /\ Running(s)
      /\ \A t \in Scans : t # s => pc'[t] = pc[t]
      /\ pc' \in [Scans -> {"idle", "enter", "enabled", "waiting", "attempt", "measured",
                            "clearing", "notify", "abandon", "abandoned", "proceed",
                            "planned", "dropped"}]
  BY DEF ClearRunning, Goto, TypeOK, Running
<1>3. TypeOK' /\ \A t \in Scans : seen'[t] <= calls'
  BY <1>1, <1>2 DEF TypeOK
<1>4. \A t \in Scans : (Busy(t)' => t = s) /\ ~Running(t)'
  BY <1>2 DEF OneAttempt, Busy, Running, Notifying
<1>5. Notifying(s)' /\ calls = 0 /\ ~pending
  BY <1>2 DEF Notifying, OneAttempt, Busy
<1>6. OneAttempt'
  BY <1>1, <1>4, <1>5 DEF OneAttempt
<1>7. NoStrandedScan'
  BY <1>5 DEF NoStrandedScan
<1>8. \A t \in Recovering : pc'[t] \in {"proceed", "planned"} => pc'[t] = pc[t]
  BY <1>2, RecoveringScans
<1> QED
  BY <1>1, <1>3, <1>5, <1>6, <1>7, <1>8 DEF ProfileCurrent

LEMMA NotifyWaitersInv ==
    ASSUME RecoveryInv, NEW s \in Scans, NotifyWaiters(s)
    PROVE  RecoveryInv'
<1> USE DEF RecoveryInv
<1>1. calls' = calls + 1 /\ UNCHANGED <<pending, running, profile, seen, used>>
  BY DEF NotifyWaiters
<1>2. /\ pc'[s] \in {"proceed", "dropped"} /\ Notifying(s)
      /\ \A t \in Scans : t # s => pc'[t] = pc[t]
      /\ pc' \in [Scans -> {"idle", "enter", "enabled", "waiting", "attempt", "measured",
                            "clearing", "notify", "abandon", "abandoned", "proceed",
                            "planned", "dropped"}]
  BY DEF NotifyWaiters, Goto, TypeOK, Notifying
<1>3. TypeOK' /\ \A t \in Scans : seen'[t] <= calls'
  BY <1>1, <1>2 DEF TypeOK
<1>4. calls = 0 /\ ~pending
  BY <1>2 DEF OneAttempt, Busy
<1>5. ~running
  <2>1. ASSUME NEW t \in Scans, Running(t) PROVE FALSE
    BY <1>2, <2>1 DEF OneAttempt, Busy, Running, Notifying
  <2> QED
    BY <2>1 DEF OneAttempt
<1>6. \A t \in Scans : ~Busy(t)' /\ ~Running(t)'
  BY <1>2 DEF OneAttempt, Busy, Running, Notifying
<1>7. OneAttempt'
  BY <1>1, <1>4, <1>5, <1>6 DEF OneAttempt
<1>8. NoStrandedScan'
  BY <1>1, <1>4, <1>3 DEF NoStrandedScan, TypeOK
<1>9. \A t \in Recovering : pc'[t] = "planned" => pc[t] = "planned"
  BY <1>2, RecoveringScans
<1> QED
  BY <1>1, <1>3, <1>4, <1>5, <1>7, <1>8, <1>9 DEF ProfileCurrent

\* Every step of a scan's planning.
LEMMA ScanStepInv ==
    ASSUME RecoveryInv, NEW s \in Scans,
           LookPending(s) \/ CallRecover(s) \/ PlanningStep(s) \/ DropPlanning(s)
    PROVE  RecoveryInv'
<1>1. CASE LookPending(s) \/ CallRecover(s)
  <2>1. ~Busy(s)
    BY <1>1 DEF LookPending, CallRecover, Busy, Running, Notifying
  <2>2. PICK to \in {"enter", "proceed"} :
          /\ Goto(s, to)
          /\ to = "proceed" /\ s \in Recovering => ~running /\ ~pending
    BY <1>1 DEF LookPending, CallRecover
  <2>3. UNCHANGED <<pending, running, profile, calls, seen, used>>
    BY <1>1 DEF LookPending, CallRecover
  <2> QED
    BY <2>1, <2>2, <2>3, MoveInv
<1>2. CASE EnableNotified(s)
  <2>1. /\ ~Busy(s) /\ Goto(s, "enabled") /\ seen' = [seen EXCEPT ![s] = calls]
        /\ UNCHANGED <<pending, running, profile, calls, used>>
    BY <1>2 DEF EnableNotified, Busy, Running, Notifying
  <2> QED
    BY <2>1, MoveInv
<1>3. CASE InspectState(s)
  <2>1. ~Busy(s) /\ pc[s] = "enabled" /\ UNCHANGED <<profile, calls, seen, used>>
    BY <1>3 DEF InspectState, Busy, Running, Notifying
  <2>2. pending \in BOOLEAN /\ running \in BOOLEAN
    BY DEF RecoveryInv, TypeOK
  <2>3. CASE running
    <3>1. Goto(s, "waiting") /\ UNCHANGED <<pending, running>>
      BY <1>3, <2>3 DEF InspectState
    <3> QED
      BY <2>1, <2>3, <3>1, MoveInv
  <2>4. CASE ~running /\ pending
    <3>1. Goto(s, "attempt") /\ pending' = FALSE /\ running' = pending
      BY <1>3, <2>4 DEF InspectState
    <3>2. running' /\ ~pending' /\ pending' \in BOOLEAN /\ running' \in BOOLEAN
      BY <2>2, <2>4, <3>1
    <3> QED
      BY <2>1, <2>4, <3>1, <3>2, TakePlanInv
  <2>5. CASE ~running /\ ~pending
    <3>1. Goto(s, "proceed") /\ pending' = FALSE /\ running' = pending
      BY <1>3, <2>5 DEF InspectState
    <3>2. UNCHANGED <<pending, running>>
      BY <2>2, <2>5, <3>1
    <3> QED
      BY <2>1, <2>5, <3>1, <3>2, MoveInv
  <2> QED
    BY <2>3, <2>4, <2>5
<1>4. CASE Woken(s)
  <2>1. /\ ~Busy(s) /\ Goto(s, "enter")
        /\ UNCHANGED <<pending, running, profile, calls, seen, used>>
    BY <1>4 DEF Woken, Busy, Running, Notifying
  <2> QED
    BY <2>1, MoveInv
<1>5. CASE RunPlan(s) \/ Publish(s)
  <2>1. PICK to \in {"measured", "clearing"} : Goto(s, to)
    BY <1>5 DEF RunPlan, Publish
  <2>2. Running(s) /\ UNCHANGED <<pending, running, calls, seen, used>>
    BY <1>5 DEF RunPlan, Publish, Running
  <2>3. profile' \in Profiles
    BY <1>5 DEF RunPlan, Publish, RecoveryInv, TypeOK, Profiles
  <2> QED
    BY <2>1, <2>2, <2>3, AttemptInv
<1>6. CASE PlanScan(s)
  <2>1. /\ pc[s] = "proceed" /\ Goto(s, "planned")
        /\ used' = [used EXCEPT ![s] = profile]
        /\ UNCHANGED <<pending, running, profile, calls, seen>>
    BY <1>6 DEF PlanScan
  <2>2. ~Busy(s) /\ (s \in Recovering => ~running /\ ~pending)
    BY <2>1 DEF RecoveryInv, Busy, Running, Notifying
  <2> QED
    BY <2>1, <2>2, MoveInv
<1>7. CASE DropPlanning(s)
  <2>1. UNCHANGED <<pending, running, profile, calls, seen, used>>
    BY <1>7 DEF DropPlanning
  <2>2. CASE pc[s] = "waiting"
    <3>1. ~Busy(s) /\ Goto(s, "dropped")
      BY <1>7, <2>2 DEF DropPlanning, Busy, Running, Notifying
    <3> QED
      BY <2>1, <3>1, MoveInv
  <2>3. CASE pc[s] = "attempt"
    <3>1. Running(s) /\ Goto(s, "abandon") /\ profile' \in Profiles
      BY <1>7, <2>1, <2>3 DEF DropPlanning, Running, RecoveryInv, TypeOK
    <3> QED
      BY <2>1, <3>1, AttemptInv
  <2> QED
    BY <1>7, <2>2, <2>3 DEF DropPlanning
<1> QED
  BY <1>1, <1>2, <1>3, <1>4, <1>5, <1>6, <1>7, ClearRunningInv, NotifyWaitersInv
     DEF PlanningStep

\* The state that the scans of a table share keeps its invariant, however many
\* scans are planned at once and whichever plannings are dropped.
THEOREM RecoveryInvariant == Spec => []RecoveryInv
<1>1. Init => RecoveryInv
  BY InitRecoveryInv
<1>2. RecoveryInv /\ [Next]_vars => RecoveryInv'
  <2> SUFFICES ASSUME RecoveryInv, [Next]_vars PROVE RecoveryInv'
    OBVIOUS
  <2>1. CASE \E s \in Scans :
               LookPending(s) \/ CallRecover(s) \/ PlanningStep(s) \/ DropPlanning(s)
    BY <2>1, ScanStepInv
  <2>2. CASE Finished \/ UNCHANGED vars
    BY <2>2 DEF Finished, vars, RecoveryInv, TypeOK, OneAttempt, NoStrandedScan,
                ProfileCurrent, Busy, Running, Notifying
  <2> QED
    BY <2>1, <2>2 DEF Next
<1> QED
  BY <1>1, <1>2, PTL DEF Spec

\* recover_network_warmup runs the deferred plan at most once, in one scan.
THEOREM OneWarmupAttempt == Spec => []OneAttempt
<1>1. RecoveryInv => OneAttempt
  BY DEF RecoveryInv
<1> QED
  BY <1>1, RecoveryInvariant, PTL

\* WarmupRecoveryGuard leaves no scan asleep, cancelled attempts included.
THEOREM PeersWoken == Spec => []NoStrandedScan
<1>1. RecoveryInv => NoStrandedScan
  BY DEF RecoveryInv
<1> QED
  BY <1>1, RecoveryInvariant, PTL

\* No scan that the guards of DeltaScanBuilder::build and prepare_scan send to
\* recover_network_warmup, and whose options support a warmup, is planned with a
\* profile that set_estimator replaces later.
THEOREM ScansUseCurrentProfile == Spec => []ProfileCurrent
<1>1. RecoveryInv => ProfileCurrent
  BY DEF RecoveryInv
<1> QED
  BY <1>1, RecoveryInvariant, PTL
=============================================================================
