--------------------------- MODULE WarmupRecovery ---------------------------
(***************************************************************************)
(* The network warmup that the scans of one table share                    *)
(* (network_profile/warmup.rs, ParquetRangeReadState).  load_table tries a *)
(* warmup; when it yields no profile the plan is deferred, and the first   *)
(* scan that could profit runs it once more.  Such scans planned meanwhile *)
(* wait for that attempt, and each then keeps the profile it finds; the    *)
(* others do not wait.  A scan's planning may be cancelled (its future     *)
(* dropped) where it awaits.                                               *)
(*                                                                         *)
(* The recovery lock is only held for the steps InspectState, LookPending  *)
(* and ClearRunning, each of which is therefore one action.  Notify is     *)
(* external, as in ScanCancellation.                                       *)
(***************************************************************************)
EXTENDS Naturals

CONSTANTS
    Scans,      \* calls that plan a scan of the table
    Supported,  \* those whose options support a warmup (supports_scan)
    Filtered,   \* those that read partitions under a row predicate, and whose
                \* limit is not zero
    Adapter     \* those planned by DataFusion, which look before they call

ASSUME ScansAssumption ==
    Supported \subseteq Scans /\ Filtered \subseteq Scans /\ Adapter \subseteq Scans

\* Scans that wait for, or run, the deferred warmup.
Recovering == Supported \cap Filtered

VARIABLES
    pending,    \* recovery.pending is Some
    running,    \* recovery.running
    profile,    \* the published estimator, "initial" or "measured"
    calls,      \* recovery_finished.notify_waiters() calls so far
    pc,         \* pc[s]: where the planning of s is
    seen,       \* seen[s]: calls when its Notified future was enabled
    used        \* used[s]: the estimator s was planned with

vars == <<pending, running, profile, calls, pc, seen, used>>

Profiles == {"initial", "measured"}

TypeOK ==
    /\ pending \in BOOLEAN /\ running \in BOOLEAN
    /\ profile \in Profiles
    /\ calls \in Nat
    /\ pc \in [Scans -> {"idle", "enter", "enabled", "waiting", "attempt", "measured",
                         "clearing", "notify", "abandon", "abandoned", "proceed",
                         "planned", "dropped"}]
    /\ seen \in [Scans -> Nat]
    /\ used \in [Scans -> Profiles]

\* load_table publishes the profile it measured or defers its plan.  Without a
\* plan (no network warmup configured, no file to sample) it does neither.
Init ==
    /\ pending \in BOOLEAN
    /\ profile \in IF pending THEN {"initial"} ELSE Profiles
    /\ running = FALSE
    /\ calls = 0
    /\ pc = [s \in Scans |-> "idle"]
    /\ seen = [s \in Scans |-> 0]
    /\ used = [s \in Scans |-> "initial"]

Goto(s, to) == pc' = [pc EXCEPT ![s] = to]

-----------------------------------------------------------------------------
(* Before recover_network_warmup                                            *)

\* try_lock fails, and the answer is TRUE, while another call has the lock.
Contended(s) ==
    \E t \in Scans \ {s} :
      \/ pc[t] = "idle" /\ t \in Adapter \cap Recovering
      \/ pc[t] \in {"enabled", "clearing", "abandon"}

\* prepare_scan asks network_warmup_pending only for a filtered scan, and goes
\* straight on when it need not wait.
LookPending(s) ==
    /\ pc[s] = "idle" /\ s \in Adapter
    /\ \/ Goto(s, IF s \in Recovering /\ (running \/ pending) THEN "enter" ELSE "proceed")
       \/ s \in Recovering /\ Contended(s) /\ Goto(s, "enter")
    /\ UNCHANGED <<pending, running, profile, calls, seen, used>>

\* DeltaScanBuilder::build calls recover_network_warmup for a filtered scan; the
\* call returns at once when the scan's options do not support a warmup.
CallRecover(s) ==
    /\ pc[s] = "idle" /\ s \notin Adapter
    /\ Goto(s, IF s \in Recovering THEN "enter" ELSE "proceed")
    /\ UNCHANGED <<pending, running, profile, calls, seen, used>>

-----------------------------------------------------------------------------
(* The loop of recover_network_warmup                                       *)

EnableNotified(s) ==
    /\ pc[s] = "enter"
    /\ seen' = [seen EXCEPT ![s] = calls]
    /\ Goto(s, "enabled")
    /\ UNCHANGED <<pending, running, profile, calls, used>>

\* Under the lock: wait for the attempt that runs, take the plan, or find none.
InspectState(s) ==
    /\ pc[s] = "enabled"
    /\ IF running THEN UNCHANGED <<pending, running>> /\ Goto(s, "waiting")
       ELSE /\ pending' = FALSE
            /\ running' = pending
            /\ Goto(s, IF pending THEN "attempt" ELSE "proceed")
    /\ UNCHANGED <<profile, calls, seen, used>>

Woken(s) ==
    /\ pc[s] = "waiting" /\ calls > seen[s]
    /\ Goto(s, "enter")
    /\ UNCHANGED <<pending, running, profile, calls, seen, used>>

-----------------------------------------------------------------------------
(* The attempt                                                              *)

RunPlanDropsGuard(s) ==
    /\ pc[s] = "attempt"
    /\ Goto(s, "measured") \/ Goto(s, "clearing")
    /\ running' = FALSE
    /\ UNCHANGED <<pending, profile, calls, seen, used>>

\* plan.run ends within max_duration: complete, or without a profile
\* (insufficient_samples, read_failed, timeout).
RunPlan(s) ==
    /\ pc[s] = "attempt"
    /\ Goto(s, "measured") \/ Goto(s, "clearing")
    /\ UNCHANGED <<pending, running, profile, calls, seen, used>>

\* set_estimator comes before the guard is dropped.
Publish(s) ==
    /\ pc[s] = "measured"
    /\ profile' = "measured"
    /\ Goto(s, "clearing")
    /\ UNCHANGED <<pending, running, calls, seen, used>>

\* WarmupRecoveryGuard::drop, under the lock and then without it.
ClearRunning(s) ==
    /\ pc[s] \in {"clearing", "abandon"}
    /\ running' = FALSE
    /\ Goto(s, IF pc[s] = "clearing" THEN "notify" ELSE "abandoned")
    /\ UNCHANGED <<pending, profile, calls, seen, used>>

NotifyAfterAttempt(s) ==
    /\ pc[s] \in {"notify", "abandoned"}
    /\ calls' = IF pc[s] = "notify" THEN calls + 1 ELSE calls
    /\ Goto(s, IF pc[s] = "notify" THEN "proceed" ELSE "dropped")
    /\ UNCHANGED <<pending, running, profile, seen, used>>

NotifyWaiters(s) ==
    /\ pc[s] \in {"notify", "abandoned"}
    /\ calls' = calls + 1
    /\ Goto(s, IF pc[s] = "notify" THEN "proceed" ELSE "dropped")
    /\ UNCHANGED <<pending, running, profile, seen, used>>

-----------------------------------------------------------------------------
\* range_read_estimator(): the scan keeps the profile it finds.
PlanScan(s) ==
    /\ pc[s] = "proceed"
    /\ used' = [used EXCEPT ![s] = profile]
    /\ Goto(s, "planned")
    /\ UNCHANGED <<pending, running, profile, calls, seen>>

\* The planning future is dropped at an await; the guard of an attempt runs.
DropPlanning(s) ==
    /\ \/ pc[s] = "waiting" /\ Goto(s, "dropped")
       \/ pc[s] = "attempt" /\ Goto(s, "abandon")
    /\ UNCHANGED <<pending, running, profile, calls, seen, used>>

Finished ==
    /\ \A s \in Scans : pc[s] \in {"planned", "dropped"}
    /\ UNCHANGED vars

PlanningStep(s) ==
    \/ EnableNotified(s) \/ InspectState(s) \/ Woken(s) \/ RunPlan(s) \/ Publish(s)
    \/ ClearRunning(s) \/ NotifyWaiters(s) \/ PlanScan(s)

Next ==
    \/ \E s \in Scans :
         LookPending(s) \/ CallRecover(s) \/ PlanningStep(s) \/ DropPlanning(s)
    \/ Finished

\* A planning that was begun is polled until it returns or is dropped; the
\* attempt is bounded by its timeout.
Fairness == \A s \in Scans : WF_vars(PlanningStep(s))

Spec == Init /\ [][Next]_vars
FairSpec == Spec /\ Fairness

-----------------------------------------------------------------------------
(* Properties                                                               *)

Running(s) == pc[s] \in {"attempt", "measured", "clearing", "abandon"}
Notifying(s) == pc[s] \in {"notify", "abandoned"}
Busy(s) == Running(s) \/ Notifying(s)

\* "The single deferred warmup attempt shared by a table": however the scans
\* race and whichever are cancelled, one of them at most runs the plan, once,
\* and `running` tells the others the truth.
OneAttempt ==
    /\ \A s, t \in Scans : Busy(s) /\ Busy(t) => s = t
    /\ running <=> \E s \in Scans : Running(s)
    /\ calls <= 1
    /\ pending => calls = 0 /\ ~\E s \in Scans : Busy(s)
    /\ (\E s \in Scans : Busy(s)) => calls = 0

\* A scan that waits is waiting for an attempt that runs, or has been or will
\* be notified of its end: completion, failure and cancellation alike.
NoStrandedScan ==
    \A s \in Scans :
      pc[s] = "waiting" => running \/ calls > seen[s] \/ \E t \in Scans : Notifying(t)

\* "Peers wait for publication": no scan that could profit is planned with a
\* profile that the shared attempt replaces afterwards.  The others (no row
\* predicate, a limit of zero, nothing to read, a warmup their options do not
\* support) do not wait, and keep the profile they find.
ProfileCurrent ==
    \A s \in Recovering : pc[s] = "planned" => used[s] = profile

\* Every planning that was begun ends, also when the scan that runs the
\* attempt is cancelled under its peers.
PlanningEnds ==
    \A s \in Scans : pc[s] # "idle" ~> pc[s] \in {"planned", "dropped"}

\* What makes the three invariants inductive: a recovering scan goes on only
\* when no attempt is left or running, and no Notified future is ahead.
RecoveryInv ==
    /\ TypeOK
    /\ OneAttempt
    /\ NoStrandedScan
    /\ ProfileCurrent
    /\ \A s \in Scans : seen[s] <= calls
    /\ \A s \in Recovering : pc[s] \in {"proceed", "planned"} => ~running /\ ~pending
=============================================================================
