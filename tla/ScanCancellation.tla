-------------------------- MODULE ScanCancellation --------------------------
(***************************************************************************)
(* ScanCancellation (scheduling.rs): an atomic flag and a tokio Notify,    *)
(* shared by every producer, file future and stream of a scan.  cancel()   *)
(* tells its caller whether it was the first; cancelled() waits.  The      *)
(* other modules treat the flag as one atomic cell and a wait as a guard;  *)
(* this one shows why they may, one load, store or call at a time.         *)
(*                                                                         *)
(* Notify is external.  A Notified future remembers how many               *)
(* notify_waiters() calls preceded notified(), and is ready once there     *)
(* have been more.                                                         *)
(***************************************************************************)
EXTENDS Naturals

CONSTANTS
    Waiters,    \* calls of cancelled(), each the arm of some select
    Cancellers  \* calls of cancel()

VARIABLES
    flag,       \* inner.cancelled
    calls,      \* notify_waiters() calls so far
    waiter,     \* waiter[w]: where the call of cancelled() is
    seen,       \* seen[w]: calls when the Notified future was created
    canceller   \* canceller[c]: where the call of cancel() is

cancellationVars == <<flag, calls, waiter, seen, canceller>>

CancellationTypeOK ==
    /\ flag \in BOOLEAN
    /\ calls \in Nat
    /\ waiter \in [Waiters -> {"idle", "checked", "created", "waiting", "returned"}]
    /\ seen \in [Waiters -> Nat]
    /\ canceller \in [Cancellers -> {"idle", "first", "notified", "late"}]

CancellationInit ==
    /\ flag = FALSE
    /\ calls = 0
    /\ waiter = [w \in Waiters |-> "idle"]
    /\ seen = [w \in Waiters |-> 0]
    /\ canceller = [c \in Cancellers |-> "idle"]

Goto(w, to) == waiter' = [waiter EXCEPT ![w] = to]

-----------------------------------------------------------------------------
(* cancel()                                                                 *)

\* cancelled.swap(true): the caller that found FALSE is the first.
Swap(c) ==
    /\ canceller[c] = "idle"
    /\ flag' = TRUE
    /\ canceller' = [canceller EXCEPT ![c] = IF flag THEN "late" ELSE "first"]
    /\ UNCHANGED <<calls, waiter, seen>>

NotifyWaiters(c) ==
    /\ canceller[c] = "first"
    /\ calls' = calls + 1
    /\ canceller' = [canceller EXCEPT ![c] = "notified"]
    /\ UNCHANGED <<flag, waiter, seen>>

-----------------------------------------------------------------------------
(* cancelled()                                                              *)

FirstLook(w) ==
    /\ waiter[w] = "idle"
    /\ Goto(w, IF flag THEN "returned" ELSE "checked")
    /\ UNCHANGED <<flag, calls, seen, canceller>>

CreateNotified(w) ==
    /\ waiter[w] = "checked"
    /\ seen' = [seen EXCEPT ![w] = calls]
    /\ Goto(w, "created")
    /\ UNCHANGED <<flag, calls, canceller>>

SecondLookSkipped(w) ==
    /\ waiter[w] = "created"
    /\ Goto(w, "waiting")
    /\ UNCHANGED <<flag, calls, seen, canceller>>

SecondLook(w) ==
    /\ waiter[w] = "created"
    /\ Goto(w, IF flag THEN "returned" ELSE "waiting")
    /\ UNCHANGED <<flag, calls, seen, canceller>>

NotifiedReady(w) ==
    /\ waiter[w] = "waiting" /\ calls > seen[w]
    /\ Goto(w, "returned")
    /\ UNCHANGED <<flag, calls, seen, canceller>>

\* Another arm of the select won: the future is dropped and created anew.
Abandon(w) ==
    /\ waiter[w] = "waiting"
    /\ Goto(w, "idle")
    /\ UNCHANGED <<flag, calls, seen, canceller>>

AllReturned ==
    /\ \A w \in Waiters : waiter[w] = "returned"
    /\ \A c \in Cancellers : canceller[c] \in {"notified", "late"}
    /\ UNCHANGED cancellationVars

WaiterStep(w) ==
    CreateNotified(w) \/ SecondLook(w) \/ NotifiedReady(w)

CancellationNext ==
    \/ \E c \in Cancellers : Swap(c) \/ NotifyWaiters(c)
    \/ \E w \in Waiters : FirstLook(w) \/ WaiterStep(w) \/ Abandon(w)
    \/ AllReturned

\* cancel() contains no await, and a polled select runs its arms to their next
\* await; nobody has to call either function.
CancellationFairness ==
    /\ \A c \in Cancellers : WF_cancellationVars(NotifyWaiters(c))
    /\ \A w \in Waiters : WF_cancellationVars(WaiterStep(w))

CancellationSpec == CancellationInit /\ [][CancellationNext]_cancellationVars
FairCancellationSpec == CancellationSpec /\ CancellationFairness

-----------------------------------------------------------------------------
(* Properties                                                               *)

First(c) == canceller[c] \in {"first", "notified"}

\* However many calls of cancel() race, the flag is set exactly when one of
\* them, and no other, has been told that it was the first: the scan's one
\* error, or its panic, has one reporter.
OneFirst ==
    /\ \A c, d \in Cancellers : First(c) /\ First(d) => c = d
    /\ flag <=> \E c \in Cancellers : First(c)

\* A wait begun before the flag was set is ready, or will be made ready by the
\* first canceller's notification: no order of the two calls loses the wakeup.
NoLostWakeup ==
    \A w \in Waiters :
      flag /\ waiter[w] = "waiting" =>
        calls > seen[w] \/ \E c \in Cancellers : canceller[c] = "first"

\* Once the scan is cancelled, every call of cancelled() that is under way
\* returns.
EveryWaitReturns ==
    \A w \in Waiters : flag ~> waiter[w] \in {"idle", "returned"}

-----------------------------------------------------------------------------
\* What makes NoLostWakeup inductive: a wait has seen no call of the future.
CancellationInv ==
    /\ CancellationTypeOK
    /\ OneFirst
    /\ NoLostWakeup
    /\ \A w \in Waiters : seen[w] <= calls
=============================================================================
