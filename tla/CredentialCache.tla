-------------------------- MODULE CredentialCache --------------------------
(***************************************************************************)
(* TableCredentialCache (unity_catalog/credential_cache.rs): the temporary *)
(* credentials of one table, shared by the reads of all its storage        *)
(* clients and renewed on demand.  A tokio mutex, which is fair, holds the *)
(* grant or the failure that ended it; the holder keeps the lock while it  *)
(* asks Databricks for a new grant.  Any read may be dropped while it      *)
(* waits.                                                                  *)
(*                                                                         *)
(* now is the true time, and what the monotonic clock counts; the wall     *)
(* clock is off by skew, and may be set at any moment.  Databricks stamps  *)
(* its grants with the true time.                                          *)
(***************************************************************************)
EXTENDS Integers, Sequences

CONSTANTS
    Reads,      \* the calls of get_or_refresh that may be under way at once
    Times,      \* the instants the model visits, from 0
    Skews,      \* how far off the wall clock may be, 0 included
    Lifetimes,  \* for how long Databricks grants credentials
    MarginCap   \* the 30 s of CachedTableCredentials::new

ASSUME CacheAssumption ==
    /\ Times \subseteq Nat /\ 0 \in Times
    /\ Skews \subseteq Int /\ 0 \in Skews
    /\ Lifetimes \subseteq Nat \ {0}
    /\ MarginCap \in Nat

VARIABLES
    now,        \* Instant::now()
    skew,       \* SystemTime::now() - now
    cache,      \* the state behind the mutex
    queue,      \* the reads at the mutex, its holder first
    read,       \* read[r]: where the read is
    answer,     \* what the renewal under way has come to
    cancelRequested \* REQUEST_CANCELLATION_SIGNAL: the command is being stopped

cacheVars == <<now, skew, cache, queue, read, answer, cancelRequested>>

Wall == now + skew

\* The credential family: that of the first grant, or one that same_kind tells
\* apart from it.
Kinds == {"first", "other"}

NoAnswer == [is |-> "none"]

Failure == [failed |-> TRUE]

Cached(kind, expires, refreshAt) ==
    [failed |-> FALSE, kind |-> kind, expires |-> expires, refreshAt |-> refreshAt,
     at |-> now, skew |-> skew]

Grants == [failed : {FALSE}, kind : Kinds, expires : Int, refreshAt : Int,
           at : Nat, skew : Int]

CacheTypeOK ==
    /\ now \in Times
    /\ skew \in Skews
    /\ cache \in Grants \cup {Failure}
    /\ queue \in Seq(Reads)
    /\ read \in [Reads -> {"idle", "queued", "refreshing", "ok", "failed"}]
    /\ answer \in [is : {"none", "asked", "error"}]
                  \cup [is : {"grant"}, kind : Kinds, expires : Int]
    /\ cancelRequested \in BOOLEAN

-----------------------------------------------------------------------------
(* CachedTableCredentials                                                   *)

MarginFixed(lifetime) == MarginCap

\* Short grants keep most of their lifetime.
Margin(lifetime) ==
    IF lifetime \div 10 < MarginCap THEN lifetime \div 10 ELSE MarginCap

\* CachedTableCredentials::new: the wall clock is read once, and the deadline
\* kept on the monotonic one.
NewCached(kind, expires) ==
    LET lifetime == expires - Wall IN
    IF lifetime <= 0 THEN Failure
    ELSE Cached(kind, expires, now + lifetime - Margin(lifetime))

IsFreshByWall == Wall < cache.expires

IsFresh == now < cache.refreshAt /\ Wall < cache.expires

\* The table was opened with a grant that new() accepted.
CacheInit ==
    /\ now = 0
    /\ skew \in Skews
    /\ \E l \in Lifetimes : cache = NewCached("first", l)
    /\ ~cache.failed
    /\ queue = <<>>
    /\ read = [r \in Reads |-> "idle"]
    /\ answer = NoAnswer
    /\ cancelRequested = FALSE

-----------------------------------------------------------------------------
(* get_or_refresh                                                           *)

Call(r) ==
    /\ read[r] \in {"idle", "ok", "failed"}
    /\ read' = [read EXCEPT ![r] = "queued"]
    /\ queue' = Append(queue, r)
    /\ UNCHANGED <<now, skew, cache, answer, cancelRequested>>

Holds(r) == queue # <<>> /\ Head(queue) = r

\* The lock is released with the result.
Return(r, result) ==
    /\ read' = [read EXCEPT ![r] = result]
    /\ queue' = Tail(queue)

InspectRetriesFailure(r) ==
    /\ Holds(r) /\ read[r] = "queued"
    /\ IF ~cache.failed /\ IsFresh
       THEN Return(r, "ok") /\ UNCHANGED answer
       ELSE /\ read' = [read EXCEPT ![r] = "refreshing"]
            /\ answer' = [is |-> "asked"]
            /\ UNCHANGED queue
    /\ UNCHANGED <<now, skew, cache, cancelRequested>>

\* The holder finds the failure, a grant that is fresh, or launches a renewal.
Inspect(r) ==
    /\ Holds(r) /\ read[r] = "queued"
    /\ \/ /\ cache.failed
          /\ Return(r, "failed")
          /\ UNCHANGED answer
       \/ /\ ~cache.failed /\ IsFresh
          /\ Return(r, "ok")
          /\ UNCHANGED answer
       \/ /\ ~cache.failed /\ ~IsFresh
          /\ read' = [read EXCEPT ![r] = "refreshing"]
          /\ answer' = [is |-> "asked"]
          /\ UNCHANGED queue
    /\ UNCHANGED <<now, skew, cache, cancelRequested>>

\* generate_read_credentials: Databricks grants credentials, of some kind, or
\* the command fails, says too much or times out.  Once the command is being
\* stopped, run_command_with_timeout kills its child and then never returns, so
\* the read that asked keeps the lock until it is dropped.
DatabricksAnswers ==
    /\ answer.is = "asked" /\ ~cancelRequested
    /\ \/ answer' = [is |-> "error"]
       \/ \E k \in Kinds, l \in Lifetimes : answer' = [is |-> "grant", kind |-> k, expires |-> now + l]
    /\ UNCHANGED <<now, skew, cache, queue, read, cancelRequested>>

\* A grant of another kind, or one that is over when it arrives, is a failure.
Replacement ==
    IF answer.is = "error" THEN Failure
    ELSE IF answer.kind # cache.kind THEN Failure
    ELSE NewCached(answer.kind, answer.expires)

\* The state is replaced, also by a failure, before the lock is released.
Refreshed(r) ==
    /\ Holds(r) /\ read[r] = "refreshing"
    /\ answer.is \in {"error", "grant"}
    /\ cache' = Replacement
    /\ Return(r, IF Replacement.failed THEN "failed" ELSE "ok")
    /\ answer' = NoAnswer
    /\ UNCHANGED <<now, skew, cancelRequested>>

\* The queue without its i-th read.
Without(i) == SubSeq(queue, 1, i - 1) \o SubSeq(queue, i + 1, Len(queue))

DropKeepsLock(r) ==
    /\ read[r] \in {"queued", "refreshing"}
    /\ read' = [read EXCEPT ![r] = "idle"]
    /\ IF read[r] = "refreshing" THEN UNCHANGED queue
       ELSE \E i \in DOMAIN queue : queue[i] = r /\ queue' = Without(i)
    /\ answer' = IF read[r] = "refreshing" THEN NoAnswer ELSE answer
    /\ UNCHANGED <<now, skew, cache, cancelRequested>>

\* The read's future is dropped: it leaves the queue, and the answer to its
\* renewal is aborted with its JoinSet, while the cache keeps the old grant.
Drop(r) ==
    /\ read[r] \in {"queued", "refreshing"}
    /\ read' = [read EXCEPT ![r] = "idle"]
    /\ \E i \in DOMAIN queue : queue[i] = r /\ queue' = Without(i)
    /\ answer' = IF read[r] = "refreshing" THEN NoAnswer ELSE answer
    /\ UNCHANGED <<now, skew, cache, cancelRequested>>

\* cancel_pending_requests, once the command has ended or must stop.
CancelRequests ==
    /\ ~cancelRequested
    /\ cancelRequested' = TRUE
    /\ UNCHANGED <<now, skew, cache, queue, read, answer>>

-----------------------------------------------------------------------------
(* The clocks.                                                              *)

Tick ==
    /\ now' \in {t \in Times : t > now}
    /\ UNCHANGED <<skew, cache, queue, read, answer, cancelRequested>>

ClockSet ==
    /\ skew' \in Skews
    /\ UNCHANGED <<now, cache, queue, read, answer, cancelRequested>>

CacheNext ==
    \/ \E r \in Reads : Call(r) \/ Inspect(r) \/ Refreshed(r) \/ Drop(r)
    \/ DatabricksAnswers
    \/ CancelRequests
    \/ Tick
    \/ ClockSet

\* The runtime polls a read whose turn it is, and DATABRICKS_COMMAND_TIMEOUT
\* bounds a renewal, unless it is cancelled: that is not owed, and disables it.
CacheFairness ==
    /\ \A r \in Reads : WF_cacheVars(Inspect(r)) /\ WF_cacheVars(Refreshed(r))
    /\ WF_cacheVars(DatabricksAnswers)

CacheSpec == CacheInit /\ [][CacheNext]_cacheVars /\ CacheFairness

-----------------------------------------------------------------------------
(* Properties.                                                              *)

\* Read r is given credentials.
Handed(r) == read[r] \in {"queued", "refreshing"} /\ read'[r] = "ok"

\* A read is given credentials that the wall clock still calls valid; if that
\* clock was right when the grant arrived, they are valid in truth, however it
\* has been set since and however long the read waited for the lock.
HandedValid ==
    [][\A r \in Reads : Handed(r) =>
           /\ Wall < cache'.expires
           /\ cache'.skew = 0 => now < cache'.expires]_cacheVars

\* "A failure is retained so waiting reads do not launch more subprocesses or
\* fall back": after a failed renewal nothing is launched or handed out, and a
\* read that was told of it can still recover its category.
FailureFinal ==
    [][cache.failed => cache'.failed /\ answer' = NoAnswer
                       /\ \A r \in Reads : ~Handed(r)]_cacheVars

\* A read that failed finds the reason in the cache (refresh_failure), and
\* nobody waits for a renewal while the failure is there.
FailureRecoverable ==
    /\ (\E r \in Reads : read[r] = "failed") => cache.failed
    /\ cache.failed => answer.is = "none"

\* Every native client gets the kind of credentials it was built for.
KindKept == ~cache.failed => cache.kind = "first"

\* Reads that wait for a renewal share it: nobody launches another before the
\* time or the clock has changed since the grant arrived.
Coalesced ==
    [][\A r \in Reads : read[r] = "queued" /\ read'[r] = "refreshing" =>
           <<cache.at, cache.skew>> # <<now, skew>>]_cacheVars

\* A read that is not dropped gets credentials or the failure, unless the command
\* is being stopped: no holder, nor one that was dropped at its await, leaves the
\* others waiting.  A renewal cancelled with the command never answers; its read
\* and those behind it go with the worker.
EveryReadReturns ==
    \A r \in Reads :
      read[r] = "queued" ~> read[r] \in {"ok", "failed", "idle"} \/ cancelRequested

-----------------------------------------------------------------------------
(* The inductive invariant.                                                 *)

\* The deadline on the monotonic clock is never later than an expiry that the
\* wall clock measured right, and a grant is fresh when it arrives.
CachedInv ==
    ~cache.failed =>
        /\ cache.refreshAt > cache.at
        /\ cache.expires > cache.at + cache.skew
        /\ cache.skew = 0 => cache.refreshAt <= cache.expires

\* A renewal belongs to the read that holds the lock, and starts from a grant.
RenewalInv ==
    /\ answer.is = "none" <=> \A r \in Reads : read[r] # "refreshing"
    /\ \A r \in Reads : read[r] = "refreshing" => Holds(r) /\ ~cache.failed

CacheInv == CacheTypeOK /\ CachedInv /\ RenewalInv /\ FailureRecoverable /\ KindKept

=============================================================================
