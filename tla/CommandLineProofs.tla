------------------------- MODULE CommandLineProofs -------------------------
(***************************************************************************)
(* Proofs about the command line.  CredentialCache, for any number of      *)
(* reads, any instants, any errors of the wall clock and any lifetimes of  *)
(* grants: the inductive invariant CacheInv.  TableCommand: the inductive  *)
(* invariant CommandInv, kept by every step of the two threads and of the  *)
(* world outside.  The safety properties of both follow from these.        *)
(***************************************************************************)
EXTENDS CredentialCache, TableCommand, TLAPS

(* ---- the credentials of a table ----------------------------------------- *)

\* The margin is taken off the lifetime and never uses it up.
LEMMA MarginBound ==
    ASSUME NEW l \in Int, l > 0
    PROVE  Margin(l) \in Nat /\ Margin(l) < l
<1>1. l \div 10 \in Nat /\ l \div 10 < l
    OBVIOUS
<1>. QED
    BY <1>1, CacheAssumption DEF Margin

\* What CachedTableCredentials::new makes of a grant: the failure, or a grant
\* that is fresh now, with a deadline no later than a true expiry.
LEMMA NewCachedFacts ==
    ASSUME now \in Nat, skew \in Int, NEW k \in Kinds, NEW e \in Int,
           NEW c, c = NewCached(k, e), c # Failure
    PROVE  /\ c \in Grants
           /\ c.kind = k /\ c.expires = e /\ c.at = now /\ c.skew = skew
           /\ c.refreshAt > now
           /\ e > Wall
           /\ skew = 0 => c.refreshAt <= e
<1>. DEFINE l == e - Wall
<1>1. l \in Int /\ l > 0
    BY DEF NewCached, Wall
<1>2. c = Cached(k, e, now + l - Margin(l))
    BY <1>1 DEF NewCached
<1>3. Margin(l) \in Nat /\ Margin(l) < l
    BY <1>1, MarginBound
<1>. HIDE DEF l
<1>4. c = [failed |-> FALSE, kind |-> k, expires |-> e, refreshAt |-> now + l - Margin(l),
           at |-> now, skew |-> skew]
    BY <1>2 DEF Cached
<1>5. now + l - Margin(l) \in Int /\ now + l - Margin(l) > now
    BY <1>1, <1>3
<1>6. e > Wall /\ (skew = 0 => now + l - Margin(l) <= e)
    BY <1>1, <1>3 DEF l, Wall
<1>. QED
    BY <1>4, <1>5, <1>6 DEF Grants

\* The same of the cache itself: a failure has no other field to look at.
LEMMA FailedCache ==
    ASSUME NEW c \in Grants \cup {Failure}
    PROVE  /\ c.failed \in BOOLEAN
           /\ c.failed => c = Failure
           /\ ~c.failed => c \in Grants
<1>1. CASE c = Failure
    BY <1>1 DEF Failure
<1>2. CASE c \in Grants
    <2>1. c.failed \in {FALSE}
        BY <1>2 DEF Grants
    <2>. QED
        BY <1>2, <2>1
<1>. QED
    BY <1>1, <1>2

\* The renewal's outcome, when there was a grant to renew.
LEMMA ReplacementFacts ==
    ASSUME CacheInv, ~cache.failed, answer.is \in {"error", "grant"}
    PROVE  /\ Replacement \in Grants \cup {Failure}
           /\ ~Replacement.failed =>
                  /\ Replacement.kind = "first"
                  /\ Replacement.at = now /\ Replacement.skew = skew
                  /\ Replacement.refreshAt > now
                  /\ Replacement.expires > Wall
                  /\ skew = 0 => Replacement.refreshAt <= Replacement.expires
<1>1. now \in Nat /\ skew \in Int
    BY CacheAssumption DEF CacheInv, CacheTypeOK
<1>2. CASE answer.is = "error" \/ answer.kind # cache.kind
    BY <1>2 DEF Replacement, Failure
<1>3. CASE answer.is = "grant" /\ answer.kind = cache.kind
    <2>1. answer.kind \in Kinds /\ answer.expires \in Int
        BY <1>3 DEF CacheInv, CacheTypeOK
    <2>2. Replacement = NewCached(answer.kind, answer.expires)
        BY <1>3 DEF Replacement
    <2>3. CASE Replacement = Failure
        BY <2>3 DEF Failure
    <2>4. CASE Replacement # Failure
        <3>1. /\ Replacement \in Grants
              /\ Replacement.kind = answer.kind /\ Replacement.expires = answer.expires
              /\ Replacement.at = now /\ Replacement.skew = skew
              /\ Replacement.refreshAt > now
              /\ answer.expires > Wall
              /\ skew = 0 => Replacement.refreshAt <= answer.expires
            BY <1>1, <2>1, <2>2, <2>4, NewCachedFacts
        <3>2. answer.kind = "first"
            BY <1>3 DEF CacheInv, KindKept
        <3>. QED
            BY <3>1, <3>2
    <2>. QED
        BY <2>3, <2>4
<1>. QED
    BY <1>2, <1>3 DEF CacheInv, CacheTypeOK

\* The table is opened with a grant that was accepted.
LEMMA InitCacheInv == CacheInit => CacheInv
<1>. SUFFICES ASSUME CacheInit
              PROVE  CacheInv
    OBVIOUS
<1>1. now \in Nat /\ skew \in Int
    BY CacheAssumption DEF CacheInit
<1>2. PICK l \in Lifetimes : cache = NewCached("first", l)
    BY DEF CacheInit
<1>3. "first" \in Kinds /\ l \in Int
    BY CacheAssumption DEF Kinds
<1>4. cache # Failure
    BY DEF CacheInit, Failure
<1>5. /\ cache \in Grants
      /\ cache.kind = "first" /\ cache.expires = l /\ cache.at = now /\ cache.skew = skew
      /\ cache.refreshAt > now
      /\ l > Wall
      /\ skew = 0 => cache.refreshAt <= l
    BY <1>1, <1>2, <1>3, <1>4, NewCachedFacts
<1>6. CacheTypeOK
    <2>1. cancelRequested \in BOOLEAN
        BY Zenon DEF CacheInit
    <2>. QED
        BY <1>5, <2>1, CacheAssumption DEF CacheInit, CacheTypeOK, NoAnswer
<1>7. CachedInv
    BY <1>5 DEF CachedInv, Wall
<1>8. RenewalInv /\ FailureRecoverable /\ KindKept
    BY <1>5 DEF CacheInit, RenewalInv, FailureRecoverable, KindKept, NoAnswer
<1>. QED
    BY <1>6, <1>7, <1>8 DEF CacheInv

\* The holder keeps the lock when another read joins the queue.
LEMMA AppendKeepsHolder ==
    ASSUME queue \in Seq(Reads), NEW r \in Reads, NEW q \in Reads, Holds(r),
           queue' = Append(queue, q)
    PROVE  Holds(r)'
    BY DEF Holds

\* A concatenation starts like its first part.
LEMMA ConcatHead ==
    ASSUME NEW S, NEW a \in Seq(S), NEW b \in Seq(S)
    PROVE  /\ a \o b \in Seq(S)
           /\ Len(a) >= 1 => a \o b # <<>> /\ Head(a \o b) = a[1]
    OBVIOUS

\* A read that leaves the queue leaves a queue of reads.
LEMMA WithoutType ==
    ASSUME queue \in Seq(Reads), NEW i \in DOMAIN queue
    PROVE  Without(i) \in Seq(Reads)
<1>1. SubSeq(queue, 1, i - 1) \in Seq(Reads) /\ SubSeq(queue, i + 1, Len(queue)) \in Seq(Reads)
    OBVIOUS
<1>. QED
    BY <1>1, ConcatHead DEF Without

\* The holder keeps the lock when another read is dropped.
LEMMA WithoutKeepsHolder ==
    ASSUME queue \in Seq(Reads), NEW r \in Reads, NEW i \in DOMAIN queue, Holds(r),
           queue[i] # r, queue' = Without(i)
    PROVE  Holds(r)'
<1>. DEFINE a == SubSeq(queue, 1, i - 1)
            b == SubSeq(queue, i + 1, Len(queue))
<1>1. i \in 2 .. Len(queue)
    BY DEF Holds
<1>2. a \in Seq(Reads) /\ b \in Seq(Reads)
    BY <1>1
<1>3. Len(a) >= 1 /\ a[1] = queue[1]
    BY <1>1
<1>4. queue' = a \o b
    BY DEF Without
<1>5. queue[1] = r
    BY DEF Holds
<1>. HIDE DEF a, b
<1>6. queue' # <<>> /\ Head(queue') = r
    BY <1>2, <1>3, <1>4, <1>5, ConcatHead
<1>. QED
    BY <1>6 DEF Holds

\* No step leaves the invariant: one step per operation of the cache, of
\* Databricks and of the clocks.
LEMMA NextCacheInv == CacheInv /\ [CacheNext]_cacheVars => CacheInv'
<1>. SUFFICES ASSUME CacheInv, [CacheNext]_cacheVars
              PROVE  CacheInv'
    OBVIOUS
<1>. USE DEF CacheInv
<1>1. /\ CacheTypeOK /\ CachedInv /\ RenewalInv /\ FailureRecoverable /\ KindKept
      /\ cache.failed \in BOOLEAN
    BY FailedCache DEF CacheTypeOK
<1>2. ASSUME NEW r \in Reads, Call(r)
      PROVE  CacheInv'
    <2>1. CacheTypeOK'
        BY <1>1, <1>2 DEF CacheTypeOK, Call
    <2>2. CachedInv' /\ KindKept'
        BY <1>1, <1>2 DEF CachedInv, KindKept, Call
    <2>3. \A q \in Reads : read'[q] = "refreshing" <=> read[q] = "refreshing"
        BY <1>1, <1>2 DEF CacheTypeOK, Call
    <2>4. RenewalInv'
        BY <1>1, <1>2, <2>3, AppendKeepsHolder DEF CacheTypeOK, RenewalInv, Call
    <2>5. FailureRecoverable'
        BY <1>1, <1>2 DEF CacheTypeOK, FailureRecoverable, Call
    <2>. QED
        BY <2>1, <2>2, <2>4, <2>5
<1>3. ASSUME NEW r \in Reads, Inspect(r)
      PROVE  CacheInv'
    <2>1. CachedInv' /\ KindKept'
        BY <1>1, <1>3 DEF CachedInv, KindKept, Inspect
    <2>2. answer.is = "none" /\ \A q \in Reads : read[q] # "refreshing"
        BY <1>1, <1>3 DEF CacheTypeOK, RenewalInv, Holds, Inspect
    <2>3. CacheTypeOK'
        <3>1. queue' \in Seq(Reads)
            <4>1. queue' = queue \/ queue' = Tail(queue)
                BY <1>3 DEF Inspect, Return
            <4>2. queue \in Seq(Reads) /\ queue # <<>>
                BY <1>1, <1>3 DEF CacheTypeOK, Inspect, Holds
            <4>3. Tail(queue) \in Seq(Reads)
                BY <4>2
            <4>. QED
                BY <4>1, <4>2, <4>3
        <3>2. read' \in [Reads -> {"idle", "queued", "refreshing", "ok", "failed"}]
            BY <1>1, <1>3 DEF CacheTypeOK, Inspect, Return
        <3>3. answer' = answer \/ answer' = [is |-> "asked"]
            BY <1>3 DEF Inspect
        <3>4. answer' \in [is : {"none", "asked", "error"}]
                              \cup [is : {"grant"}, kind : Kinds, expires : Int]
            BY <1>1, <3>3 DEF CacheTypeOK
        <3>5. UNCHANGED <<now, skew, cache, cancelRequested>>
            BY <1>3 DEF Inspect
        <3>. QED
            BY <1>1, <3>1, <3>2, <3>4, <3>5 DEF CacheTypeOK
    <2>4. RenewalInv'
        BY <1>1, <1>3, <2>2 DEF CacheTypeOK, RenewalInv, Inspect, Return, Holds
    <2>5. FailureRecoverable'
        BY <1>1, <1>3, <2>2 DEF CacheTypeOK, FailureRecoverable, Inspect, Return
    <2>. QED
        BY <2>1, <2>3, <2>4, <2>5
<1>4. ASSUME NEW r \in Reads, Refreshed(r)
      PROVE  CacheInv'
    <2>1. ~cache.failed
        BY <1>1, <1>4 DEF RenewalInv, Refreshed
    <2>2. /\ cache' \in Grants \cup {Failure}
          /\ ~cache'.failed =>
                 /\ cache'.kind = "first"
                 /\ cache'.at = now /\ cache'.skew = skew
                 /\ cache'.refreshAt > now
                 /\ cache'.expires > Wall
                 /\ skew = 0 => cache'.refreshAt <= cache'.expires
        BY <1>4, <2>1, ReplacementFacts DEF Refreshed
    <2>3. cache'.failed \in BOOLEAN
        BY <2>2, FailedCache
    <2>4. CacheTypeOK'
        BY <1>1, <1>4, <2>2 DEF CacheTypeOK, Refreshed, Return, Holds, NoAnswer
    <2>5. CachedInv' /\ KindKept'
        BY <2>2 DEF CachedInv, KindKept, Wall
    <2>6. \A q \in Reads : read'[q] # "refreshing"
        BY <1>1, <1>4 DEF CacheTypeOK, RenewalInv, Refreshed, Return, Holds
    <2>7. RenewalInv'
        BY <1>4, <2>6 DEF RenewalInv, Refreshed, NoAnswer
    <2>8. \A q \in Reads : read'[q] = "failed" => read[q] = "failed" \/ cache'.failed
        BY <1>1, <1>4 DEF CacheTypeOK, Refreshed, Return
    <2>9. FailureRecoverable'
        BY <1>1, <1>4, <2>1, <2>8 DEF FailureRecoverable, Refreshed, NoAnswer
    <2>. QED
        BY <2>4, <2>5, <2>7, <2>9
<1>5. ASSUME NEW r \in Reads, Drop(r)
      PROVE  CacheInv'
    <2>1. PICK i \in DOMAIN queue : queue[i] = r /\ queue' = Without(i)
        BY <1>5 DEF Drop
    <2>2. CacheTypeOK'
        <3>1. queue' \in Seq(Reads)
            BY <1>1, <2>1, WithoutType DEF CacheTypeOK
        <3>. QED
            BY <1>1, <1>5, <3>1 DEF CacheTypeOK, Drop, NoAnswer
    <2>3. CachedInv' /\ KindKept'
        BY <1>1, <1>5 DEF CachedInv, KindKept, Drop
    <2>4. \A q \in Reads : read'[q] = "refreshing" => read[q] = "refreshing" /\ q # r
        BY <1>1, <1>5 DEF CacheTypeOK, Drop
    <2>5. \A q \in Reads : read[q] = "refreshing" => Holds(q) /\ ~cache.failed
        BY <1>1 DEF RenewalInv
    <2>6. ASSUME NEW q \in Reads, read'[q] = "refreshing"
          PROVE  Holds(q)' /\ ~cache'.failed
        BY <1>1, <1>5, <2>1, <2>4, <2>5, <2>6, WithoutKeepsHolder DEF CacheTypeOK, Drop
    <2>7. answer'.is = "none" <=> \A q \in Reads : read'[q] # "refreshing"
        <3>1. CASE read[r] = "refreshing"
            BY <1>1, <1>5, <2>4, <2>5, <3>1 DEF Drop, NoAnswer, Holds
        <3>2. CASE read[r] # "refreshing"
            BY <1>1, <1>5, <2>4, <3>2 DEF CacheTypeOK, Drop, RenewalInv
        <3>. QED
            BY <3>1, <3>2
    <2>8. RenewalInv'
        BY <2>6, <2>7 DEF RenewalInv
    <2>9. FailureRecoverable'
        BY <1>1, <1>5 DEF CacheTypeOK, FailureRecoverable, Drop, NoAnswer
    <2>. QED
        BY <2>2, <2>3, <2>8, <2>9
<1>6. CASE DatabricksAnswers
    <2>1. answer' \in [is : {"error"}] \cup [is : {"grant"}, kind : Kinds, expires : Int]
        BY <1>1, <1>6, CacheAssumption DEF CacheTypeOK, DatabricksAnswers
    <2>2. CacheTypeOK'
        BY <1>1, <1>6, <2>1 DEF CacheTypeOK, DatabricksAnswers
    <2>3. answer'.is # "none"
        BY <2>1
    <2>4. CachedInv' /\ KindKept'
        BY <1>1, <1>6 DEF CachedInv, KindKept, DatabricksAnswers
    <2>5. RenewalInv' /\ FailureRecoverable'
        BY <1>1, <1>6, <2>3 DEF RenewalInv, FailureRecoverable, DatabricksAnswers, Holds
    <2>. QED
        BY <2>2, <2>4, <2>5
<1>7. CASE CancelRequests \/ Tick \/ ClockSet \/ UNCHANGED cacheVars
    <2>1. UNCHANGED <<cache, queue, read, answer>>
        BY <1>7 DEF CancelRequests, Tick, ClockSet, cacheVars
    <2>2. CacheTypeOK'
        BY <1>1, <1>7 DEF CacheTypeOK, CancelRequests, Tick, ClockSet, cacheVars
    <2>3. CachedInv' /\ KindKept' /\ RenewalInv' /\ FailureRecoverable'
        BY <1>1, <2>1 DEF CachedInv, KindKept, RenewalInv, FailureRecoverable, Holds
    <2>. QED
        BY <2>2, <2>3
<1>. QED
    BY <1>2, <1>3, <1>4, <1>5, <1>6, <1>7 DEF CacheNext

\* CacheInv holds of every state the cache can be in.
THEOREM CacheInvariant == CacheSpec => []CacheInv
    BY InitCacheInv, NextCacheInv, PTL DEF CacheSpec

\* A read is given credentials through one of two steps.
LEMMA HandedBy ==
    ASSUME CacheInv, [CacheNext]_cacheVars, NEW r \in Reads, Handed(r)
    PROVE  \/ Inspect(r) /\ ~cache.failed /\ IsFresh
           \/ Refreshed(r) /\ ~cache.failed /\ ~Replacement.failed
<1>1. read \in [Reads -> {"idle", "queued", "refreshing", "ok", "failed"}]
    BY DEF CacheInv, CacheTypeOK
<1>2. ASSUME NEW q \in Reads, Call(q) \/ Drop(q)
      PROVE  FALSE
    BY <1>1, <1>2 DEF Handed, Call, Drop
<1>3. CASE DatabricksAnswers \/ CancelRequests \/ Tick \/ ClockSet \/ UNCHANGED cacheVars
    BY <1>1, <1>3 DEF Handed, DatabricksAnswers, CancelRequests, Tick, ClockSet, cacheVars
<1>4. ASSUME NEW q \in Reads, Inspect(q)
      PROVE  Inspect(r) /\ ~cache.failed /\ IsFresh
    BY <1>1, <1>4 DEF Handed, Inspect, Return
<1>5. ASSUME NEW q \in Reads, Refreshed(q)
      PROVE  Refreshed(r) /\ ~cache.failed /\ ~Replacement.failed
    BY <1>1, <1>5 DEF Handed, Refreshed, Return, CacheInv, RenewalInv
<1>. QED
    BY <1>2, <1>3, <1>4, <1>5 DEF CacheNext

\* A step that hands out credentials hands out valid ones.
LEMMA HandedValidStep ==
    ASSUME CacheInv, [CacheNext]_cacheVars, NEW r \in Reads, Handed(r)
    PROVE  Wall < cache'.expires /\ (cache'.skew = 0 => now < cache'.expires)
<1>1. now \in Nat /\ skew \in Int
    BY CacheAssumption DEF CacheInv, CacheTypeOK
<1>2. CASE Inspect(r) /\ ~cache.failed /\ IsFresh
    <2>1. cache \in Grants /\ cache' = cache
        BY <1>2, FailedCache DEF CacheInv, CacheTypeOK, Inspect
    <2>2. cache.expires \in Int /\ cache.refreshAt \in Int
        BY <2>1 DEF Grants
    <2>. QED
        BY <1>1, <1>2, <2>1, <2>2 DEF IsFresh, CacheInv, CachedInv
<1>3. CASE Refreshed(r) /\ ~cache.failed /\ ~Replacement.failed
    <2>1. /\ cache' = Replacement
          /\ Replacement \in Grants
          /\ Replacement.skew = skew
          /\ Replacement.expires > Wall
        BY <1>3, ReplacementFacts, FailedCache DEF Refreshed
    <2>2. cache'.expires \in Int
        BY <2>1 DEF Grants
    <2>. QED
        BY <1>1, <2>1, <2>2 DEF Wall
<1>. QED
    BY <1>2, <1>3, HandedBy

\* Credentials handed out are valid by the wall clock, and in truth if that
\* clock was right when they came (CachedTableCredentials::new, is_fresh).
THEOREM CredentialsValid == CacheSpec => HandedValid
<1>1. CacheInv /\ [CacheNext]_cacheVars =>
          [\A r \in Reads : Handed(r) =>
               /\ Wall < cache'.expires
               /\ cache'.skew = 0 => now < cache'.expires]_cacheVars
    BY HandedValidStep
<1>. QED
    BY <1>1, CacheInvariant, PTL DEF CacheSpec, HandedValid

\* A step from a failed cache launches nothing and hands nothing out.
LEMMA FailureFinalStep ==
    ASSUME CacheInv, [CacheNext]_cacheVars, cache.failed
    PROVE  /\ cache'.failed /\ answer' = NoAnswer
           /\ \A r \in Reads : ~Handed(r)
<1>1. answer = NoAnswer
    <2>1. answer.is = "none"
        BY DEF CacheInv, FailureRecoverable
    <2>2. answer \in [is : {"none", "asked", "error"}]
        BY <2>1 DEF CacheInv, CacheTypeOK
    <2>. QED
        BY <2>1, <2>2 DEF NoAnswer
<1>2. \A r \in Reads : read[r] # "refreshing"
    BY DEF CacheInv, RenewalInv
<1>3. cache' = cache /\ answer' = answer
    <2>1. ASSUME NEW r \in Reads, Call(r) \/ Inspect(r)
          PROVE  cache' = cache /\ answer' = answer
        BY <2>1 DEF Call, Inspect
    <2>2. ASSUME NEW r \in Reads, Refreshed(r)
          PROVE  FALSE
        BY <1>2, <2>2 DEF Refreshed
    <2>3. ASSUME NEW r \in Reads, Drop(r)
          PROVE  cache' = cache /\ answer' = answer
        BY <1>2, <2>3 DEF Drop
    <2>4. CASE DatabricksAnswers
        BY <1>1, <2>4 DEF DatabricksAnswers, NoAnswer
    <2>5. CASE CancelRequests \/ Tick \/ ClockSet \/ UNCHANGED cacheVars
        BY <2>5 DEF CancelRequests, Tick, ClockSet, cacheVars
    <2>. QED
        BY <2>1, <2>2, <2>3, <2>4, <2>5 DEF CacheNext
<1>. QED
    BY <1>1, <1>3, HandedBy

\* A failed renewal is the last: nothing is launched, handed out or replaced
\* afterwards (get_or_refresh).
THEOREM FailureIsFinal == CacheSpec => FailureFinal
<1>1. CacheInv /\ [CacheNext]_cacheVars =>
          [cache.failed => cache'.failed /\ answer' = NoAnswer
                           /\ \A r \in Reads : ~Handed(r)]_cacheVars
    BY FailureFinalStep
<1>. QED
    BY <1>1, CacheInvariant, PTL DEF CacheSpec, FailureFinal

\* No renewal is launched for a grant that has just arrived: the reads that
\* waited for it share it (the margin of CachedTableCredentials::new).
THEOREM RenewalsCoalesce == CacheSpec => Coalesced
<1>1. ASSUME CacheInv, [CacheNext]_cacheVars, NEW r \in Reads,
             read[r] = "queued", read'[r] = "refreshing"
      PROVE  <<cache.at, cache.skew>> # <<now, skew>>
    <2>1. read \in [Reads -> {"idle", "queued", "refreshing", "ok", "failed"}]
        BY <1>1 DEF CacheInv, CacheTypeOK
    <2>2. ~cache.failed /\ ~IsFresh
        <3>1. ASSUME NEW q \in Reads, Call(q) \/ Drop(q) \/ Refreshed(q)
              PROVE  FALSE
            BY <1>1, <2>1, <3>1 DEF Call, Drop, Refreshed, Return
        <3>2. CASE DatabricksAnswers \/ CancelRequests \/ Tick \/ ClockSet \/ UNCHANGED cacheVars
            BY <1>1, <2>1, <3>2 DEF DatabricksAnswers, CancelRequests, Tick, ClockSet, cacheVars
        <3>3. ASSUME NEW q \in Reads, Inspect(q)
              PROVE  ~cache.failed /\ ~IsFresh
            BY <1>1, <2>1, <3>3 DEF Inspect, Return
        <3>. QED
            BY <1>1, <3>1, <3>2, <3>3 DEF CacheNext
    <2>3. CASE now < cache.refreshAt
        BY <1>1, <2>2, <2>3 DEF IsFresh, CacheInv, CachedInv, Wall
    <2>4. CASE ~(now < cache.refreshAt)
        BY <1>1, <2>2, <2>4 DEF CacheInv, CachedInv
    <2>. QED
        BY <2>3, <2>4
<1>2. CacheInv /\ [CacheNext]_cacheVars =>
          [\A r \in Reads : read[r] = "queued" /\ read'[r] = "refreshing" =>
               <<cache.at, cache.skew>> # <<now, skew>>]_cacheVars
    BY <1>1
<1>. QED
    BY <1>2, CacheInvariant, PTL DEF CacheSpec, Coalesced

\* The grant in the cache is of the kind the clients were built for.
THEOREM CredentialKindKept == CacheSpec => []KindKept
<1>1. CacheInv => KindKept
    BY DEF CacheInv
<1>. QED
    BY <1>1, CacheInvariant, PTL

(* ---- a command that exports a table ------------------------------------- *)

\* The parts of CommandInv, for the leaves below.
USE DEF Stops, Files, Publishing, Complete, Unpublished

\* Every command starts in the invariant.
LEMMA InitCommandInv == Init => CommandInv
    BY DEF Init, CommandInv, TypeOK, WorkerInv, SupervisorInv, ManifestVouches,
           CleanBeforePublish, OneTerminalRecord

\* No step of the worker, of the supervisor or of the world leaves it.
LEMMA NextCommandInv == CommandInv /\ [Next]_vars => CommandInv'
<1>. SUFFICES ASSUME CommandInv, [Next]_vars
              PROVE  CommandInv'
    OBVIOUS
<1>. USE DEF CommandInv, TypeOK, WorkerInv, SupervisorInv, ManifestVouches,
             CleanBeforePublish, OneTerminalRecord, shared
<1>1. CASE Stage
    <2>1. TypeOK'
        BY <1>1 DEF Stage, Goto
    <2>2. WorkerInv'
        BY <1>1 DEF Stage, Goto
    <2>3. SupervisorInv'
        BY <1>1 DEF Stage, Goto
    <2>4. (ManifestVouches /\ CleanBeforePublish /\ OneTerminalRecord)'
        BY <1>1 DEF Stage, Goto
    <2>. QED
        BY <2>1, <2>2, <2>3, <2>4
<1>2. CASE Execute
    BY <1>2 DEF Execute, Goto
<1>3. CASE CancelPendingRequests
    BY <1>3 DEF CancelPendingRequests, Goto
<1>4. CASE RemoveSpill
    <2>1. TypeOK'
        BY <1>4 DEF RemoveSpill, Goto, End, AfterSpill
    <2>2. WorkerInv'
        BY <1>4 DEF RemoveSpill, Goto, End, AfterSpill
    <2>3. SupervisorInv'
        BY <1>4 DEF RemoveSpill, Goto, End, AfterSpill
    <2>4. (ManifestVouches /\ CleanBeforePublish /\ OneTerminalRecord)'
        BY <1>4 DEF RemoveSpill, Goto, End, AfterSpill
    <2>. QED
        BY <2>1, <2>2, <2>3, <2>4
<1>5. CASE StoreStarted
    BY <1>5 DEF StoreStarted, Goto
<1>6. CASE CheckResult
    <2>1. TypeOK'
        BY <1>6 DEF CheckResult, Goto, End
    <2>2. WorkerInv'
        BY <1>6 DEF CheckResult, Goto, End
    <2>3. SupervisorInv'
        BY <1>6 DEF CheckResult, Goto, End
    <2>4. (ManifestVouches /\ CleanBeforePublish /\ OneTerminalRecord)'
        BY <1>6 DEF CheckResult, Goto, End
    <2>. QED
        BY <2>1, <2>2, <2>3, <2>4
<1>7. CASE CheckManifest
    <2>1. TypeOK'
        BY <1>7 DEF CheckManifest, Goto, End
    <2>2. WorkerInv'
        BY <1>7 DEF CheckManifest, Goto, End
    <2>3. SupervisorInv'
        BY <1>7 DEF CheckManifest, Goto, End
    <2>4. (ManifestVouches /\ CleanBeforePublish /\ OneTerminalRecord)'
        BY <1>7 DEF CheckManifest, Goto, End
    <2>. QED
        BY <2>1, <2>2, <2>3, <2>4
<1>8. CASE WriteReceipt
    <2>1. TypeOK'
        <3>1. receipt' \in BOOLEAN
            BY <1>8 DEF WriteReceipt
        <3>. QED
            BY <1>8, <3>1 DEF WriteReceipt, Goto, End
    <2>2. WorkerInv'
        BY <1>8 DEF WriteReceipt, Goto, End
    <2>3. SupervisorInv'
        BY <1>8 DEF WriteReceipt, Goto, End
    <2>4. (ManifestVouches /\ CleanBeforePublish /\ OneTerminalRecord)'
        BY <1>8 DEF WriteReceipt, Goto, End
    <2>. QED
        BY <2>1, <2>2, <2>3, <2>4
<1>9. CASE Start
    BY <1>9 DEF Start, Goto
<1>10. CASE StartFails
    <2>1. TypeOK'
        <3>1. aborted' \in BOOLEAN
            BY <1>10 DEF StartFails
        <3>. QED
            BY <1>10, <3>1 DEF StartFails
    <2>2. WorkerInv'
        BY <1>10 DEF StartFails
    <2>3. SupervisorInv'
        BY <1>10 DEF StartFails
    <2>4. (ManifestVouches /\ CleanBeforePublish /\ OneTerminalRecord)'
        BY <1>10 DEF StartFails
    <2>. QED
        BY <2>1, <2>2, <2>3, <2>4
<1>11. CASE Interrupted
    BY <1>11 DEF Interrupted
<1>12. CASE WorkerFinished
    BY <1>12 DEF WorkerFinished
<1>13. CASE InterruptedRecording
    BY <1>13 DEF InterruptedRecording
<1>14. CASE WriteRecord
    BY <1>14 DEF WriteRecord
<1>15. CASE GraceEnds
    BY <1>15 DEF GraceEnds
<1>16. CASE Classify
    BY <1>16 DEF Classify
<1>17. CASE ReportFailure
    BY <1>17 DEF ReportFailure
<1>18. ASSUME NEW f \in Files, PersistNoClobber(f)
      PROVE  CommandInv'
    <2>1. CASE f = "result"
        BY <1>18, <2>1 DEF PersistNoClobber, Persist, AfterPersist, Goto, End
    <2>2. CASE f = "manifest"
        BY <1>18, <2>2 DEF PersistNoClobber, Persist, AfterPersist, Goto, End
    <2>. QED
        BY <2>1, <2>2
<1>19. ASSUME NEW s \in Stops, StopRequested(s)
      PROVE  CommandInv'
    BY <1>19 DEF StopRequested
<1>20. ASSUME NEW f \in Files, OtherProcessCreates(f)
      PROVE  CommandInv'
    BY <1>20 DEF OtherProcessCreates
<1>21. CASE UNCHANGED vars
    BY <1>21 DEF vars
<1>. QED
    BY <1>1, <1>2, <1>3, <1>4, <1>5, <1>6, <1>7, <1>8, <1>9, <1>10, <1>11, <1>12, <1>13, <1>14, <1>15, <1>16, <1>17, <1>18, <1>19, <1>20, <1>21
       DEF Next, Worker, Supervisor, Stopping

\* CommandInv holds of every state a command can reach: the parts below are
\* not inductive on their own, since what may be published depends on where
\* the worker is and on what the supervisor has already said.
THEOREM CommandInvariant == Spec => []CommandInv
    BY InitCommandInv, NextCommandInv, PTL DEF Spec

\* A command reported as plainly cancelled, timed out or failed has published
\* nothing and never does, however the worker's steps interleave with the
\* report (run_table_command, worker::run, publish).
THEOREM ReportIsTrue == Spec => []ReportTellsPublication
<1>1. CommandInv => ReportTellsPublication
    BY DEF CommandInv, TypeOK, WorkerInv, SupervisorInv, ReportTellsPublication
<1>. QED
    BY <1>1, CommandInvariant, PTL

\* Exit status 0 means result, manifest and receipt are there and the spill
\* files are not (run_table_command, worker::run).
THEOREM SuccessMeansComplete == Spec => []SuccessIsComplete
<1>1. CommandInv => SuccessIsComplete
    BY DEF CommandInv, WorkerInv, SupervisorInv, SuccessIsComplete
<1>. QED
    BY <1>1, CommandInvariant, PTL

\* A manifest is never published without its result, nor announced without
\* both (PendingArtifactPublication::publish).
THEOREM ManifestFollowsResult == Spec => []ManifestVouches
<1>1. CommandInv => ManifestVouches
    BY DEF CommandInv
<1>. QED
    BY <1>1, CommandInvariant, PTL

\* At most one terminal record is on stderr, and it tells the outcome, however
\* an interruption meets a completion record that is being written
\* (write_terminal_record_when_writable, report_failure_with_timeout).
THEOREM TerminalRecordIsTrue == Spec => []OneTerminalRecord
<1>1. CommandInv => OneTerminalRecord
    BY DEF CommandInv
<1>. QED
    BY <1>1, CommandInvariant, PTL

\* Nothing at a destination is ever replaced, whatever was there and whenever
\* it came (persist_noclobber in publish).
THEOREM DestinationsKept == Spec => NeverReplaced
<1>1. CommandInv /\ [Next]_vars => [\A f \in Files : file[f] # "absent" => file'[f] = file[f]]_vars
    <2>. SUFFICES ASSUME CommandInv, Next, NEW f \in Files, file[f] # "absent"
                  PROVE  file'[f] = file[f]
        BY DEF vars
    <2>1. file \in [Files -> {"absent", "ours", "foreign"}]
        BY DEF CommandInv, TypeOK
    <2>2. CASE Worker
        <3>1. CASE UNCHANGED file
            BY <3>1
        <3>2. ASSUME NEW g \in Files, PersistNoClobber(g)
              PROVE  file'[f] = file[f]
            BY <2>1, <3>2 DEF PersistNoClobber, Persist
        <3>. QED
            BY <2>2, <3>1, <3>2
               DEF Worker, Stage, Execute, CancelPendingRequests, RemoveSpill, StoreStarted,
                   CheckResult, CheckManifest, WriteReceipt
    <2>3. CASE Supervisor
        BY <2>3 DEF Supervisor, Stopping, Start, StartFails, Interrupted, WorkerFinished,
                    InterruptedRecording, WriteRecord, GraceEnds, Classify, ReportFailure
    <2>4. ASSUME NEW s \in Stops, StopRequested(s)
          PROVE  file'[f] = file[f]
        BY <2>4 DEF StopRequested
    <2>5. ASSUME NEW g \in Files, OtherProcessCreates(g)
          PROVE  file'[f] = file[f]
        BY <2>1, <2>5 DEF OtherProcessCreates
    <2>. QED
        BY <2>2, <2>3, <2>4, <2>5 DEF Next
<1>. QED
    BY <1>1, CommandInvariant, PTL DEF Spec, NeverReplaced
=============================================================================
