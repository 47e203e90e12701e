---------------------------- MODULE ReadActivity ----------------------------
(***************************************************************************)
(* ReadActivity and ActiveRead of network_profile.rs: how the readers of   *)
(* one object store find out whether a timing was taken without company.   *)
(* Every read that moves payload bytes takes an ActiveRead at its start    *)
(* and drops it at its end; a profile built by a warmup shares the counter *)
(* with the profile it replaces.  This is what the transport measurements  *)
(* rely on; RangeReads.tla are the reads themselves.                       *)
(***************************************************************************)
EXTENDS Integers, FiniteSets

CONSTANT Reads      \* payload reads of the store: range plans, plain GETs, kernel reads

ASSUME ReadsFinite == IsFiniteSet(Reads)

VARIABLES
    activeReads,    \* ReadActivity::active_reads
    readEpoch,      \* ReadActivity::read_epoch; 2^64 reads never start during one read
    isolatedEpoch,  \* isolatedEpoch[r]: ActiveRead::isolated_epoch, 0 for None
    sampled,        \* sampled[r]: what can_sample answered r, FALSE before
    holders,        \* reads that hold an ActiveRead
    live,           \* reads that are moving bytes (a history variable)
    met             \* reads that were live together with another (a history variable)

activityVars == <<activeReads, readEpoch, isolatedEpoch, sampled, holders, live, met>>

ActivityTypeOK ==
    /\ activeReads \in Nat
    /\ readEpoch \in Nat
    /\ isolatedEpoch \in [Reads -> Nat]
    /\ sampled \in [Reads -> BOOLEAN]
    /\ holders \subseteq Reads
    /\ live \subseteq holders
    /\ met \subseteq Reads

ActivityInit ==
    /\ activeReads = 0
    /\ readEpoch = 0
    /\ isolatedEpoch = [r \in Reads |-> 0]
    /\ sampled = [r \in Reads |-> FALSE]
    /\ holders = {}
    /\ live = {}
    /\ met = {}

\* A read that begins while others move bytes meets them, and they it.
BeginLive(r) ==
    /\ holders' = holders \cup {r}
    /\ live' = live \cup {r}
    /\ met' = IF live = {} THEN met ELSE met \cup live \cup {r}
    /\ UNCHANGED sampled

StartReadSameEpoch(r) ==
    /\ r \notin holders
    /\ readEpoch' = IF activeReads = 0 THEN readEpoch + 1 ELSE readEpoch
    /\ isolatedEpoch' = [isolatedEpoch EXCEPT ![r] = IF activeReads = 0 THEN readEpoch' ELSE 0]
    /\ activeReads' = activeReads + 1
    /\ BeginLive(r)

\* start_read: every start changes the epoch, and only a read that starts alone
\* remembers it.
StartRead(r) ==
    /\ r \notin holders
    /\ readEpoch' = readEpoch + 1
    /\ isolatedEpoch' = [isolatedEpoch EXCEPT ![r] = IF activeReads = 0 THEN readEpoch' ELSE 0]
    /\ activeReads' = activeReads + 1
    /\ BeginLive(r)

\* can_sample: nobody has started since, and nobody was there before.
CanSample(r) == isolatedEpoch[r] = readEpoch

\* record_range_plan asks when all bytes have arrived, still holding the ActiveRead.
JudgeRead(r, answer) ==
    /\ r \in live
    /\ sampled' = [sampled EXCEPT ![r] = answer]
    /\ live' = live \ {r}
    /\ UNCHANGED <<activeReads, readEpoch, isolatedEpoch, holders, met>>

\* Drop for ActiveRead; the history forgets the read with it.
EndRead(r) ==
    /\ r \in holders
    /\ activeReads' = activeReads - 1
    /\ holders' = holders \ {r}
    /\ live' = live \ {r}
    /\ met' = met \ {r}
    /\ sampled' = [sampled EXCEPT ![r] = FALSE]
    /\ isolatedEpoch' = [isolatedEpoch EXCEPT ![r] = 0]
    /\ UNCHANGED readEpoch

ActivityNext ==
    \E r \in Reads :
      \/ StartRead(r)
      \/ \E answer \in BOOLEAN : (answer => CanSample(r)) /\ JudgeRead(r, answer)
      \/ EndRead(r)

ActivitySpec == ActivityInit /\ [][ActivityNext]_activityVars

\* A timing that can_sample accepts was taken alone: no other read of the store
\* moved a byte while it was measured, not even one that began and ended meanwhile.
SamplesIsolated == \A r \in Reads : sampled[r] => r \notin met

\* The inductive invariant behind it: the counter counts the holders, only a
\* read that started alone and was the last to start carries the current epoch,
\* and such a read has met nobody.
ActivityInv ==
    /\ ActivityTypeOK
    /\ IsFiniteSet(holders) /\ activeReads = Cardinality(holders)
    /\ holders # {} => readEpoch > 0
    /\ met \subseteq holders
    /\ \A r \in Reads :
         /\ isolatedEpoch[r] <= readEpoch
         /\ r \in holders /\ CanSample(r) => r \notin met
         /\ sampled[r] => r \in holders /\ r \notin live /\ r \notin met
=============================================================================
