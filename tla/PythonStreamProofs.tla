------------------------- MODULE PythonStreamProofs -------------------------
(***************************************************************************)
(* Proofs about the Python stream: its types, who owns the exported reader *)
(* and when it is destroyed (OwnerInv), and that a failed stream is never  *)
(* mistaken for an exhausted one (PullInv), for any number of threads,     *)
(* batches, calls and handlers.                                            *)
(***************************************************************************)
EXTENDS PythonStream, FiniteSetTheorems, TLAPS

-----------------------------------------------------------------------------
(* Types.                                                                  *)

\* What a call does at its entry, to the exporter and to the catalog keeps
\* the types.
LEMMA EntryTypes ==
    ASSUME PSTypeOK, NEW t \in Threads,
           \/ BeginExport(t) \/ BeginClose(t) \/ BeginRegister(t) \/ BeginRelease(t)
           \/ BeginCall(t, "cloned") \/ BeginCall(t, "peek")
           \/ Export(t) \/ CloseTake(t) \/ CloseReturn(t) \/ Detach(t) \/ LockCatalog(t)
           \/ Registered(t) \/ RegisterReturn(t)
    PROVE  PSTypeOK'
<1> USE StreamAssumption DEF PSTypeOK, locks, reader, owned, events, Points, HoldingPoints,
        InsidePoints, Go, Enter, TakeGil, DropGil
<1>1. CASE BeginExport(t)
  BY <1>1 DEF BeginExport
<1>2. CASE BeginClose(t)
  BY <1>2 DEF BeginClose
<1>3. CASE BeginRegister(t)
  BY <1>3 DEF BeginRegister
<1>4. CASE BeginRelease(t)
  BY <1>4 DEF BeginRelease
<1>5. CASE BeginCall(t, "cloned")
  <2>1. pc' \in [Threads -> Points] /\ calls' \in 0..MaxCalls
    BY <1>5 DEF BeginCall
  <2>2. owners' \subseteq Threads \cup {Exported}
    BY <1>5 DEF BeginCall, CloneOwner
  <2> QED
    BY <1>5, <2>1, <2>2 DEF BeginCall
<1>6. CASE BeginCall(t, "peek")
  <2>1. pc' \in [Threads -> Points] /\ calls' \in 0..MaxCalls
    BY <1>6 DEF BeginCall
  <2>2. owners' \subseteq Threads \cup {Exported}
    BY <1>6 DEF BeginCall, CloneOwner
  <2> QED
    BY <1>6, <2>1, <2>2 DEF BeginCall
<1>7. CASE Export(t)
  <2>1. slot' \in BOOLEAN /\ pointer' \in {"unset", "owner", "null"}
    BY <1>7 DEF Export
  <2>2. owners' \subseteq Threads \cup {Exported}
    BY <1>7 DEF Export
  <2>3. gil' \in Threads \cup {Nobody} /\ pc' \in [Threads -> Points]
    BY <1>7 DEF Export
  <2>4. UNCHANGED <<native, catalog, reader, destroyed, events, source, replies, result,
                    handler, calls, handled>>
    BY <1>7 DEF Export
  <2> HIDE DEF Points, HoldingPoints, InsidePoints
  <2> QED
    BY <2>1, <2>2, <2>3, <2>4
<1>8. CASE CloseTake(t)
  <2>1. destroyed' \in Nat /\ slot' = FALSE
    BY <1>8 DEF CloseTake
  <2>2. gil' \in Threads \cup {Nobody} /\ pc' \in [Threads -> Points]
    BY <1>8 DEF CloseTake
  <2> HIDE DEF Points, HoldingPoints, InsidePoints
  <2> QED
    BY <1>8, <2>1, <2>2 DEF CloseTake
<1>9. CASE CloseReturn(t)
  BY <1>9 DEF CloseReturn
<1>10. CASE Detach(t)
  <2>1. signal' \in {"none", "pending", "seen"}
    BY <1>10 DEF Detach, SignalSeen
  <2>2. gil' \in Threads \cup {Nobody} /\ pc' \in [Threads -> Points]
    BY <1>10 DEF Detach
  <2>3. UNCHANGED <<native, catalog, reader, owned, interrupted, source, replies, result,
                    handler, calls, handled>>
    BY <1>10 DEF Detach
  <2> HIDE DEF Points, HoldingPoints, InsidePoints
  <2> QED
    BY <2>1, <2>2, <2>3
<1>11. CASE LockCatalog(t)
  BY <1>11 DEF LockCatalog
<1>12. CASE Registered(t)
  BY <1>12 DEF Registered
<1>13. CASE RegisterReturn(t)
  BY <1>13 DEF RegisterReturn, SignalSeen
<1> QED
  BY <1>1, <1>2, <1>3, <1>4, <1>5, <1>6, <1>7, <1>8, <1>9, <1>10, <1>11, <1>12, <1>13

\* The callbacks of the exported structure keep the types.
LEMMA CallbackTypes ==
    ASSUME PSTypeOK, NEW t \in Threads,
           \/ TryLock(t) \/ BeginNext(t) \/ Attach(t) \/ FirstCheck(t) \/ Slice(t)
           \/ Reattach(t) \/ SliceEnd(t) \/ Unlock(t) \/ CallReturn(t)
           \/ Release(t) \/ Destroyed(t)
    PROVE  PSTypeOK'
<1> USE StreamAssumption DEF PSTypeOK, locks, reader, owned, events, Points, HoldingPoints,
        InsidePoints, Results, Go, TakeGil, DropGil
<1>1. CASE TryLock(t)
  BY <1>1 DEF TryLock
<1>2. CASE BeginNext(t)
  <2>1. CASE \E reply \in {"end", "error"} : Answer(t, "inside", reply)
    <3>1. replies' \in Seq({"batch", "end", "error"})
      BY <2>1 DEF Answer
    <3>2. result' \in [Threads -> Results] /\ pc' \in [Threads -> Points]
      BY <2>1 DEF Answer
    <3> QED
      BY <1>2, <3>1, <3>2 DEF BeginNext
  <2>2. CASE Go(t, "inside", "attach") /\ UNCHANGED <<replies, result>>
    BY <1>2, <2>2 DEF BeginNext
  <2> QED
    BY <1>2, <2>1, <2>2 DEF BeginNext
<1>3. CASE Attach(t)
  BY <1>3 DEF Attach
<1>4. CASE FirstCheck(t)
  <2>1. CASE Finish(t, "attached", "error") /\ signal' = SignalSeen(t)
    <3>1. replies' \in Seq({"batch", "end", "error"})
      BY <2>1 DEF Finish, Answer
    <3>2. result' \in [Threads -> Results] /\ pc' \in [Threads -> Points]
      BY <2>1 DEF Finish, Answer
    <3>3. /\ gil' = Nobody /\ stream' = "none" /\ dispatch' = FALSE /\ terminal' = TRUE
          /\ signal' \in {"none", "pending", "seen"}
      BY <2>1 DEF Finish, SignalSeen
    <3> QED
      BY <1>4, <3>1, <3>2, <3>3, ZenonT(30) DEF FirstCheck
  <2>2. CASE /\ Go(t, "attached", "polling") /\ DropGil(t) /\ dispatch' = TRUE
             /\ UNCHANGED <<stream, terminal, replies, result, signal>>
    BY <1>4, <2>2 DEF FirstCheck
  <2> QED
    BY <1>4, <2>1, <2>2 DEF FirstCheck
<1>5. CASE Slice(t)
  <2>1. PICK r \in {"pending", "batch", "end", "error"} :
          /\ r = "batch" => source.left > 0
          /\ result' = [result EXCEPT ![t] = r]
          /\ source' = [source EXCEPT !.left = IF r = "batch" THEN @ - 1 ELSE @]
    BY <1>5 DEF Slice
  <2>2. source' \in [left : 0..BatchCount, fails : BOOLEAN, stalls : BOOLEAN]
    BY <2>1
  <2> QED
    BY <1>5, <2>1, <2>2 DEF Slice
<1>6. CASE Reattach(t)
  BY <1>6 DEF Reattach
<1>7. CASE SliceEnd(t)
  <2>1. CASE \E reply \in {"batch", "end", "error"} : Answer(t, "reattached", reply)
    <3>1. replies' \in Seq({"batch", "end", "error"})
      BY <2>1 DEF Answer
    <3>2. result' \in [Threads -> Results] /\ pc' \in [Threads -> Points]
      BY <2>1 DEF Answer
    <3>3. /\ gil' = Nobody /\ stream' \in {"open", "none"}
          /\ dispatch' \in BOOLEAN /\ terminal' \in BOOLEAN
      BY <1>7 DEF SliceEnd, Finish
    <3>4. signal' \in {"none", "pending", "seen"}
      BY <1>7 DEF SliceEnd, SignalSeen
    <3> QED
      BY <1>7, <3>1, <3>2, <3>3, <3>4 DEF SliceEnd
  <2>2. CASE /\ Go(t, "reattached", "polling") /\ DropGil(t)
             /\ UNCHANGED <<reader, replies, result, signal>>
    BY <1>7, <2>2 DEF SliceEnd
  <2> QED
    BY <1>7, <2>1, <2>2 DEF SliceEnd, Finish
<1>8. CASE Unlock(t)
  BY <1>8 DEF Unlock
<1>9. CASE CallReturn(t)
  BY <1>9 DEF CallReturn, DropOwner
<1>10. CASE Release(t)
  BY <1>10 DEF Release, DropOwner
<1>11. CASE Destroyed(t)
  BY <1>11 DEF Destroyed
<1> QED
  BY <1>1, <1>2, <1>3, <1>4, <1>5, <1>6, <1>7, <1>8, <1>9, <1>10, <1>11

\* Handlers, a recovering source and a signal keep the types.
LEMMA EventTypes ==
    ASSUME PSTypeOK,
           \/ \E t \in Threads : Emit(t) \/ HandlerStep(t) \/ HandlerSwitch(t)
                                 \/ HandlerRelease(t)
           \/ Recover \/ Signal
    PROVE  PSTypeOK'
<1> USE StreamAssumption DEF PSTypeOK, locks, reader, owned, events, Points, AtHandler, DropGil
<1>1. ASSUME NEW t \in Threads, Emit(t) PROVE PSTypeOK'
  BY <1>1 DEF Emit
<1>2. ASSUME NEW t \in Threads, HandlerAttach(t) PROVE PSTypeOK'
  BY <1>2 DEF HandlerAttach
<1>3. ASSUME NEW t \in Threads, HandlerReturn(t) PROVE PSTypeOK'
  <2>1. gil' \in Threads \cup {Nobody} /\ interrupted' \in BOOLEAN
    BY <1>3 DEF HandlerReturn
  <2>2. handler' \in [Threads -> {"none", "want", "running", "switched", "last"}]
    BY <1>3 DEF HandlerReturn
  <2> QED
    BY <1>3, <2>1, <2>2 DEF HandlerReturn
<1>4. ASSUME NEW t \in Threads, HandlerSwitch(t) PROVE PSTypeOK'
  BY <1>4 DEF HandlerSwitch
<1>5. ASSUME NEW t \in Threads, HandlerRelease(t) PROVE PSTypeOK'
  BY <1>5 DEF HandlerRelease, DropOwner
<1>6. CASE Recover
  BY <1>6 DEF Recover
<1>7. CASE Signal
  BY <1>7 DEF Signal
<1> QED
  BY <1>1, <1>2, <1>3, <1>4, <1>5, <1>6, <1>7 DEF HandlerStep

\* Every step keeps the types.
LEMMA StepTypes ==
    ASSUME PSTypeOK, [PSNext]_psVars
    PROVE  PSTypeOK'
<1>1. CASE \E t \in Threads : Start(t) \/ Step(t)
  BY <1>1, EntryTypes, CallbackTypes DEF Start, Step
<1>2. CASE UNCHANGED psVars
  BY <1>2 DEF psVars, locks, reader, owned, events, PSTypeOK
<1> QED
  BY <1>1, <1>2, EventTypes DEF PSNext

LEMMA InitTypes ==
    ASSUME PSInit
    PROVE  PSTypeOK
<1>1. source \in [left : 0..BatchCount, fails : BOOLEAN, stalls : BOOLEAN]
  BY StreamAssumption DEF PSInit
<1>2. replies \in Seq({"batch", "end", "error"})
  BY DEF PSInit
<1>3. /\ pc \in [Threads -> Points] /\ result \in [Threads -> Results]
      /\ handler \in [Threads -> {"none", "want", "running", "switched", "last"}]
  BY DEF PSInit, Points, Results
<1>4. calls \in 0..MaxCalls /\ handled \in 0..MaxHandlers
  BY StreamAssumption DEF PSInit
<1> QED
  BY <1>1, <1>2, <1>3, <1>4 DEF PSInit, PSTypeOK

\* The state of the Python stream keeps its types: only threads hold locks and
\* references, and no counter leaves its range.
THEOREM PythonStreamTypes == PSSpec => []PSTypeOK
<1>1. PSInit => PSTypeOK
  BY InitTypes
<1>2. PSTypeOK /\ [PSNext]_psVars => PSTypeOK'
  BY StepTypes
<1> QED
  BY <1>1, <1>2, PTL DEF PSSpec

-----------------------------------------------------------------------------
(* Who owns the reader.                                                    *)

\* A step that leaves the references alone and neither enters nor leaves a
\* callback or a release keeps OwnerInv.
LEMMA OwnersAside ==
    ASSUME OwnerInv, UNCHANGED owned,
           \A u \in Threads : /\ pc'[u] \in CallPoints <=> pc[u] \in CallPoints
                              /\ pc'[u] = "released" <=> pc[u] = "released"
    PROVE  OwnerInv'
  BY DEF OwnerInv, owned

\* The steps of a call that leave the references alone.
LEMMA CallLeavesOwners ==
    ASSUME PSTypeOK, OwnerInv, NEW t \in Threads,
           \/ BeginExport(t) \/ BeginClose(t) \/ BeginRegister(t)
           \/ CloseReturn(t) \/ Detach(t) \/ LockCatalog(t) \/ Registered(t)
           \/ RegisterReturn(t) \/ TryLock(t) \/ BeginNext(t) \/ Attach(t) \/ FirstCheck(t)
           \/ Slice(t) \/ Reattach(t) \/ SliceEnd(t) \/ Unlock(t) \/ Destroyed(t)
    PROVE  OwnerInv'
<1>1. UNCHANGED owned
  BY DEF BeginExport, BeginClose, BeginRegister, CloseReturn, Detach, LockCatalog, Registered,
         RegisterReturn, TryLock, BeginNext, Attach, FirstCheck, Slice, Reattach, SliceEnd,
         Unlock, Destroyed
<1>2. \E from, to \in Points :
         /\ Go(t, from, to)
         /\ from \in CallPoints <=> to \in CallPoints
         /\ from # "released" /\ to # "released"
  <2> USE DEF Points, CallPoints, HoldingPoints, InsidePoints
  <2>1. CASE BeginExport(t) \/ BeginClose(t) \/ BeginRegister(t)
    BY <2>1 DEF BeginExport, BeginClose, BeginRegister, Enter
  <2>2. CASE CloseReturn(t) \/ Detach(t) \/ LockCatalog(t) \/ Registered(t) \/ RegisterReturn(t)
    BY <2>2 DEF CloseReturn, Detach, LockCatalog, Registered, RegisterReturn
  <2>3. CASE TryLock(t) \/ BeginNext(t) \/ Attach(t)
    BY <2>3 DEF TryLock, BeginNext, Answer, Attach
  <2>4. CASE FirstCheck(t) \/ Slice(t) \/ Reattach(t)
    BY <2>4 DEF FirstCheck, Finish, Answer, Slice, Reattach
  <2>5. CASE SliceEnd(t) \/ Unlock(t) \/ Destroyed(t)
    BY <2>5 DEF SliceEnd, Finish, Answer, Unlock, Destroyed
  <2> QED
    BY <2>1, <2>2, <2>3, <2>4, <2>5
<1>3. \A u \in Threads : /\ pc'[u] \in CallPoints <=> pc[u] \in CallPoints
                         /\ pc'[u] = "released" <=> pc[u] = "released"
  BY <1>2 DEF Go, PSTypeOK
<1> QED
  BY <1>1, <1>3, OwnersAside

\* The steps that hand the reader over, or add or drop a reference.
LEMMA CallMovesOwners ==
    ASSUME PSTypeOK, OwnerInv, NEW t \in Threads,
           \/ Export(t) \/ CloseTake(t) \/ BeginRelease(t) \/ BeginCall(t, "cloned")
           \/ BeginCall(t, "peek") \/ CallReturn(t) \/ Release(t) \/ HandlerRelease(t)
    PROVE  OwnerInv'
<1> USE StreamAssumption DEF PSTypeOK, OwnerInv, CallPoints, InsidePoints, Go, Enter, Threads
<1>1. CASE Export(t)
  BY <1>1 DEF Export
<1>2. CASE CloseTake(t)
  BY <1>2 DEF CloseTake
<1>3. CASE BeginRelease(t)
  BY <1>3 DEF BeginRelease
<1>4. CASE BeginCall(t, "cloned")
  BY <1>4 DEF BeginCall, CloneOwner
<1>5. CASE BeginCall(t, "peek")
  BY <1>5 DEF BeginCall, CloneOwner
<1>6. CASE CallReturn(t)
  BY <1>6 DEF CallReturn, DropOwner
<1>7. CASE Release(t)
  BY <1>7 DEF Release, DropOwner
<1>8. CASE HandlerRelease(t)
  BY <1>8 DEF HandlerRelease, DropOwner
<1> QED
  BY <1>1, <1>2, <1>3, <1>4, <1>5, <1>6, <1>7, <1>8

\* Every step keeps OwnerInv.
LEMMA StepOwners ==
    ASSUME PSTypeOK, OwnerInv, [PSNext]_psVars
    PROVE  OwnerInv'
<1>1. ASSUME NEW t \in Threads, Start(t) \/ Step(t) \/ HandlerRelease(t)
      PROVE  OwnerInv'
  BY <1>1, CallLeavesOwners, CallMovesOwners DEF Start, Step
<1>2. ASSUME NEW t \in Threads, Emit(t) \/ HandlerStep(t) \/ HandlerSwitch(t)
      PROVE  OwnerInv'
  <2>1. UNCHANGED <<owned, pc>>
    BY <1>2 DEF Emit, HandlerStep, HandlerAttach, HandlerReturn, HandlerSwitch
  <2> QED
    BY <2>1, OwnersAside
<1>3. CASE Recover \/ Signal \/ UNCHANGED psVars
  <2>1. UNCHANGED <<owned, pc>>
    BY <1>3 DEF Recover, Signal, psVars
  <2> QED
    BY <2>1, OwnersAside
<1> QED
  BY <1>1, <1>2, <1>3 DEF PSNext

\* Exports, closes, releases from any thread or from a handler and running
\* callbacks may interleave in any way: the reader is destroyed at most once,
\* never under a callback or behind the slot, and a released stream has been
\* destroyed by the time its calls are over.
THEOREM ReaderIsDestroyedOnce == PSSpec => []ReaderDestroyedOnce
<1>1. PSInit => OwnerInv
  BY StreamAssumption DEF PSInit, OwnerInv, CallPoints, InsidePoints, Threads
<1>2. PSTypeOK /\ OwnerInv /\ [PSNext]_psVars => OwnerInv'
  BY StepOwners
<1>3. PSTypeOK /\ OwnerInv => ReaderDestroyedOnce
  <2> SUFFICES ASSUME PSTypeOK, OwnerInv
               PROVE  ReaderDestroyedOnce
    OBVIOUS
  <2> USE DEF OwnerInv, PSTypeOK
  <2>1. destroyed <= 1
    OBVIOUS
  <2>2. slot \/ (\E t \in Threads : pc[t] \in InsidePoints) => destroyed = 0
    BY DEF CallPoints
  <2>3. ASSUME pointer = "null", \A t \in Threads : ~Busy(t)
        PROVE  destroyed = 1
    <3>1. \A t \in Threads : pc[t] = "idle"
      BY <2>3 DEF Busy
    <3>2. owners = {}
      BY <2>3, <3>1 DEF CallPoints, InsidePoints
    <3> QED
      BY <2>3, <3>2
  <2> QED
    BY <2>1, <2>2, <2>3 DEF ReaderDestroyedOnce
<1> QED
  BY <1>1, <1>2, <1>3, PythonStreamTypes, PTL DEF PSSpec

-----------------------------------------------------------------------------
(* What the pulls of a stream answer.                                      *)

\* One more reply: what was delivered grows by one batch or not at all.
LEMMA ReplyCounted ==
    ASSUME PSTypeOK, NEW reply \in {"batch", "end", "error"},
           replies' = Append(replies, reply)
    PROVE  /\ IsFiniteSet(Delivered) /\ Cardinality(Delivered) \in Nat
           /\ Cardinality(Delivered') =
                 Cardinality(Delivered) + (IF reply = "batch" THEN 1 ELSE 0)
           /\ \A i \in 1..Len(replies) :
                 {j \in 1..i : replies'[j] = "batch"} = {j \in 1..i : replies[j] = "batch"}
<1> USE DEF PSTypeOK
<1>1. IsFiniteSet(Delivered) /\ Cardinality(Delivered) \in Nat
  <2>1. Len(replies) \in Nat
    OBVIOUS
  <2>2. IsFiniteSet(1..Len(replies))
    BY <2>1, FS_Interval
  <2>3. Delivered \subseteq 1..Len(replies)
    BY DEF Delivered
  <2>4. IsFiniteSet(Delivered)
    BY <2>2, <2>3, FS_Subset
  <2> QED
    BY <2>4, FS_CardinalityType
<1>2. /\ Len(replies') = Len(replies) + 1 /\ Len(replies) \in Nat
      /\ replies'[Len(replies) + 1] = reply
      /\ \A j \in 1..Len(replies) : replies'[j] = replies[j]
  OBVIOUS
<1>3. CASE reply = "batch"
  <2>1. Delivered' = Delivered \cup {Len(replies) + 1}
    BY <1>2, <1>3 DEF Delivered
  <2>2. Len(replies) + 1 \notin Delivered
    BY <1>2 DEF Delivered
  <2>3. Cardinality(Delivered \cup {Len(replies) + 1}) = Cardinality(Delivered) + 1
    BY <1>1, <2>2, FS_AddElement
  <2> QED
    BY <1>1, <1>2, <1>3, <2>1, <2>3
<1>4. CASE reply # "batch"
  <2>1. Delivered' = Delivered
    BY <1>2, <1>4 DEF Delivered
  <2> QED
    BY <1>1, <1>2, <1>4, <2>1
<1> QED
  BY <1>3, <1>4

\* A reply that keeps the failures at the end of the replies, and reports the
\* end only when all batches were delivered, keeps FailureNeverLooksLikeEnd.
LEMMA ReplyInOrder ==
    ASSUME PSTypeOK, FailureNeverLooksLikeEnd, NEW reply \in {"batch", "end", "error"},
           replies' = Append(replies, reply), source'.fails = source.fails,
           reply # "error" => \A i \in 1..Len(replies) : replies[i] # "error",
           reply = "end" => ~source.fails /\ Cardinality(Delivered) = BatchCount
    PROVE  FailureNeverLooksLikeEnd'
<1>1. /\ Len(replies') = Len(replies) + 1 /\ Len(replies) \in Nat
      /\ DOMAIN replies' = 1..(Len(replies) + 1) /\ DOMAIN replies = 1..Len(replies)
      /\ replies'[Len(replies) + 1] = reply
      /\ \A j \in 1..Len(replies) : replies'[j] = replies[j]
  BY DEF PSTypeOK
<1>2. \A i \in DOMAIN replies' :
         replies'[i] = "error" => \A j \in i..Len(replies') : replies'[j] = "error"
  <2> SUFFICES ASSUME NEW i \in 1..(Len(replies) + 1), replies'[i] = "error",
                      NEW j \in i..(Len(replies) + 1)
               PROVE  replies'[j] = "error"
    BY <1>1
  <2>1. CASE i = Len(replies) + 1
    BY <1>1, <2>1
  <2>2. CASE i \in 1..Len(replies)
    <3>1. replies[i] = "error" /\ reply = "error"
      BY <1>1, <2>2
    <3>2. \A k \in i..Len(replies) : replies[k] = "error"
      BY <1>1, <2>2, <3>1 DEF FailureNeverLooksLikeEnd
    <3>3. j = Len(replies) + 1 \/ (j \in i..Len(replies) /\ j \in 1..Len(replies))
      BY <1>1, <2>2
    <3> QED
      BY <1>1, <3>1, <3>2, <3>3
  <2> QED
    BY <1>1, <2>1, <2>2
<1>3. ASSUME NEW i \in DOMAIN replies', replies'[i] = "end"
      PROVE  ~source.fails /\ Cardinality({j \in 1..i : replies'[j] = "batch"}) = BatchCount
  <2>1. CASE i = Len(replies) + 1
    <3>1. reply = "end"
      BY <1>1, <1>3, <2>1
    <3>2. {j \in 1..i : replies'[j] = "batch"} = Delivered'
      BY <1>1, <2>1 DEF Delivered
    <3>3. Cardinality(Delivered') = Cardinality(Delivered) + 0 /\ Cardinality(Delivered) \in Nat
      BY <3>1, ReplyCounted
    <3>4. ~source.fails /\ Cardinality(Delivered') = BatchCount
      BY <3>1, <3>3
    <3> QED
      BY <3>2, <3>4, Zenon
  <2>2. CASE i \in 1..Len(replies)
    <3>1. {j \in 1..i : replies'[j] = "batch"} = {j \in 1..i : replies[j] = "batch"}
      BY <2>2, ReplyCounted
    <3>2. replies[i] = "end" /\ i \in DOMAIN replies
      BY <1>1, <1>3, <2>2
    <3> QED
      BY <3>1, <3>2 DEF FailureNeverLooksLikeEnd
  <2>3. i = Len(replies) + 1 \/ i \in 1..Len(replies)
    BY <1>1
  <2> QED
    BY <2>1, <2>2, <2>3, Zenon
<1> QED
  BY <1>2, <1>3 DEF FailureNeverLooksLikeEnd

\* A step that leaves the native stream's mutex, the reader and the replies
\* alone keeps PullInv.
LEMMA PullsAside ==
    ASSUME PullInv, UNCHANGED <<native, stream, terminal, replies, result>>,
           source'.left = source.left, source'.fails = source.fails,
           \A u \in Threads : pc'[u] = pc[u] \/ {pc[u], pc'[u]} \cap InsidePoints = {}
    PROVE  PullInv'
<1>1. \A u \in Threads :
         /\ pc'[u] \in InsidePoints <=> pc[u] \in InsidePoints
         /\ pc'[u] \in PullPoints <=> pc[u] \in PullPoints
         /\ pc'[u] \in {"reattach", "reattached"} <=> pc[u] \in {"reattach", "reattached"}
  BY DEF InsidePoints, PullPoints
<1>2. InFlight' <=> InFlight
  BY <1>1 DEF InFlight
<1>3. Delivered' = Delivered
  BY DEF Delivered
<1>4. FailureNeverLooksLikeEnd'
  BY DEF PullInv, FailureNeverLooksLikeEnd
<1> QED
  BY <1>1, <1>2, <1>3, <1>4 DEF PullInv

\* The calls that do not reach the native stream, and what happens outside it.
LEMMA OutsideKeepsPulls ==
    ASSUME PSTypeOK, PullInv, NEW t \in Threads,
           \/ Start(t) \/ Export(t) \/ CloseTake(t) \/ CloseReturn(t) \/ Detach(t)
           \/ LockCatalog(t) \/ Registered(t) \/ RegisterReturn(t) \/ CallReturn(t)
           \/ Release(t) \/ Destroyed(t)
    PROVE  PullInv'
<1>1. UNCHANGED <<native, stream, terminal, replies, result, source>>
  <2> USE DEF locks, reader
  <2>1. CASE Start(t)
    BY <2>1 DEF Start, BeginExport, BeginClose, BeginRegister, BeginRelease, BeginCall
  <2> QED
    BY <2>1 DEF Export, CloseTake, CloseReturn, Detach, LockCatalog, Registered,
                RegisterReturn, CallReturn, Release, Destroyed
<1>2. \E from, to \in Points : Go(t, from, to) /\ {from, to} \cap InsidePoints = {}
  <2> USE DEF Points, HoldingPoints, InsidePoints
  <2>1. CASE BeginExport(t) \/ BeginClose(t) \/ BeginRegister(t) \/ BeginRelease(t)
    BY <2>1 DEF BeginExport, BeginClose, BeginRegister, BeginRelease, Enter
  <2>2. CASE BeginCall(t, "cloned") \/ BeginCall(t, "peek")
    BY <2>2 DEF BeginCall, Enter
  <2>3. CASE Export(t) \/ CloseTake(t) \/ CloseReturn(t) \/ Detach(t) \/ LockCatalog(t)
    BY <2>3 DEF Export, CloseTake, CloseReturn, Detach, LockCatalog
  <2>4. CASE Registered(t) \/ RegisterReturn(t) \/ CallReturn(t) \/ Release(t) \/ Destroyed(t)
    BY <2>4 DEF Registered, RegisterReturn, CallReturn, Release, Destroyed
  <2> QED
    BY <2>1, <2>2, <2>3, <2>4 DEF Start
<1>3. \A u \in Threads : pc'[u] = pc[u] \/ {pc[u], pc'[u]} \cap InsidePoints = {}
  BY <1>2 DEF Go, PSTypeOK
<1> QED
  BY <1>1, <1>3, PullsAside

\* A step inside the native stream that answers nothing and takes nothing from
\* the source.
LEMMA MoveKeepsPulls ==
    ASSUME PSTypeOK, PullInv, NEW t \in Threads,
           UNCHANGED <<stream, terminal, replies, result, source>>,
           \A u \in Threads \ {t} : pc'[u] = pc[u],
           \A u \in Threads : pc'[u] \in InsidePoints <=> native' = u,
           pc'[t] \in PullPoints => stream = "open",
           pc'[t] \in {"reattach", "reattached"} => pc[t] \in {"reattach", "reattached"},
           result[t] = "batch" /\ pc[t] \in {"reattach", "reattached"} =>
              pc'[t] \in {"reattach", "reattached"}
    PROVE  PullInv'
<1>1. InFlight' <=> InFlight
  BY DEF InFlight
<1>2. Delivered' = Delivered
  BY DEF Delivered
<1>3. FailureNeverLooksLikeEnd'
  BY DEF PullInv, FailureNeverLooksLikeEnd
<1> QED
  BY <1>1, <1>2, <1>3 DEF PullInv

\* The answer of the thread inside the native stream: the reply is recorded and
\* the thread leaves its pull, so that no batch is in flight any more.
LEMMA AnswerKeepsPulls ==
    ASSUME PSTypeOK, PSTypeOK', PullInv, NEW t \in Threads,
           NEW from \in {"inside", "attached", "reattached"},
           NEW reply \in {"batch", "end", "error"}, Answer(t, from, reply),
           UNCHANGED <<native, source>>,
           \/ reply = "batch" /\ from = "reattached" /\ result[t] = "batch"
              /\ UNCHANGED <<stream, terminal>>
           \/ reply = "error" /\ stream' = "none" /\ terminal' = TRUE
           \/ reply = "end" /\ stream' = "none" /\ terminal' = FALSE
              /\ \/ stream = "none" /\ ~terminal
                 \/ from = "reattached" /\ result[t] = "end"
    PROVE  PullInv'
<1>1. /\ pc[t] = from /\ pc' = [pc EXCEPT ![t] = "unlock"]
      /\ replies' = Append(replies, reply)
      /\ result' = [result EXCEPT ![t] = "none"]
  BY DEF Answer, Go
<1>2. native = t /\ \A u \in Threads : u # t => pc[u] \notin InsidePoints /\ pc'[u] = pc[u]
  BY <1>1 DEF PSTypeOK, PullInv, InsidePoints
<1>3. \A u \in Threads : pc'[u] \in InsidePoints <=> native' = u
  BY <1>1, <1>2 DEF PSTypeOK, InsidePoints
<1>4. \A u \in Threads : pc'[u] \notin PullPoints /\ pc'[u] \notin {"reattach", "reattached"}
  BY <1>1, <1>2 DEF PSTypeOK, InsidePoints, PullPoints
<1>5. ~InFlight'
  BY <1>4 DEF InFlight
<1>6. InFlight <=> from = "reattached" /\ result[t] = "batch"
  BY <1>1, <1>2 DEF InFlight, InsidePoints
<1>7. /\ Cardinality(Delivered) \in Nat
      /\ Cardinality(Delivered') = Cardinality(Delivered) + (IF reply = "batch" THEN 1 ELSE 0)
  BY <1>1, ReplyCounted
<1>8. /\ Len(replies') = Len(replies) + 1 /\ Len(replies) \in Nat
      /\ replies'[Len(replies) + 1] = reply
      /\ \A j \in 1..Len(replies) : replies'[j] = replies[j]
  BY <1>1 DEF PSTypeOK
<1>9. stream = "open" \/ from = "inside"
  BY <1>1 DEF PullInv, PullPoints
<1>10. source.left \in Nat /\ BatchCount \in Nat
  BY StreamAssumption DEF PSTypeOK
<1>11. CASE reply = "batch"
  <2>1. stream = "open" /\ \A i \in 1..Len(replies) : replies[i] = "batch"
    BY <1>9, <1>11 DEF PullInv
  <2>2. FailureNeverLooksLikeEnd'
    BY <1>1, <1>11, <2>1, ReplyInOrder DEF PullInv
  <2>3. stream' = "open" /\ ~terminal'
    BY <1>11, <2>1 DEF PullInv
  <2>4. Cardinality(Delivered') + source'.left + 0 = BatchCount
    BY <1>6, <1>7, <1>10, <1>11, <2>1 DEF PullInv
  <2>5. \A j \in 1..Len(replies') : replies'[j] = "batch"
    BY <1>8, <1>11, <2>1
  <2> QED
    BY <1>3, <1>4, <1>5, <2>2, <2>3, <2>4, <2>5 DEF PullInv
<1>12. CASE reply = "error"
  <2>1. FailureNeverLooksLikeEnd'
    BY <1>1, <1>12, ReplyInOrder DEF PullInv
  <2> QED
    BY <1>3, <1>4, <1>12, <2>1 DEF PullInv
<1>13. CASE reply = "end"
  <2>1. /\ ~source.fails /\ Cardinality(Delivered) = BatchCount
        /\ \A j \in 1..Len(replies) : replies[j] # "error"
    <3>1. CASE stream = "none" /\ ~terminal
      BY <3>1 DEF PullInv
    <3>2. CASE from = "reattached" /\ result[t] = "end"
      BY <1>1, <1>6, <1>7, <1>9, <1>10, <3>2 DEF PullInv
    <3> QED
      BY <1>13, <3>1, <3>2
  <2>2. FailureNeverLooksLikeEnd'
    BY <1>1, <1>13, <2>1, ReplyInOrder DEF PullInv
  <2>3. Cardinality(Delivered') = BatchCount
    BY <1>7, <1>13, <2>1
  <2>4. \A j \in 1..Len(replies') : replies'[j] # "error"
    BY <1>8, <1>13, <2>1
  <2> QED
    BY <1>3, <1>4, <1>13, <2>1, <2>2, <2>3, <2>4 DEF PullInv
<1> QED
  BY <1>11, <1>12, <1>13

\* Entering and leaving the native stream, and the waits for the interpreter lock.
LEMMA LockKeepsPulls ==
    ASSUME PSTypeOK, PullInv, NEW t \in Threads,
           TryLock(t) \/ Attach(t) \/ Reattach(t) \/ Unlock(t)
    PROVE  PullInv'
<1> USE DEF PSTypeOK, PullInv, InsidePoints, PullPoints, reader, owned, events, Go
<1>1. Nobody \notin Threads
  BY StreamAssumption DEF Threads
<1>2. CASE TryLock(t)
  <2>1. \A u \in Threads : pc'[u] \in InsidePoints <=> native' = u
    BY <1>1, <1>2 DEF TryLock
  <2> QED
    BY <1>2, <2>1, MoveKeepsPulls DEF TryLock
<1>3. CASE Attach(t)
  BY <1>3, MoveKeepsPulls DEF Attach
<1>4. CASE Reattach(t)
  BY <1>4, MoveKeepsPulls DEF Reattach
<1>5. CASE Unlock(t)
  <2>1. \A u \in Threads : pc'[u] \in InsidePoints <=> native' = u
    BY <1>1, <1>5 DEF Unlock
  <2> QED
    BY <1>5, <2>1, MoveKeepsPulls DEF Unlock
<1> QED
  BY <1>2, <1>3, <1>4, <1>5

\* One slice of a pull: the batch it may take from the source is in flight.
LEMMA SliceKeepsPulls ==
    ASSUME PSTypeOK, PullInv, NEW t \in Threads, Slice(t)
    PROVE  PullInv'
<1>1. PICK r \in {"pending", "batch", "end", "error"} :
        /\ r = "batch" => source.left > 0
        /\ r \in {"end", "error"} => source.left = 0 /\ (source.fails <=> r = "error")
        /\ result' = [result EXCEPT ![t] = r]
        /\ source' = [source EXCEPT !.left = IF r = "batch" THEN @ - 1 ELSE @]
  BY DEF Slice
<1>2. /\ pc[t] = "polling" /\ pc' = [pc EXCEPT ![t] = "reattach"]
      /\ UNCHANGED <<native, stream, terminal, replies>>
  BY DEF Slice, Go, locks, reader
<1>3. stream = "open" /\ native = t
  BY <1>2 DEF PullInv, PullPoints, InsidePoints
<1>4. \A u \in Threads : u # t => pc[u] \notin InsidePoints /\ pc'[u] = pc[u]
  BY <1>2, <1>3 DEF PSTypeOK, PullInv
<1>5. ~InFlight
  BY <1>2, <1>4 DEF InFlight, InsidePoints
<1>6. InFlight' <=> r = "batch"
  BY <1>1, <1>2, <1>4 DEF PSTypeOK, InFlight, InsidePoints
<1>7. /\ source'.left = (IF r = "batch" THEN source.left - 1 ELSE source.left)
      /\ source'.fails = source.fails /\ source.left \in Nat
  BY <1>1, StreamAssumption DEF PSTypeOK
<1>8. Delivered' = Delivered /\ Cardinality(Delivered) \in Nat
  <2>1. Len(replies) \in Nat /\ Delivered \subseteq 1..Len(replies)
    BY DEF PSTypeOK, Delivered
  <2>2. IsFiniteSet(1..Len(replies))
    BY <2>1, FS_Interval
  <2>3. IsFiniteSet(Delivered)
    BY <2>1, <2>2, FS_Subset
  <2> QED
    BY <1>2, <2>3, FS_CardinalityType DEF Delivered
<1>9. Cardinality(Delivered') + source'.left + (IF InFlight' THEN 1 ELSE 0) = BatchCount
  <2>1. Cardinality(Delivered) + source.left + 0 = BatchCount
    BY <1>3, <1>5 DEF PullInv
  <2>2. CASE r = "batch"
    BY <1>1, <1>6, <1>7, <1>8, <2>1, <2>2
  <2>3. CASE r # "batch"
    BY <1>6, <1>7, <1>8, <2>1, <2>3
  <2> QED
    BY <2>2, <2>3
<1>10. FailureNeverLooksLikeEnd'
  <2>1. replies' = replies /\ source'.fails = source.fails
    BY <1>2, <1>7
  <2>2. FailureNeverLooksLikeEnd
    BY DEF PullInv
  <2> QED
    BY <2>1, <2>2 DEF FailureNeverLooksLikeEnd
<1>11. \A u \in Threads : /\ pc'[u] \in InsidePoints <=> native' = u
                          /\ pc'[u] \in PullPoints => stream' = "open"
  BY <1>2, <1>3, <1>4 DEF PSTypeOK, InsidePoints, PullPoints
<1>12. \A u \in Threads : pc'[u] \in {"reattach", "reattached"} =>
         /\ result'[u] # "none"
         /\ result'[u] \in {"end", "error"} =>
              source'.left = 0 /\ (source'.fails <=> result'[u] = "error")
  BY <1>1, <1>2, <1>4, <1>7 DEF PSTypeOK, InsidePoints
<1> QED
  BY <1>2, <1>3, <1>9, <1>10, <1>11, <1>12 DEF PullInv

\* The steps that may answer a pull.
LEMMA AnswersKeepPulls ==
    ASSUME PSTypeOK, PSTypeOK', PullInv, NEW t \in Threads,
           BeginNext(t) \/ FirstCheck(t) \/ SliceEnd(t)
    PROVE  PullInv'
<1>1. CASE BeginNext(t)
  <2>1. UNCHANGED <<native, source, stream, terminal>>
    BY <1>1 DEF BeginNext, locks, reader
  <2>2. CASE terminal /\ Answer(t, "inside", "error")
    BY <2>1, <2>2, AnswerKeepsPulls DEF PullInv, PSTypeOK
  <2>3. CASE ~terminal /\ stream = "none" /\ Answer(t, "inside", "end")
    BY <2>1, <2>3, AnswerKeepsPulls DEF PSTypeOK
  <2>4. CASE stream = "open" /\ Go(t, "inside", "attach") /\ UNCHANGED <<replies, result>>
    BY <2>1, <2>4, MoveKeepsPulls DEF PSTypeOK, PullInv, InsidePoints, PullPoints, Go
  <2> QED
    BY <1>1, <2>2, <2>3, <2>4 DEF BeginNext
<1>2. CASE FirstCheck(t)
  <2>1. UNCHANGED <<native, source>>
    BY <1>2 DEF FirstCheck
  <2>2. CASE Finish(t, "attached", "error")
    BY <2>1, <2>2, AnswerKeepsPulls DEF Finish
  <2>3. CASE Go(t, "attached", "polling") /\ UNCHANGED <<stream, terminal, replies, result>>
    BY <2>1, <2>3, MoveKeepsPulls DEF PSTypeOK, PullInv, InsidePoints, PullPoints, Go
  <2> QED
    BY <1>2, <2>2, <2>3 DEF FirstCheck
<1>3. CASE SliceEnd(t)
  <2>1. UNCHANGED <<native, source>>
    BY <1>3 DEF SliceEnd
  <2>2. CASE Finish(t, "reattached", "error")
    BY <2>1, <2>2, AnswerKeepsPulls DEF Finish
  <2>3. CASE /\ result[t] = "pending" /\ Go(t, "reattached", "polling")
             /\ UNCHANGED <<reader, replies, result>>
    BY <2>1, <2>3, MoveKeepsPulls DEF PSTypeOK, PullInv, InsidePoints, PullPoints, Go, reader
  <2>4. CASE result[t] = "batch" /\ Answer(t, "reattached", "batch") /\ UNCHANGED reader
    BY <2>1, <2>4, AnswerKeepsPulls DEF reader
  <2>5. CASE result[t] = "end" /\ Finish(t, "reattached", "end")
    BY <2>1, <2>5, AnswerKeepsPulls DEF Finish
  <2> QED
    BY <1>3, <2>2, <2>3, <2>4, <2>5 DEF SliceEnd
<1> QED
  BY <1>1, <1>2, <1>3

\* Every step keeps PullInv.
LEMMA StepPulls ==
    ASSUME PSTypeOK, PSTypeOK', PullInv, [PSNext]_psVars
    PROVE  PullInv'
<1>1. ASSUME NEW t \in Threads, Start(t) \/ Step(t) PROVE PullInv'
  BY <1>1, OutsideKeepsPulls, LockKeepsPulls, SliceKeepsPulls, AnswersKeepPulls DEF Step
<1>2. ASSUME NEW t \in Threads,
             Emit(t) \/ HandlerStep(t) \/ HandlerSwitch(t) \/ HandlerRelease(t)
      PROVE  PullInv'
  <2>1. UNCHANGED <<native, stream, terminal, replies, result, source, pc>>
    BY <1>2 DEF Emit, HandlerStep, HandlerAttach, HandlerReturn, HandlerSwitch, HandlerRelease,
                locks, reader
  <2> QED
    BY <2>1, PullsAside
<1>3. CASE Recover \/ Signal \/ UNCHANGED psVars
  <2>1. UNCHANGED <<native, stream, terminal, replies, result, pc>>
    BY <1>3 DEF Recover, Signal, psVars, locks, reader
  <2>2. source'.left = source.left /\ source'.fails = source.fails
    BY <1>3 DEF Recover, Signal, psVars, PSTypeOK
  <2> QED
    BY <2>1, <2>2, PullsAside
<1> QED
  BY <1>1, <1>2, <1>3 DEF PSNext

\* A consumer that sees the stream end has every batch of the scan in hand: a
\* failure or an interruption, with a batch in flight or not, is repeated by
\* every later pull, whichever threads pull and whatever their handlers do.
THEOREM FailuresAreKept == PSSpec => []FailureNeverLooksLikeEnd
<1>1. PSInit => PullInv
  <2> SUFFICES ASSUME PSInit PROVE PullInv
    OBVIOUS
  <2>1. Delivered = {} /\ Cardinality(Delivered) = 0
    <3>1. Delivered = {}
      BY DEF PSInit, Delivered
    <3> QED
      BY <3>1, FS_EmptySet
  <2>2. ~InFlight
    BY DEF PSInit, InFlight
  <2>3. FailureNeverLooksLikeEnd
    BY DEF PSInit, FailureNeverLooksLikeEnd
  <2> QED
    BY <2>1, <2>2, <2>3, StreamAssumption DEF PSInit, PullInv, InsidePoints, PullPoints, Threads
<1>2. PSTypeOK /\ PullInv /\ [PSNext]_psVars => PullInv'
  BY StepPulls, StepTypes
<1>3. PullInv => FailureNeverLooksLikeEnd
  BY DEF PullInv
<1> QED
  BY <1>1, <1>2, <1>3, PythonStreamTypes, PTL DEF PSSpec

=============================================================================
