---------------------------- MODULE PythonStream ----------------------------
(***************************************************************************)
(* One `RecordBatchStream` of the Python package, the Arrow stream it is   *)
(* exported as, and the calls Python threads make on them, on the session  *)
(* and on the exported structure, while logging events run application     *)
(* code on the threads that emit them.                                     *)
(*                                                                         *)
(* Three locks outlive a step: Python's global interpreter lock (`gil`),   *)
(* the mutex of the native Arrow stream (`native`, only ever tried) and    *)
(* the session's table catalog (`catalog`).  The exporter's slot mutex and *)
(* OWNER_POINTER_LOCK are held for single steps that run no Python code.   *)
(* The exported reader is reference counted: `owners` holds one reference  *)
(* for the exported structure and one per active callback.                 *)
(*                                                                         *)
(* A handler needs the GIL, may lose it once to another thread, may        *)
(* release the exported stream, and may end with a control-flow exception. *)
(* Its other calls are refused by `reject_logging_reentry` before they     *)
(* touch anything, so they are not steps.                                  *)
(***************************************************************************)
EXTENDS Naturals, Sequences, FiniteSets

CONSTANTS Callers,      \* Python threads
          Main,         \* the caller that receives signals
          Workers,      \* threads of the binding's runtime
          Nobody,       \* stands for no thread
          Exported,     \* the reference of the exported structure
          BatchCount,   \* batches the source has before it ends
          MaxCalls,     \* bound on the calls of all callers together
          MaxHandlers   \* bound on the handlers all events run

ASSUME StreamAssumption ==
    /\ Main \in Callers
    /\ Callers \cap Workers = {}
    /\ {Nobody, Exported} \cap (Callers \cup Workers) = {}
    /\ BatchCount \in Nat /\ MaxCalls \in Nat /\ MaxHandlers \in Nat

Threads == Callers \cup Workers

VARIABLES
    gil,          \* the thread that holds the interpreter lock
    slot,         \* whether RecordBatchStream.reader still holds the reader
    pointer,      \* private_data of the exported structure
    owners,       \* the references to the exported reader
    native,       \* the thread that holds the native stream's mutex
    catalog,      \* the thread that holds Session.table_runtimes
    stream,       \* BlockingBatchReader.stream: "open" or "none"
    terminal,     \* whether terminal_error is set
    dispatch,     \* whether the first pull's subscriber exists
    interrupted,  \* the flag a handler's control-flow exception sets
    signal,       \* whether a signal waits for the main thread
    source,       \* what the batch source has done and will do
    destroyed,    \* how many times the reader was destroyed
    replies,      \* what get_next answered, in the order of its returns
    pc,           \* where each thread is in its call
    result,       \* what the last wait of a pull produced
    handler,      \* the handler a thread is running, if any
    calls,        \* calls made so far
    handled       \* handlers started so far

locks == <<gil, native, catalog>>
reader == <<stream, terminal, dispatch>>
owned == <<slot, pointer, owners, destroyed>>
events == <<interrupted, signal>>
psVars == <<locks, reader, owned, events, source, replies, pc, result, handler,
            calls, handled>>

-----------------------------------------------------------------------------

\* The points of a call at which its thread holds the interpreter lock.
HoldingPoints == {"export", "close", "closing", "register", "attached", "reattached"}

\* The points of get_next inside the native stream.
InsidePoints == {"inside", "attach", "attached", "polling", "reattach", "reattached", "unlock"}

PullPoints == {"attach", "attached", "polling", "reattach", "reattached"}

Points == {"idle", "peek", "cloned", "drop", "destroying", "released",
           "waitCatalog", "registering", "reregister"} \cup HoldingPoints \cup InsidePoints

Results == {"none", "pending", "batch", "end", "error"}

PSTypeOK ==
    /\ {gil, native, catalog} \subseteq Threads \cup {Nobody}
    /\ slot \in BOOLEAN /\ terminal \in BOOLEAN /\ dispatch \in BOOLEAN
    /\ interrupted \in BOOLEAN /\ signal \in {"none", "pending", "seen"}
    /\ pointer \in {"unset", "owner", "null"}
    /\ owners \subseteq Threads \cup {Exported}
    /\ stream \in {"open", "none"}
    /\ source \in [left : 0..BatchCount, fails : BOOLEAN, stalls : BOOLEAN]
    /\ destroyed \in Nat /\ calls \in 0..MaxCalls /\ handled \in 0..MaxHandlers
    /\ replies \in Seq({"batch", "end", "error"})
    /\ pc \in [Threads -> Points] /\ result \in [Threads -> Results]
    /\ handler \in [Threads -> {"none", "want", "running", "switched", "last"}]

PSInit ==
    /\ gil = Nobody /\ native = Nobody /\ catalog = Nobody
    /\ slot = TRUE /\ pointer = "unset" /\ owners = {} /\ destroyed = 0
    /\ stream = "open" /\ terminal = FALSE /\ dispatch = FALSE
    /\ interrupted = FALSE /\ signal = "none"
    /\ source \in [left : {BatchCount}, fails : BOOLEAN, stalls : BOOLEAN]
    /\ replies = <<>> /\ calls = 0 /\ handled = 0
    /\ pc = [t \in Threads |-> "idle"]
    /\ result = [t \in Threads |-> "none"]
    /\ handler = [t \in Threads |-> "none"]

\* in_logging_callback(), the thread-local flag of the guard.
InLoggingCallback(t) == handler[t] # "none"

Go(t, from, to) == pc[t] = from /\ ~InLoggingCallback(t) /\ pc' = [pc EXCEPT ![t] = to]

\* A caller enters one of the operations; none is entered from a handler.
Enter(t, to) ==
    /\ t \in Callers /\ calls < MaxCalls /\ calls' = calls + 1
    /\ Go(t, "idle", to)

\* check_signals: only the main thread sees a signal, and sees it once.
SignalSeen(t) == IF t = Main /\ signal = "pending" THEN "seen" ELSE signal

\* check_interrupts of a pull: the stream's flag, then the signals.
Interrupted(t) == interrupted \/ SignalSeen(t) # signal

TakeGil(t) == gil = Nobody /\ gil' = t
DropGil(t) == gil = t /\ gil' = Nobody

-----------------------------------------------------------------------------
(* The exporter: __arrow_c_stream__ and close, both called under the GIL.  *)

BeginExport(t) ==
    /\ Enter(t, "export") /\ TakeGil(t)
    /\ UNCHANGED <<native, catalog, reader, owned, events, source, replies, result,
                   handler, handled>>

\* A rejected schema leaves the reader in the slot for another attempt.
Export(t) ==
    /\ Go(t, "export", "idle") /\ DropGil(t)
    /\ \E accepted \in BOOLEAN :
          IF slot /\ accepted
          THEN slot' = FALSE /\ pointer' = "owner" /\ owners' = {Exported}
          ELSE UNCHANGED <<slot, pointer, owners>>
    /\ UNCHANGED <<native, catalog, reader, destroyed, events, source, replies, result,
                   handler, calls, handled>>

BeginClose(t) ==
    /\ Enter(t, "close") /\ TakeGil(t)
    /\ UNCHANGED <<native, catalog, reader, owned, events, source, replies, result,
                   handler, handled>>

\* Take the reader out of the slot; its destructor runs after the mutex is
\* released and may log.  A second close finds nothing and returns.
CloseTake(t) ==
    /\ Go(t, "close", "closing")
    /\ slot' = FALSE /\ destroyed' = destroyed + (IF slot THEN 1 ELSE 0)
    /\ UNCHANGED <<locks, reader, pointer, owners, events, source, replies, result,
                   handler, calls, handled>>

CloseReturn(t) ==
    /\ Go(t, "closing", "idle") /\ DropGil(t)
    /\ UNCHANGED <<native, catalog, reader, owned, events, source, replies, result,
                   handler, calls, handled>>

-----------------------------------------------------------------------------
(* Session.register_table: the catalog mutex is awaited without the GIL,   *)
(* because the thread that holds it may be running a handler.              *)

BeginRegister(t) ==
    /\ Enter(t, "register") /\ TakeGil(t)
    /\ UNCHANGED <<native, catalog, reader, owned, events, source, replies, result,
                   handler, handled>>

\* Mutant: the catalog mutex is awaited with the interpreter lock held.
DetachKeepsGil(t) ==
    /\ Go(t, "register", "waitCatalog") /\ gil = t
    /\ UNCHANGED <<locks, reader, owned, events, source, replies, result, handler, calls,
                   handled>>

\* wait_with_logging returns early when it cannot build the call's subscriber or
\* the first check finds an interruption; otherwise it waits without the GIL.
Detach(t) ==
    /\ DropGil(t)
    /\ \/ Go(t, "register", "waitCatalog")
          /\ SignalSeen(t) = signal /\ UNCHANGED signal
       \/ Go(t, "register", "idle") /\ signal' \in {signal, SignalSeen(t)}
    /\ UNCHANGED <<native, catalog, reader, owned, interrupted, source, replies, result,
                   handler, calls, handled>>

LockCatalog(t) ==
    /\ Go(t, "waitCatalog", "registering") /\ catalog = Nobody /\ catalog' = t
    /\ UNCHANGED <<gil, native, reader, owned, events, source, replies, result, handler,
                   calls, handled>>

Registered(t) ==
    /\ Go(t, "registering", "reregister") /\ catalog' = Nobody
    /\ UNCHANGED <<gil, native, reader, owned, events, source, replies, result, handler,
                   calls, handled>>

\* Reattach, check for interruptions, and return the outcome or the exception.
RegisterReturn(t) ==
    /\ Go(t, "reregister", "idle") /\ gil \in {Nobody, t} /\ gil' = Nobody
    /\ signal' = SignalSeen(t)
    /\ UNCHANGED <<native, catalog, reader, owned, interrupted, source, replies, result,
                   handler, calls, handled>>

-----------------------------------------------------------------------------
(* The exported structure's callbacks, called without the GIL.             *)

\* Mutant: the callback borrows the exported structure's reference.
CloneOwnerBorrows(t) == UNCHANGED owners

\* A reference is cloned while the pointer lock keeps release out.
CloneOwner(t) ==
    IF pointer = "owner" THEN owners' = owners \cup {t} ELSE UNCHANGED owners

\* with_native_stream: refuse a closed stream, otherwise clone its owner.
BeginCall(t, kind) ==
    /\ Enter(t, IF pointer = "owner" THEN kind ELSE "idle")
    /\ pointer # "unset" /\ CloneOwner(t)
    /\ UNCHANGED <<locks, reader, slot, pointer, destroyed, events, source, replies,
                   result, handler, handled>>

\* try_lock: a call that finds another one inside gives up its reference.
TryLock(t) ==
    /\ IF native = Nobody
       THEN /\ native' = t
            /\ \/ Go(t, "cloned", "inside")
               \/ Go(t, "peek", "unlock")       \* get_schema, get_last_error
       ELSE /\ UNCHANGED native
            /\ Go(t, "cloned", "drop") \/ Go(t, "peek", "drop")
    /\ UNCHANGED <<gil, catalog, reader, owned, events, source, replies, result, handler,
                   calls, handled>>

\* The answer of one `next`, written before the native stream is unlocked.
Answer(t, from, reply) ==
    /\ Go(t, from, "unlock")
    /\ replies' = Append(replies, reply)
    /\ result' = [result EXCEPT ![t] = "none"]

\* The early returns of BlockingBatchReader::next, or the wait for the GIL.
BeginNext(t) ==
    /\ \/ terminal /\ Answer(t, "inside", "error")
       \/ ~terminal /\ stream = "none" /\ Answer(t, "inside", "end")
       \/ ~terminal /\ stream = "open" /\ Go(t, "inside", "attach")
          /\ UNCHANGED <<replies, result>>
    /\ UNCHANGED <<locks, reader, owned, events, source, handler, calls, handled>>

Attach(t) ==
    /\ Go(t, "attach", "attached") /\ TakeGil(t)
    /\ UNCHANGED <<native, catalog, reader, owned, events, source, replies, result,
                   handler, calls, handled>>

\* Mutant: the failure is reported once and not kept.
FinishForgetsError(t, from, reply) ==
    /\ Answer(t, from, reply) /\ DropGil(t)
    /\ stream' = "none" /\ dispatch' = FALSE /\ UNCHANGED terminal

\* A failed, interrupted or exhausted reader drops its stream for good; only
\* the first two leave an error behind.
Finish(t, from, reply) ==
    /\ Answer(t, from, reply) /\ DropGil(t)
    /\ stream' = "none" /\ dispatch' = FALSE
    /\ terminal' = (reply = "error")

\* The first check of wait_with_interrupts; creating the subscriber on the
\* first pull runs Python code that may itself be interrupted.
FirstCheck(t) ==
    /\ \/ /\ Interrupted(t) \/ ~dispatch
          /\ Finish(t, "attached", "error")
          /\ signal' = SignalSeen(t)
       \/ /\ ~Interrupted(t) /\ Go(t, "attached", "polling") /\ DropGil(t)
          /\ dispatch' = TRUE /\ UNCHANGED <<stream, terminal, replies, result, signal>>
    /\ UNCHANGED <<native, catalog, owned, interrupted, source, handler, calls, handled>>

\* One 100 ms slice of block_on: it times out while the source stalls, and
\* otherwise ends with the source's answer.
Slice(t) ==
    /\ Go(t, "polling", "reattach")
    /\ \E r \in {"pending", "batch", "end", "error"} :
          /\ r = "pending" <=> source.stalls
          /\ r = "batch" => source.left > 0
          /\ r \in {"end", "error"} => source.left = 0 /\ (source.fails <=> r = "error")
          /\ result' = [result EXCEPT ![t] = r]
          /\ source' = [source EXCEPT !.left = IF r = "batch" THEN @ - 1 ELSE @]
    /\ UNCHANGED <<locks, reader, owned, events, replies, handler, calls, handled>>

Reattach(t) ==
    /\ Go(t, "reattach", "reattached") /\ TakeGil(t)
    /\ UNCHANGED <<native, catalog, reader, owned, events, source, replies, result,
                   handler, calls, handled>>

\* Interruptions are checked before a ready result is returned, so a batch
\* that was already taken from the source is given up with the stream.
SliceEnd(t) ==
    /\ \/ /\ Interrupted(t)
          /\ Finish(t, "reattached", "error") /\ signal' = SignalSeen(t)
       \/ /\ ~Interrupted(t) /\ result[t] = "pending"
          /\ Go(t, "reattached", "polling") /\ DropGil(t)
          /\ UNCHANGED <<reader, replies, result, signal>>
       \/ /\ ~Interrupted(t) /\ result[t] = "batch"
          /\ Answer(t, "reattached", "batch") /\ DropGil(t)
          /\ UNCHANGED <<reader, signal>>
       \/ /\ ~Interrupted(t) /\ result[t] \in {"end", "error"}
          /\ Finish(t, "reattached", result[t]) /\ UNCHANGED signal
    /\ UNCHANGED <<native, catalog, owned, interrupted, source, handler, calls, handled>>

\* The guard goes before the reference it borrows from.
Unlock(t) ==
    /\ Go(t, "unlock", "drop") /\ native' = Nobody
    /\ UNCHANGED <<gil, catalog, reader, owned, events, source, replies, result, handler,
                   calls, handled>>

\* Whoever drops the last reference destroys the reader.
DropOwner(h) ==
    /\ owners' = owners \ {h}
    /\ destroyed' = destroyed + (IF owners \ {h} = {} THEN 1 ELSE 0)

CallReturn(t) ==
    /\ DropOwner(t)
    /\ Go(t, "drop", IF owners = {t} THEN "destroying" ELSE "idle")
    /\ UNCHANGED <<locks, reader, slot, pointer, events, source, replies, result, handler,
                   calls, handled>>

\* The structure is marked released before the reference is dropped; a second
\* release finds a null pointer and returns.
BeginRelease(t) ==
    /\ Enter(t, IF pointer = "owner" THEN "released" ELSE "idle")
    /\ pointer # "unset" /\ pointer' = "null"
    /\ UNCHANGED <<locks, reader, slot, owners, destroyed, events, source, replies, result,
                   handler, handled>>

Release(t) ==
    /\ DropOwner(Exported)
    /\ Go(t, "released", IF owners = {Exported} THEN "destroying" ELSE "idle")
    /\ UNCHANGED <<locks, reader, slot, pointer, events, source, replies, result, handler,
                   calls, handled>>

\* The destructor cancels the scan and returns; while it runs it may log.
Destroyed(t) ==
    /\ Go(t, "destroying", "idle")
    /\ UNCHANGED <<locks, reader, owned, events, source, replies, result, handler, calls,
                   handled>>

-----------------------------------------------------------------------------
(* Logging events and signals.                                             *)

\* The points at which a thread emits events: polling the scan, registering a
\* table, destroying a reader, and on a worker at any time after the first pull.
Emits(t) ==
    \/ pc[t] \in {"polling", "registering", "destroying", "closing"}
    \/ t \in Workers /\ (dispatch \/ replies # <<>>)

AtHandler(t, from, to) == handler[t] = from /\ handler' = [handler EXCEPT ![t] = to]

\* LoggingCallbackGuard::enter: an event inside a handler runs no second one.
Emit(t) ==
    /\ handled < MaxHandlers /\ handled' = handled + 1
    /\ Emits(t) /\ AtHandler(t, "none", "want")
    /\ UNCHANGED <<locks, reader, owned, events, source, replies, pc, result, calls>>

\* try_attach; a thread that already holds the GIL attaches at once.
HandlerAttach(t) ==
    /\ gil \in {Nobody, t} /\ gil' = t
    /\ AtHandler(t, "want", "running") \/ AtHandler(t, "switched", "last")
    /\ UNCHANGED <<native, catalog, reader, owned, events, source, replies, pc, result,
                   calls, handled>>

\* The interpreter gives another thread a turn in the middle of the handler.
HandlerSwitch(t) ==
    /\ AtHandler(t, "running", "switched") /\ DropGil(t)
    /\ UNCHANGED <<native, catalog, reader, owned, events, source, replies, pc, result,
                   calls, handled>>

\* The handler closes the consuming reader.  A reader destroyed here logs
\* nothing more: the thread is already inside a callback.
HandlerRelease(t) ==
    /\ handler[t] \in {"running", "last"} /\ gil = t
    /\ pointer = "owner" /\ pointer' = "null" /\ DropOwner(Exported)
    /\ UNCHANGED <<locks, reader, slot, events, source, replies, pc, result, handler,
                   calls, handled>>

\* The guard is dropped on every exit.  A control-flow exception raised under
\* the stream's subscriber sets the stream's flag; other errors are ignored.
HandlerReturn(t) ==
    /\ AtHandler(t, "running", "none") \/ AtHandler(t, "last", "none")
    /\ gil = t /\ gil' = (IF pc[t] \in HoldingPoints THEN t ELSE Nobody)
    /\ \/ UNCHANGED interrupted
       \/ (pc[t] = "polling" \/ t \in Workers) /\ interrupted' = TRUE
    /\ UNCHANGED <<native, catalog, reader, owned, signal, source, replies, pc, result,
                   calls, handled>>

\* A source that stalled may recover, and nothing says that it must.
Recover ==
    /\ source.stalls /\ source' = [source EXCEPT !.stalls = FALSE]
    /\ UNCHANGED <<locks, reader, owned, events, replies, pc, result, handler, calls,
                   handled>>

Signal ==
    /\ signal = "none" /\ signal' = "pending"
    /\ UNCHANGED <<locks, reader, owned, interrupted, source, replies, pc, result, handler,
                   calls, handled>>

-----------------------------------------------------------------------------

Start(t) ==
    \/ BeginExport(t) \/ BeginClose(t) \/ BeginRegister(t) \/ BeginRelease(t)
    \/ BeginCall(t, "cloned") \/ BeginCall(t, "peek")

\* What a call does once it has been entered.
Step(t) ==
    \/ Export(t) \/ CloseTake(t) \/ CloseReturn(t)
    \/ Detach(t) \/ LockCatalog(t) \/ Registered(t) \/ RegisterReturn(t)
    \/ TryLock(t) \/ BeginNext(t) \/ Attach(t) \/ FirstCheck(t) \/ Slice(t)
    \/ Reattach(t) \/ SliceEnd(t) \/ Unlock(t) \/ CallReturn(t)
    \/ Release(t) \/ Destroyed(t)

HandlerStep(t) == HandlerAttach(t) \/ HandlerReturn(t)

PSNext ==
    \/ \E t \in Threads :
          \/ Start(t) \/ Step(t) \/ Emit(t) \/ HandlerStep(t) \/ HandlerSwitch(t)
          \/ HandlerRelease(t)
    \/ Recover \/ Signal

\* Threads and handlers keep running, and the interpreter hands its lock to
\* every thread that keeps asking for it.
PSFairness ==
    /\ \A t \in Threads : SF_psVars(HandlerStep(t))
    /\ \A t \in Callers : SF_psVars(Step(t))

PSSpec == PSInit /\ [][PSNext]_psVars
FairPSSpec == PSSpec /\ PSFairness

-----------------------------------------------------------------------------

Busy(t) == pc[t] # "idle" \/ InLoggingCallback(t)

\* A pull that nothing can end: its source has stalled and nobody interrupts it.
WaitsForSource(t) == pc[t] \in PullPoints /\ source.stalls /\ ~Interrupted(t)

\* However exports, closes, releases from other threads or from a handler, and
\* running callbacks interleave, the reader is never destroyed while a callback
\* is inside it or while the slot still offers it, it is destroyed at most
\* once, and a released stream is destroyed by the time its calls are over.
ReaderDestroyedOnce ==
    /\ destroyed <= 1
    /\ slot \/ (\E t \in Threads : pc[t] \in InsidePoints) => destroyed = 0
    /\ pointer = "null" /\ (\A t \in Threads : ~Busy(t)) => destroyed = 1

\* A consumer that sees the stream end has every batch of the scan in hand:
\* once a pull fails or is interrupted, possibly after a batch was taken from
\* the source, every later pull fails too and none looks like exhaustion.
FailureNeverLooksLikeEnd ==
    \A i \in DOMAIN replies :
        /\ replies[i] = "error" => \A j \in i..Len(replies) : replies[j] = "error"
        /\ replies[i] = "end" =>
              /\ ~source.fails
              /\ Cardinality({j \in 1..i : replies[j] = "batch"}) = BatchCount

\* Every call returns although handlers run in the middle of it, give up the
\* interpreter lock and release the stream; a pull whose source has stalled
\* returns once a handler or a signal interrupts it.
CallsReturn == \A t \in Threads : Busy(t) ~> (~Busy(t) \/ WaitsForSource(t))

-----------------------------------------------------------------------------
(* The inductive invariants.                                               *)

\* The points of a callback, at which it owns a reference.
CallPoints == {"cloned", "peek", "drop"} \cup InsidePoints

\* Who owns the reader: the slot, then the exported structure and the callbacks
\* that are running, then nobody.
OwnerInv ==
    /\ \A t \in Threads : t \in owners <=> pc[t] \in CallPoints
    /\ slot => pointer = "unset"
    /\ pointer = "unset" => owners = {} /\ destroyed = IF slot THEN 0 ELSE 1
    /\ pointer = "owner" => Exported \in owners /\ destroyed = 0
    /\ pointer = "null" => destroyed = IF owners = {} THEN 1 ELSE 0
    /\ \A t \in Threads : pc[t] = "released" => pointer = "null" /\ Exported \in owners
    /\ pointer = "null" /\ Exported \in owners => \E t \in Threads : pc[t] = "released"
    /\ \A t, u \in Threads : pc[t] = "released" /\ pc[u] = "released" => t = u

Delivered == {j \in 1..Len(replies) : replies[j] = "batch"}

\* A batch that was taken from the source and is not handed over yet.
InFlight ==
    \E t \in Threads : pc[t] \in {"reattach", "reattached"} /\ result[t] = "batch"

\* One pull at a time; until an error is kept, every batch of the source is still
\* in it, in flight or delivered.
PullInv ==
    /\ \A t \in Threads : pc[t] \in InsidePoints <=> native = t
    /\ \A t \in Threads : pc[t] \in PullPoints => stream = "open"
    /\ \A t \in Threads : pc[t] \in {"reattach", "reattached"} =>
         /\ result[t] # "none"
         /\ result[t] \in {"end", "error"} =>
              source.left = 0 /\ (source.fails <=> result[t] = "error")
    /\ terminal => stream = "none"
    /\ stream = "open" =>
         /\ Cardinality(Delivered) + source.left + (IF InFlight THEN 1 ELSE 0) = BatchCount
         /\ \A j \in 1..Len(replies) : replies[j] = "batch"
    /\ stream = "none" /\ ~terminal =>
         /\ ~source.fails /\ Cardinality(Delivered) = BatchCount
         /\ \A j \in 1..Len(replies) : replies[j] # "error"
    /\ FailureNeverLooksLikeEnd

=============================================================================
