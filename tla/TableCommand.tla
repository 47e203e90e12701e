---------------------------- MODULE TableCommand ----------------------------
(***************************************************************************)
(* A table command of the CLI (runtime/table_command.rs): a supervisor     *)
(* that waits for signals, the deadline, stdout and the worker; the worker *)
(* thread that reads the table, removes its spill files and publishes the  *)
(* staged result without replacing files (output/artifact); and another    *)
(* process that may create the destinations meanwhile.                     *)
(*                                                                         *)
(* The two threads share the abort flag and publication_started.  They are *)
(* taken as sequentially consistent.  The worker runs on until the process *)
(* exits, also while the supervisor reports that the command was stopped.  *)
(***************************************************************************)
EXTENDS Naturals

VARIABLES
    request,    \* what the command line asks for
    stop,       \* a signal, the deadline or a closed stdout, pending
    supervisor, \* where run_table_command is
    outcome,    \* the error or completion it ended up with
    aborted,    \* AbortHandle::abort was called
    started,    \* publication_started
    worker,     \* where worker::run is
    reply,      \* the Result it sends when it ends
    spill,      \* the spill directory of a query
    file,       \* the destinations: file.result and file.manifest
    receipt,    \* the receipt is on stdout
    record      \* the terminal record on stderr

vars == <<request, stop, supervisor, outcome, aborted, started, worker, reply,
          spill, file, receipt, record>>
shared == <<request, stop, aborted, started>>

Stops == {"signal", "deadline", "stdout"}
Files == {"result", "manifest"}
Publishing == {"check_result", "persist_result", "check_manifest",
               "persist_manifest", "receipt"}

TypeOK ==
    /\ request \in [artifact : BOOLEAN, manifest : BOOLEAN, json : BOOLEAN]
    /\ request.manifest => request.artifact
    /\ stop \in SUBSET Stops
    /\ supervisor \in {"starting", "selecting", "recording", "grace", "classify",
                       "report", "exited"}
    /\ outcome \in {"none", "completed", "interrupted", "failed", "publish_failed",
                    "publication_interrupted"}
    /\ aborted \in BOOLEAN
    /\ started \in BOOLEAN
    /\ worker \in {"idle", "staging", "executing", "cleanup", "remove_spill",
                   "store_started", "ended"} \cup Publishing
    /\ reply \in {"none", "completed", "failed", "publish_failed"}
    /\ spill \in {"none", "present", "removed", "left"}
    /\ file \in [Files -> {"absent", "ours", "foreign"}]
    /\ receipt \in BOOLEAN
    /\ record \in {"none", "partial", "completion", "failure", "garbled"}

Init ==
    /\ request \in [artifact : BOOLEAN, manifest : BOOLEAN, json : BOOLEAN]
    /\ request.manifest => request.artifact
    /\ stop = {}
    /\ supervisor = "starting"
    /\ outcome = "none"
    /\ aborted = FALSE
    /\ started = FALSE
    /\ worker = "idle"
    /\ reply = "none"
    /\ spill = "none"
    /\ file = [f \in Files |-> "absent"]
    /\ receipt = FALSE
    /\ record = "none"

Alive == supervisor # "exited"

-----------------------------------------------------------------------------
(* The world outside.                                                       *)

StopRequested(s) ==
    /\ Alive
    /\ s \notin stop
    /\ stop' = stop \cup {s}
    /\ UNCHANGED <<request, supervisor, outcome, aborted, started, worker, reply,
                   spill, file, receipt, record>>

OtherProcessCreates(f) ==
    /\ file[f] = "absent"
    /\ file' = [file EXCEPT ![f] = "foreign"]
    /\ UNCHANGED <<shared, supervisor, outcome, worker, reply, spill, receipt, record>>

-----------------------------------------------------------------------------
(* The worker thread.                                                       *)

Goto(to) == worker' = to

End(r) ==
    /\ Goto("ended")
    /\ reply' = r

\* StagedResult::new refuses a destination that exists; any other input that
\* is rejected ends the command here too.
Stage ==
    /\ Alive /\ worker = "staging"
    /\ reply' \in {"none", "failed"}
    /\ request.artifact /\ file.result # "absent" => reply' = "failed"
    /\ request.manifest /\ file.manifest # "absent" => reply' = "failed"
    /\ Goto(IF reply' = "none" THEN "executing" ELSE "cleanup")
    /\ spill' \in (IF reply' = "none" THEN {"none", "present"} ELSE {"none"})
    /\ UNCHANGED <<shared, supervisor, outcome, file, receipt, record>>

\* Abortable returns what the command's last poll returned, also when the
\* abort came during that poll.
Execute ==
    /\ Alive /\ worker = "executing"
    /\ reply' \in {"completed", "failed"}
    /\ Goto("cleanup")
    /\ UNCHANGED <<shared, supervisor, outcome, spill, file, receipt, record>>

\* cancel_pending_requests, for at most CLEANUP_GRACE.
CancelPendingRequests ==
    /\ Alive /\ worker = "cleanup"
    /\ Goto("remove_spill")
    /\ UNCHANGED <<shared, supervisor, outcome, reply, spill, file, receipt, record>>

AfterSpill(r) ==
    IF r # "completed" THEN End(r)
    ELSE IF request.artifact THEN Goto("store_started") /\ reply' = "none"
    ELSE End(r)

RemoveSpillIgnoresFailure ==
    /\ Alive /\ worker = "remove_spill"
    /\ spill' \in (IF spill = "present" THEN {"removed", "left"} ELSE {spill})
    /\ AfterSpill(reply)
    /\ UNCHANGED <<shared, supervisor, outcome, file, receipt, record>>

\* A directory that cannot be removed fails a command that completed.
RemoveSpill ==
    /\ Alive /\ worker = "remove_spill"
    /\ spill' \in (IF spill = "present" THEN {"removed", "left"} ELSE {spill})
    /\ AfterSpill(IF spill' = "left" THEN "failed" ELSE reply)
    /\ UNCHANGED <<shared, supervisor, outcome, file, receipt, record>>

StoreStarted ==
    /\ Alive /\ worker = "store_started"
    /\ started' = TRUE
    /\ Goto("check_result")
    /\ UNCHANGED <<request, stop, aborted, supervisor, outcome, reply, spill, file,
                   receipt, record>>

CheckResultSkipped ==
    /\ Alive /\ worker = "check_result"
    /\ Goto("persist_result")
    /\ UNCHANGED <<shared, supervisor, outcome, reply, spill, file, receipt, record>>

CheckResult ==
    /\ Alive /\ worker = "check_result"
    /\ IF aborted THEN End("failed") ELSE Goto("persist_result") /\ UNCHANGED reply
    /\ UNCHANGED <<shared, supervisor, outcome, spill, file, receipt, record>>

Persist(f) == file' = [file EXCEPT ![f] = "ours"]

\* What follows a destination that got its name.
AfterPersist(f) ==
    Goto(IF f = "result" /\ request.manifest THEN "check_manifest" ELSE "receipt")

PersistClobbers(f) ==
    /\ Alive /\ worker = (IF f = "result" THEN "persist_result" ELSE "persist_manifest")
    /\ \/ Persist(f) /\ AfterPersist(f) /\ UNCHANGED reply
       \/ End("publish_failed") /\ UNCHANGED file
    /\ UNCHANGED <<shared, supervisor, outcome, spill, receipt, record>>

PersistContinues(f) ==
    /\ Alive /\ worker = (IF f = "result" THEN "persist_result" ELSE "persist_manifest")
    /\ IF file[f] = "absent" THEN Persist(f) ELSE UNCHANGED file
    /\ AfterPersist(f)
    /\ UNCHANGED <<shared, supervisor, outcome, reply, spill, receipt, record>>

\* persist_noclobber: a destination that exists by now, or an I/O error, ends
\* the publication.
PersistNoClobber(f) ==
    /\ Alive /\ worker = (IF f = "result" THEN "persist_result" ELSE "persist_manifest")
    /\ \/ /\ file[f] = "absent"
          /\ Persist(f) /\ AfterPersist(f) /\ UNCHANGED reply
       \/ End("publish_failed") /\ UNCHANGED file
    /\ UNCHANGED <<shared, supervisor, outcome, spill, receipt, record>>

CheckManifest ==
    /\ Alive /\ worker = "check_manifest"
    /\ IF aborted THEN End("publish_failed") ELSE Goto("persist_manifest") /\ UNCHANGED reply
    /\ UNCHANGED <<shared, supervisor, outcome, spill, file, receipt, record>>

WriteReceipt ==
    /\ Alive /\ worker = "receipt"
    /\ \/ receipt' = TRUE /\ End("completed")
       \/ receipt' = FALSE /\ End("publish_failed")
    /\ UNCHANGED <<shared, supervisor, outcome, spill, file, record>>

Worker ==
    \/ Stage \/ Execute \/ CancelPendingRequests \/ RemoveSpill
    \/ StoreStarted \/ CheckResult \/ CheckManifest \/ WriteReceipt
    \/ \E f \in Files : PersistNoClobber(f)

-----------------------------------------------------------------------------
(* The supervisor.                                                          *)

\* The first poll installs the signal handlers before it spawns the worker.
Start ==
    /\ supervisor = "starting"
    /\ stop \cap {"signal", "deadline"} = {}
    /\ supervisor' = "selecting"
    /\ Goto("staging")
    /\ UNCHANGED <<shared, outcome, reply, spill, file, receipt, record>>

\* A handler that cannot be installed ends the block at once; a thread that
\* cannot be spawned takes the way of the other errors.
StartFails ==
    /\ supervisor = "starting"
    /\ outcome' = "failed"
    /\ \/ supervisor' = "report" /\ UNCHANGED aborted
       \/ supervisor' = "grace" /\ aborted' = TRUE
    /\ UNCHANGED <<request, stop, started, worker, reply, spill, file, receipt, record>>

\* An arm other than the worker's: worker_finished is false, so the abort flag
\* is set at once.  The stdout arm is polled after the worker's.
Interrupted ==
    /\ \/ supervisor = "starting" /\ stop \cap {"signal", "deadline"} # {}
       \/ supervisor = "selecting" /\ stop \cap {"signal", "deadline"} # {}
       \/ supervisor = "selecting" /\ "stdout" \in stop /\ worker # "ended"
    /\ outcome' = "interrupted"
    /\ supervisor' = "grace"
    /\ aborted' = TRUE
    /\ UNCHANGED <<request, stop, started, worker, reply, spill, file, receipt, record>>

\* The select is biased: the worker's result is taken only when neither the
\* signal nor the deadline is ready.
WorkerFinished ==
    /\ supervisor = "selecting"
    /\ worker = "ended"
    /\ stop \cap {"signal", "deadline"} = {}
    /\ outcome' = reply
    /\ supervisor' = IF reply = "completed" THEN "recording" ELSE "classify"
    /\ UNCHANGED <<shared, worker, reply, spill, file, receipt, record>>

InterruptedRecording ==
    /\ supervisor = "recording"
    /\ stop \cap {"signal", "deadline"} # {}
    /\ outcome' = "interrupted"
    /\ supervisor' = "classify"
    /\ UNCHANGED <<shared, worker, reply, spill, file, receipt, record>>

\* write_terminal_record_when_writable, one chunk per poll of the select.
WriteRecord ==
    /\ supervisor = "recording"
    /\ stop \cap {"signal", "deadline"} = {}
    /\ \/ /\ ~request.json
          /\ supervisor' = "exited"
          /\ UNCHANGED <<outcome, record>>
       \/ /\ request.json
          /\ record' = "partial"
          /\ UNCHANGED <<supervisor, outcome>>
       \/ /\ request.json
          /\ record' = "completion"
          /\ supervisor' = "exited"
          /\ UNCHANGED outcome
       \/ /\ request.json
          /\ record' \in {record, "partial"}
          /\ outcome' = "interrupted"
          /\ supervisor' = "classify"
    /\ UNCHANGED <<shared, worker, reply, spill, file, receipt>>

GraceWaitsForWorker ==
    /\ supervisor = "grace"
    /\ worker \in {"idle", "ended"}
    /\ supervisor' = "classify"
    /\ UNCHANGED <<shared, outcome, worker, reply, spill, file, receipt, record>>

\* The worker ended within CLEANUP_GRACE, or it did not.
GraceEnds ==
    /\ supervisor = "grace"
    /\ supervisor' = "classify"
    /\ UNCHANGED <<shared, outcome, worker, reply, spill, file, receipt, record>>

\* publication_started decides what an interruption is reported as.
Classify ==
    /\ supervisor = "classify"
    /\ outcome' = IF outcome = "interrupted" /\ started
                  THEN "publication_interrupted" ELSE outcome
    /\ supervisor' = "report"
    /\ UNCHANGED <<shared, worker, reply, spill, file, receipt, record>>

ReportAppends ==
    /\ supervisor = "report"
    /\ supervisor' = "exited"
    /\ record' = IF record = "none" THEN "failure" ELSE "garbled"
    /\ UNCHANGED <<shared, outcome, worker, reply, spill, file, receipt>>

\* report_failure_with_timeout: the diagnostic may not get out in time, and
\* follows no record that was begun.
ReportFailure ==
    /\ supervisor = "report"
    /\ supervisor' = "exited"
    /\ \/ UNCHANGED record
       \/ /\ request.json /\ record = "none"
          /\ record' = "failure"
    /\ UNCHANGED <<shared, outcome, worker, reply, spill, file, receipt>>

Stopping ==
    Interrupted \/ InterruptedRecording \/ GraceEnds \/ Classify \/ ReportFailure

Supervisor == Start \/ StartFails \/ WorkerFinished \/ WriteRecord \/ Stopping

-----------------------------------------------------------------------------
Next ==
    \/ Worker
    \/ Supervisor
    \/ \E s \in Stops : StopRequested(s)
    \/ \E f \in Files : OtherProcessCreates(f)

\* The supervisor's runtime polls what is ready, its timers fire, and the
\* failure report has a timeout.  Nothing is assumed of the worker, of stdout
\* or of stderr: each may block for ever.
Fairness == WF_vars(Stopping)

Spec == Init /\ [][Next]_vars /\ Fairness

-----------------------------------------------------------------------------
(* Properties.                                                              *)

\* "Otherwise choose unused names": only a report that speaks of the
\* publication, or success, may leave a file of this command behind.  A plain
\* cancellation, deadline or failure means nothing was published, and nothing
\* is by the worker that runs on while the report is written.
ReportTellsPublication ==
    supervisor \in {"report", "exited"} /\ file.result = "ours"
        => outcome \in {"completed", "publish_failed", "publication_interrupted"}

Complete ==
    /\ request.artifact => file.result = "ours" /\ receipt
    /\ request.manifest => file.manifest = "ours"
    /\ spill # "left"

\* Exit status 0 means the whole artifact is there under its own names, the
\* receipt was printed and no spill files are left.
SuccessIsComplete ==
    supervisor = "exited" /\ outcome = "completed" => Complete

\* A manifest vouches for a complete result: it is never published without
\* the result it describes, nor a receipt without both.
ManifestVouches ==
    /\ file.manifest = "ours" => file.result = "ours"
    /\ receipt => file.result = "ours" /\ (request.manifest => file.manifest = "ours")

\* Files are published without replacing what another process put there after
\* StagedResult::new looked, and what was published stays.
NeverReplaced ==
    [][\A f \in Files : file[f] # "absent" => file'[f] = file[f]]_vars

\* Publication waits for the cleanup: no artifact is published by a command
\* that leaves spill files behind.
CleanBeforePublish ==
    file.result = "ours" => spill \in {"none", "removed"}

\* One terminal record, and a true one: a failure record never follows a
\* completion record that was begun, and a whole completion record is printed
\* only by a command that succeeds.
OneTerminalRecord ==
    /\ record # "garbled"
    /\ record = "completion" => outcome = "completed"
    /\ record = "failure" => outcome # "completed"

\* "Table commands remain interruptible while inputs, readers, or output are
\* blocked": a signal or the deadline ends the process, whatever the worker does.
Interruptible ==
    stop \cap {"signal", "deadline"} # {} ~> supervisor = "exited"

-----------------------------------------------------------------------------
(* The inductive invariant.                                                 *)

Unpublished == file.result # "ours" /\ file.manifest # "ours" /\ ~receipt

\* What is published when the worker is where it is.
WorkerInv ==
    /\ worker \in {"cleanup", "remove_spill"} => reply \in {"completed", "failed"}
    /\ worker \notin {"check_manifest", "persist_manifest", "receipt", "ended"} => Unpublished
    /\ worker \in {"check_manifest", "persist_manifest"} =>
           /\ request.manifest /\ file.result = "ours"
           /\ file.manifest # "ours" /\ ~receipt
    /\ worker = "receipt" =>
           /\ file.result = "ours" /\ ~receipt
           /\ request.manifest => file.manifest = "ours"
    /\ worker = "ended" =>
           /\ reply # "none"
           /\ reply = "completed" => Complete
           /\ reply = "failed" => Unpublished
    /\ worker \in Publishing => started
    /\ worker \in Publishing \cup {"store_started"} => spill \in {"none", "removed"}
    /\ file.result = "ours" => started

\* What the supervisor has decided, and what it still may be wrong about.
SupervisorInv ==
    /\ supervisor = "starting" => worker = "idle"
    /\ supervisor \in {"starting", "selecting"} => outcome = "none" /\ record = "none"
    /\ supervisor = "recording" => outcome = "completed" /\ record \in {"none", "partial"}
    /\ supervisor \in {"grace", "classify", "report"} =>
           outcome \notin {"none", "completed"} /\ record \in {"none", "partial"}
    /\ supervisor = "exited" => outcome # "none"
    /\ outcome \in {"completed", "publish_failed"} => worker = "ended" /\ reply = outcome
    /\ outcome = "failed" => worker = "idle" \/ (worker = "ended" /\ reply = "failed")
    /\ outcome = "interrupted" => aborted \/ worker \in {"idle", "ended"}
    /\ outcome = "interrupted" /\ supervisor \in {"report", "exited"} =>
           /\ Unpublished
           /\ worker \notin {"persist_result", "check_manifest", "persist_manifest", "receipt"}

CommandInv ==
    TypeOK /\ WorkerInv /\ SupervisorInv /\ ManifestVouches /\ CleanBeforePublish
        /\ OneTerminalRecord

=============================================================================
