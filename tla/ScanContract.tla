---------------------------- MODULE ScanContract ----------------------------
(***************************************************************************)
(* What DeltaBatchStream promises its caller, whatever the partitions, the *)
(* permits and the threads below it do: planned batches, each at most once *)
(* and in planned order, and then exactly one reason for having stopped.   *)
(*                                                                         *)
(* A batch may be skipped: when a later partition fails, the cancellation  *)
(* cuts the earlier ones short, and batches that were already queued behind*)
(* them are still returned before the error.  The promise is about the end:*)
(* it is reported only when every planned batch was handed over.           *)
(***************************************************************************)
EXTENDS Naturals, Sequences

CONSTANTS Planned,  \* the batches of the scan
          Order,    \* the pairs of them of which the first is planned before the second
          Limited   \* whether the scan has a row limit

VARIABLES returned,  \* the batches handed to the caller
          status     \* "open", or why the stream is over

contractVars == <<returned, status>>

ContractInit == returned = <<>> /\ status = "open"

\* A batch comes after everything returned so far.
Later(batch) == \A i \in 1..Len(returned) : <<returned[i], batch>> \in Order

\* A later batch of the plan; a row limit may end the stream with it.
Return ==
    /\ status = "open"
    /\ \E batch \in Planned : Later(batch) /\ returned' = Append(returned, batch)
    /\ status' = "open" \/ (Limited /\ status' = "RowLimit")

\* One error, and nothing after it.
Fail == status = "open" /\ status' = "Failed" /\ UNCHANGED returned

\* Nothing of the plan is missing.
End ==
    /\ status = "open"
    /\ \A batch \in Planned : \E i \in 1..Len(returned) : returned[i] = batch
    /\ status' = "Eof" /\ UNCHANGED returned

Abandon == status = "open" /\ status' = "Dropped" /\ UNCHANGED returned

ContractNext == Return \/ Fail \/ End \/ Abandon

ContractSpec == ContractInit /\ [][ContractNext]_contractVars
=============================================================================
