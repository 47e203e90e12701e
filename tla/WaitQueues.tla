----------------------------- MODULE WaitQueues -----------------------------
(***************************************************************************)
(* The wait queues of tokio's fair semaphores, mutexes and OnceCells, as   *)
(* the sequence of their claimants in the order of arrival: the first      *)
(* `capacity` of them hold a permit, the others wait.  A claimant leaves   *)
(* by dropping its permit or the future that waits for one.                *)
(***************************************************************************)
EXTENDS Integers, Sequences, FiniteSets

\* Whether a claimant is ahead of position k of a queue.
Ahead(queue, k, claimant) == \E m \in 1..(k - 1) : queue[m] = claimant

\* The positions of a queue whose claimants stay when those in gone leave.
Staying(queue, gone) == {k \in 1..Len(queue) : queue[k] \notin gone}

\* The place of position k among the positions that stay.
Place(stay, k) == Cardinality({i \in stay : i <= k})

\* The queue after the claimants in gone have left; the others close ranks.
Without(queue, gone) ==
    LET stay == Staying(queue, gone)
    IN  [j \in 1..Cardinality(stay) |-> queue[CHOOSE k \in stay : Place(stay, k) = j]]

=============================================================================
