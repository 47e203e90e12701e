------------------------------ MODULE Ordering ------------------------------
(***************************************************************************)
(* Sorting and adding up, in a form that proofs can expand.                *)
(***************************************************************************)
EXTENDS Integers, Sequences, FiniteSets, SequencesExt

\* The members of a finite set in the order of Before, which is strict and total.
InOrder(S, Before(_, _)) ==
    [k \in 1..Cardinality(S) |-> CHOOSE x \in S : Cardinality({y \in S : Before(y, x)}) = k - 1]

\* A finite set of integers, the smallest first.
Ascending(S) == InOrder(S, <)

SumOf(s) == FoldLeft(LAMBDA t, n : t + n, 0, s)
=============================================================================
