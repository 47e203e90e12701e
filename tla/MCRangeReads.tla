---------------------------- MODULE MCRangeReads ----------------------------
(* Instances of RangeReads for TLC.                                         *)
EXTENDS RangeReads

CONSTANTS p1, p2, g1

Input(ranges, strategy, delay) ==
    [ranges |-> ranges, strategy |-> strategy, delay |-> delay, byteBudget |-> 9]

\* Unsorted, overlapping, duplicate and distant ranges of a small object.
Tangled == <<<<5, 7>>, <<0, 2>>, <<1, 3>>, <<0, 2>>>>
Distant == <<<<8, 9>>, <<0, 1>>, <<4, 5>>>>
Fours == <<<<0, 1>>, <<2, 3>>, <<4, 5>>, <<6, 7>>>>
Nested == <<<<0, 6>>, <<2, 3>>, <<8, 9>>>>

MCWorkloads ==
    {[c \in {p1, p2} |-> IF c = p1 THEN Input(Tangled, "ReadExactRanges", NoEstimate)
                         ELSE Input(Distant, "ChooseAutomatically", NoEstimate)],
     [c \in {p1, p2} |-> IF c = p1 THEN Input(Nested, "MergeRangesWithinOneMegabyte", NoEstimate)
                         ELSE Input(Fours, "Partial", 0)],
     [c \in {p1, p2} |-> IF c = p1 THEN Input(Tangled, "UseStoreImplementation", NoEstimate)
                         ELSE Input(Distant, "ChooseAutomatically", 1)],
     [c \in {p1, p2} |-> IF c = p1 THEN Input(<<>>, "ReadExactRanges", NoEstimate)
                         ELSE Input(Fours, "Partial", 0)]}

\* The planners cover whatever they are asked for: every list of at most three
\* ranges of a small object, empty and nested ones included, with each strategy.
SmallRanges == {r \in (0..4) \X (0..4) : r[1] <= r[2]}
SmallStrategies ==
    {<<"ReadExactRanges", 0, 9>>, <<"MergeRangesWithinOneMegabyte", 0, 9>>,
     <<"ChooseAutomatically", NoEstimate, 9>>, <<"ChooseAutomatically", 2, 9>>,
     <<"Partial", 2, 3>>, <<"Partial", 0, 9>>}
SmallCalls ==
    {[ranges |-> ranges, strategy |-> how[1], delay |-> how[2], byteBudget |-> how[3]] :
       ranges \in UNION {[1..n -> SmallRanges] : n \in 1..3}, how \in SmallStrategies}
ASSUME SmallPlansCover == \A call \in SmallCalls : Planned(call)
=============================================================================
