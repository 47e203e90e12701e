----------------------- MODULE MCDataFusionPartitions -----------------------
(* Instances of DataFusionPartitions for TLC.                               *)
EXTENDS DataFusionPartitions

\* Two partitions whose blocking reads share one slot of the scan: the first
\* has a file of two batches; the second's first file may be pruned before it is
\* opened, and its other one may fail.
KernelFiles == <<<<2>>, <<1, 1>>>>
SecondSkips == {<<2, 1>>}
KernelFails == {<<2, 2>>}

=============================================================================
