---------------------------- MODULE MCOrderedScan ----------------------------
(* Instances of OrderedScan for TLC.                                        *)
EXTENDS OrderedScan

\* Three partitions over two scan slots: the second one prefetches, starts with
\* one slot and is topped up with a second one when the first has finished.
\* Its files hold more batches than its channel, so it keeps the slots of both
\* while it waits for the caller, who waits for the first.
FrontAndPrefetching == <<<<1>>, <<2, 1>>, <<1>>>>
\* Two partitions, one with a file of two batches, for the blocking reads.
TwoBatches == <<<<2>>, <<1, 1>>>>
\* Every file may fail.
AnyFile == AllFiles
=============================================================================
