---------------------------- MODULE MCFileOpening ----------------------------
(* An instance of FileOpening for TLC: three range tasks of one file with a *)
(* deletion vector.                                                         *)
EXTENDS FileOpening

CONSTANTS t1, t2, t3
MCFileOf == [t \in {t1, t2, t3} |-> "file"]
=============================================================================
