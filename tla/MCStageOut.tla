------------------------------- MODULE MCStageOut -------------------------------
(* Instances of StageOut for TLC: a file of a job that may run again, with one *)
(* fault; two files of jobs that run once.                                     *)
EXTENDS StageOut

CONSTANTS f1, f2

Bound(a, b, n) == [runs |-> [f \in Files |-> IF f = f1 THEN a ELSE b], faults |-> n]

TwoRunsOrTwoFiles == {Bound(2, 0, 1), Bound(1, 1, 0)}
===============================================================================
