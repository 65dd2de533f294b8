------------------------------- MODULE MCRucioASO ------------------------------
(* Instances of RucioASO for TLC.                                              *)
EXTENDS RucioASO, TLC

CONSTANTS f1, f2

Bound(r1, r2, logs, parents, n) ==
    [runs |-> (f1 :> r1 @@ f2 :> r2), logs |-> logs, parents |-> parents, faults |-> n]

(* One file, of a job that is run twice, and two faults; a file whose parents *)
(* have to be migrated, a log file and a fault; two files and no fault.        *)
Mixed == {Bound(2, 0, {}, {}, 2), Bound(1, 1, {f2}, {f1}, 1), Bound(1, 1, {}, {}, 0)}

===============================================================================
