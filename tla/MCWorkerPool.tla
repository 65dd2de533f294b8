----------------------------- MODULE MCWorkerPool -----------------------------
(* Instances of WorkerPool for TLC.                                            *)
EXTENDS WorkerPool, TLC

CONSTANTS s1, s2, w1, w2, w3, r1, r2

SlavesSymmetry == Permutations(Slaves) \cup Permutations(Works \ Recurring) \cup Permutations(Recurring)

===============================================================================
