---------------------------- MODULE MCTaskLifecycle ----------------------------
(* Instances of TaskLifecycle for TLC.                                         *)
EXTENDS TaskLifecycle, TLC

Symmetry == Permutations(Clients) \cup Permutations(Slots)
WorkerSymmetry == Permutations(TWs) \cup Permutations(Slots)
===============================================================================
