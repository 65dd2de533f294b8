------------------------------ MODULE MCPublication ----------------------------
(* Instances of Publication for TLC: three files, one parent.                  *)
EXTENDS Publication

Bound(files, bare, parented, place, refused, n) ==
    [files |-> files, bare |-> bare,
     parents |-> [f \in Files |-> IF f \in parented THEN Parents ELSE {}],
     where |-> [p \in Parents |-> place], refused |-> refused, faults |-> n]

(* Three files, of which two fill a block, and a fault; two files and a fault, *)
(* with parents that migrate from either instance, or that the source does not *)
(* let go, or that DBS does not know or refuses; one file and two faults.      *)
Mixed ==
    {Bound({1, 2, 3}, {}, {}, "destination", {}, 1), Bound({1, 2}, {2}, {1}, "source", {}, 1),
     Bound({1, 2}, {}, {1}, "global", {}, 1), Bound({1, 2}, {}, {1}, "source", {"source"}, 1),
     Bound({1, 2}, {}, {1}, "nowhere", {}, 0), Bound({1, 2}, {}, {1, 2}, "illegal", {}, 0),
     Bound({1}, {}, {}, "destination", {}, 2)}
===============================================================================
