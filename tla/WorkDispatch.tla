----------------------------- MODULE WorkDispatch -----------------------------
(* What the main loop of the TaskWorker relies on when it hands works to the   *)
(* class Worker, with no mention of workids, queues or processes: a work is    *)
(* done by at most one slave, at most once, and is counted in the load from    *)
(* the moment it is injected until its own result is collected.                *)
(* WorkerPool implements it.                                                   *)
EXTENDS Naturals, FiniteSets

CONSTANTS
    Works,     \* the works that can be injected
    NSlaves,   \* how many works can be worked on at the same time
    QueueSize  \* how many works can wait

VARIABLE place  \* work -> where it is

Places == {"new", "queued", "running", "reported", "collected", "lost"}

At(p) == {w \in Works : place[w] = p}

Init == place = [w \in Works |-> "new"]

Move(w, from, to) == place[w] = from /\ place' = [place EXCEPT ![w] = to]

Inject(w)  == Cardinality(At("queued")) < QueueSize /\ Move(w, "new", "queued")
Start(w)   == Cardinality(At("running")) < NSlaves /\ Move(w, "queued", "running")
Report(w)  == Move(w, "running", "reported")
Collect(w) == Move(w, "reported", "collected")
Lose(w)    == Move(w, "running", "lost")

Next == \E w \in Works : Inject(w) \/ Start(w) \/ Report(w) \/ Collect(w) \/ Lose(w)

Spec == Init /\ [][Next]_place
===============================================================================
