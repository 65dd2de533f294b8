------------------------------ MODULE WorkerPool ------------------------------
(* The pool of slave processes of the TaskWorker: the class Worker             *)
(* (TaskWorker/Worker.py), driven by the main loop of MasterWorker             *)
(* (TaskWorker/MasterWorker.py, algorithm).                                    *)
(*                                                                             *)
(* The master process puts works in the bounded multiprocessing queue inputs   *)
(* and remembers them in the dictionary working, keyed by a workid which is    *)
(* reused once its work has been collected. Each slave process takes one work  *)
(* at a time and puts its result in the multiprocessing queue results: a       *)
(* buffer inside the slave, which a feeder thread of the slave empties into a  *)
(* pipe that the master reads. On SIGTERM/SIGINT the master leaves its loop,   *)
(* puts one STOP message per slave behind the works and joins the slaves.      *)
(*                                                                             *)
(* A "work" is one call of injectWorks on one item: Works has one element per  *)
(* injection. What a work does to its task is the subject of TaskLifecycle.    *)
EXTENDS Integers, Sequences, FiniteSets

CONSTANTS
    Slaves,     \* the slave processes (config.TaskWorker.nslaves of them)
    Works,      \* the works that can be injected, each one at most once
    Recurring,  \* those that are recurring actions: injected whatever the load
    PipeSize,   \* how many results fit in the pipe of the results queue
    MaxDeaths,  \* bound: slaves that leave their loop because of an exception
    NoWork      \* what a STOP message and an idle slave carry

ASSUME PoolAssumption ==
    /\ IsFiniteSet(Slaves) /\ Slaves # {}
    /\ Recurring \subseteq Works
    /\ NoWork \notin Works
    /\ PipeSize \in Nat \ {0}
    /\ MaxDeaths \in Nat

VARIABLES
    inputs,   \* Worker.inputs, the queue of messages to the slaves
    working,  \* Worker.working: workid -> work
    todo,     \* the items of the current call of injectWorks not yet put
    workid,   \* local variable of injectWorks
    budget,   \* iterations left in the loop of checkFinished
    mpc,      \* where the master process is
    stop,     \* MasterWorker.STOP, set by the signal handler quit_
    stops,    \* STOP messages put so far by end()
    slave,    \* slave -> [pc, id, work]
    buffer,   \* results put by a slave and not yet written to the pipe
    pipe,     \* results the master can read
    injected, \* history: the works that have been put in inputs
    lost,     \* history: works whose slave died before it put their result
    dead      \* history: the slaves that died

vars == <<inputs, working, todo, workid, budget, mpc, stop, stops, slave,
          buffer, pipe, injected, lost, dead>>

masterVars == <<working, todo, workid, budget, mpc, stops, injected>>

LenInQueue == 2 * Cardinality(Slaves)

Message == [id : Nat, work : Works]
StopMessage == [id |-> -1, work |-> NoWork]
Idle == [pc |-> "get", id |-> -1, work |-> NoWork]
Leaving == [pc |-> "exiting", id |-> -1, work |-> NoWork]
Exited == [pc |-> "exited", id |-> -1, work |-> NoWork]

Init ==
    /\ inputs = <<>>
    /\ working = <<>>
    /\ todo = {}
    /\ workid = 0
    /\ budget = 0
    /\ mpc = "top"
    /\ stop = FALSE
    /\ stops = 0
    /\ slave = [s \in Slaves |-> Idle]
    /\ buffer = {}
    /\ pipe = {}
    /\ injected = {}
    /\ lost = {}
    /\ dead = {}

-------------------------------------------------------------------------------
(* The master process. An operator Bug<Op> is <Op> with a bug seeded in it: it *)
(* is used to show that a property can fail, never by the specification.       *)

queuedTasks == Cardinality(DOMAIN working)

queueableTasks ==
    IF queuedTasks >= LenInQueue THEN 0 ELSE LenInQueue - queuedTasks

(* 0 if nothing is working, else the largest workid plus one.                  *)
BugIsNextWorkid(id) == IF DOMAIN working = {} THEN id = 0 ELSE id - 1 \in DOMAIN working
IsNextWorkid(id) ==
    IF DOMAIN working = {}
    THEN id = 0
    ELSE id - 1 \in DOMAIN working /\ \A j \in DOMAIN working : j <= id - 1

(* injectWorks is called on the set of items ws.                               *)
CallInjectWorks(ws) ==
    /\ \E id \in {0} \cup {j + 1 : j \in DOMAIN working} :
            IsNextWorkid(id) /\ workid' = id
    /\ todo' = ws
    /\ mpc' = "inject"

(* One turn of the loop starts: at most queueableTasks() tasks are locked,     *)
(* retrieved and set to QUEUED, then injected.                                 *)
AcquireWork ==
    /\ mpc = "top" /\ ~stop
    /\ \E ws \in SUBSET (Works \ (Recurring \cup injected)) :
            Cardinality(ws) <= queueableTasks /\ CallInjectWorks(ws)
    /\ UNCHANGED <<inputs, working, budget, stop, stops, slave, buffer, pipe,
                   injected, lost, dead>>

(* inputs.put, which waits while the queue is full, and the new entry.         *)
Inject ==
    /\ mpc = "inject" /\ Len(inputs) < LenInQueue
    /\ \E w \in todo :
        /\ inputs' = Append(inputs, [id |-> workid, work |-> w])
        /\ working' = [i \in DOMAIN working \cup {workid} |->
                            IF i = workid THEN w ELSE working[i]]
        /\ todo' = todo \ {w}
        /\ injected' = injected \cup {w}
    /\ workid' = workid + 1
    /\ UNCHANGED <<budget, mpc, stop, stops, slave, buffer, pipe, lost,
                   dead>>

InjectDone ==
    /\ mpc = "inject" /\ todo = {}
    /\ mpc' = "recurring"
    /\ UNCHANGED <<inputs, working, todo, workid, budget, stop, stops, slave,
                   buffer, pipe, injected, lost, dead>>

(* A recurring action isTimeToGo(): injected without looking at the load.      *)
InjectRecurring ==
    /\ mpc = "recurring"
    /\ \E r \in Recurring \ injected : CallInjectWorks({r})
    /\ UNCHANGED <<inputs, working, budget, stop, stops, slave, buffer, pipe,
                   injected, lost, dead>>

BugIterations == queuedTasks - 1
Iterations == queuedTasks

(* Sleep for the polling time, then enter checkFinished.                       *)
CallCheckFinished ==
    /\ mpc = "recurring"
    /\ mpc' = "check"
    /\ budget' = Iterations
    /\ UNCHANGED <<inputs, working, todo, workid, stop, stops, slave, buffer,
                   pipe, injected, lost, dead>>

BugDeleted(i) == working
Deleted(i) == [j \in DOMAIN working \ {i} |-> working[j]]

(* One iteration of checkFinished that finds a result.                         *)
Collect ==
    /\ mpc = "check" /\ budget > 0
    /\ \E r \in pipe :
        /\ pipe' = pipe \ {r}
        /\ working' = Deleted(r.id)
    /\ budget' = budget - 1
    /\ UNCHANGED <<inputs, todo, workid, mpc, stop, stops, slave, buffer,
                   injected, lost, dead>>

(* One iteration of checkFinished that gets the exception Empty.               *)
CollectNothing ==
    /\ mpc = "check" /\ budget > 0 /\ pipe = {}
    /\ budget' = budget - 1
    /\ UNCHANGED <<inputs, working, todo, workid, mpc, stop, stops, slave,
                   buffer, pipe, injected, lost, dead>>

CheckFinishedDone ==
    /\ mpc = "check" /\ budget = 0
    /\ mpc' = "top"
    /\ UNCHANGED <<inputs, working, todo, workid, budget, stop, stops, slave,
                   buffer, pipe, injected, lost, dead>>

(* The signal handler quit_.                                                   *)
Quit ==
    /\ ~stop
    /\ stop' = TRUE
    /\ UNCHANGED <<inputs, slave, buffer, pipe, lost, dead, masterVars>>

(* The loop sees the flag; end() is called.                                    *)
LeaveLoop ==
    /\ mpc = "top" /\ stop
    /\ mpc' = "end"
    /\ UNCHANGED <<inputs, working, todo, workid, budget, stop, stops, slave,
                   buffer, pipe, injected, lost, dead>>

BugStopMessages == Cardinality(Slaves) - 1
StopMessages == Cardinality(Slaves)

(* end() puts the next STOP message, waiting while the queue is full.          *)
PutStop ==
    /\ mpc = "end" /\ stops < StopMessages /\ Len(inputs) < LenInQueue
    /\ inputs' = Append(inputs, StopMessage)
    /\ stops' = stops + 1
    /\ UNCHANGED <<working, todo, workid, budget, mpc, stop, slave, buffer,
                   pipe, injected, lost, dead>>

BugAllExited == TRUE
AllExited == \A s \in Slaves : slave[s].pc = "exited"

(* end() has joined every slave.                                               *)
Join ==
    /\ mpc = "end" /\ stops = StopMessages
    /\ AllExited
    /\ mpc' = "ended"
    /\ UNCHANGED <<inputs, working, todo, workid, budget, stop, stops, slave,
                   buffer, pipe, injected, lost, dead>>

Master == \/ AcquireWork \/ Inject \/ InjectDone \/ InjectRecurring
          \/ CallCheckFinished \/ Collect \/ CollectNothing \/ CheckFinishedDone
          \/ LeaveLoop \/ PutStop \/ Join

-------------------------------------------------------------------------------
(* The slave processes: processWorkerLoop.                                     *)

BugAfterGet == inputs
AfterGet == Tail(inputs)

(* inputs.get() returns a work.                                                *)
GetWork(s) ==
    /\ slave[s].pc = "get" /\ inputs # <<>> /\ Head(inputs).work # NoWork
    /\ slave' = [slave EXCEPT ![s] = [pc |-> "work", id |-> Head(inputs).id,
                                      work |-> Head(inputs).work]]
    /\ inputs' = AfterGet
    /\ UNCHANGED <<stop, buffer, pipe, lost, dead, masterVars>>

(* inputs.get() returns a STOP message: the slave leaves the loop.             *)
GetStop(s) ==
    /\ slave[s].pc = "get" /\ inputs # <<>> /\ Head(inputs).work = NoWork
    /\ slave' = [slave EXCEPT ![s] = Leaving]
    /\ inputs' = AfterGet
    /\ UNCHANGED <<stop, buffer, pipe, lost, dead, masterVars>>

(* The work is done, whatever its outcome, and results.put is called.          *)
PutResult(s) ==
    /\ slave[s].pc = "work"
    /\ slave' = [slave EXCEPT ![s] = Idle]
    /\ buffer' = buffer \cup {[by |-> s, id |-> slave[s].id, work |-> slave[s].work]}
    /\ UNCHANGED <<inputs, stop, pipe, lost, dead, masterVars>>

(* The slave leaves the loop on an exception: EOFError/IOError from inputs.get *)
(* or addTaskLogHandler, an OSError from removeTaskLogHandler, a BaseException *)
(* in the work. The result of the work it holds is never put.                  *)
Die(s) ==
    /\ slave[s].pc \in {"get", "work"}
    /\ Cardinality(dead) < MaxDeaths
    /\ slave' = [slave EXCEPT ![s] = Leaving]
    /\ lost' = lost \cup ({slave[s].work} \ {NoWork})
    /\ dead' = dead \cup {s}
    /\ UNCHANGED <<inputs, stop, buffer, pipe, masterVars>>

(* The feeder thread of the slave writes one result to the pipe.               *)
Feed(s) ==
    /\ Cardinality(pipe) < PipeSize
    /\ \E r \in buffer :
        /\ r.by = s
        /\ buffer' = buffer \ {r}
        /\ pipe' = pipe \cup {[id |-> r.id, work |-> r.work]}
    /\ UNCHANGED <<inputs, slave, stop, lost, dead, masterVars>>

(* The process ends once its feeder thread has written everything.             *)
Exit(s) ==
    /\ slave[s].pc = "exiting"
    /\ \A r \in buffer : r.by # s
    /\ slave' = [slave EXCEPT ![s] = Exited]
    /\ UNCHANGED <<inputs, stop, buffer, pipe, lost, dead, masterVars>>

Slave(s) == GetWork(s) \/ GetStop(s) \/ PutResult(s) \/ Feed(s) \/ Exit(s)

Next == Master \/ Quit \/ \E s \in Slaves : Slave(s) \/ Die(s)

Spec == Init /\ [][Next]_vars

(* The operating system runs the master and every slave, and a work ends: each *)
(* action retries a bounded number of times (Handler.actionWork). Nothing      *)
(* makes a signal arrive or a slave die.                                       *)
FairSpec == Spec /\ WF_vars(Master)
                 /\ \A s \in Slaves :
                        /\ WF_vars(GetWork(s) \/ GetStop(s) \/ PutResult(s))
                        /\ WF_vars(Feed(s))
                        /\ WF_vars(Exit(s))

-------------------------------------------------------------------------------
(* Properties.                                                                 *)

(* Every variable has its type.                                                *)
TypeOK ==
    /\ inputs \in Seq(Message \cup {StopMessage})
    /\ DOMAIN working \subseteq Nat /\ IsFiniteSet(DOMAIN working)
    /\ working \in [DOMAIN working -> Works]
    /\ todo \subseteq Works
    /\ workid \in Nat
    /\ budget \in Nat
    /\ mpc \in {"top", "inject", "recurring", "check", "end", "ended"}
    /\ stop \in BOOLEAN
    /\ stops \in Nat
    /\ slave \in [Slaves -> [pc : {"get", "work", "exiting", "exited"},
                            id : Nat \cup {-1}, work : Works \cup {NoWork}]]
    /\ buffer \subseteq [by : Slaves, id : Nat, work : Works]
    /\ pipe \subseteq Message
    /\ injected \subseteq Works
    /\ lost \subseteq Works
    /\ dead \subseteq Slaves

(* The places where a work can be once it is injected, with the workid it      *)
(* travels under.                                                              *)
InQueue(i, w) == \E k \in 1..Len(inputs) : inputs[k] = [id |-> i, work |-> w]
InSlave(i, w) == \E s \in Slaves : slave[s] = [pc |-> "work", id |-> i, work |-> w]
InResults(i, w) == \/ \E s \in Slaves : [by |-> s, id |-> i, work |-> w] \in buffer
                   \/ [id |-> i, work |-> w] \in pipe

(* Although workids are reused, a message in flight is always registered under *)
(* its own workid, so that checkFinished deletes the entry of the work whose   *)
(* result it read (and never an entry that is not there: a KeyError would end  *)
(* the TaskWorker). Code: injectWorks and checkFinished of Worker.             *)
WorkidOwnership ==
    /\ \A k \in 1..Len(inputs) : inputs[k].work # NoWork =>
            inputs[k].id \in DOMAIN working /\ working[inputs[k].id] = inputs[k].work
    /\ \A s \in Slaves : slave[s].pc = "work" =>
            slave[s].id \in DOMAIN working /\ working[slave[s].id] = slave[s].work
    /\ \A r \in buffer : r.id \in DOMAIN working /\ working[r.id] = r.work
    /\ \A r \in pipe : r.id \in DOMAIN working /\ working[r.id] = r.work

(* The load that queueableTasks() is computed from is the load: an entry of    *)
(* working is a work in flight, or one lost with its slave. Only a death makes *)
(* the capacity of the pool leak. Code: the uses of Worker.working.            *)
NoCapacityLeak ==
    \A i \in DOMAIN working :
        \/ InQueue(i, working[i]) \/ InSlave(i, working[i]) \/ InResults(i, working[i])
        \/ working[i] \in lost

(* A graceful stop leaves no work behind: STOP messages are read after every   *)
(* work put before them, so when the master has ended each injected work has   *)
(* been done, or was lost with its slave, if some slave survived. Code: end    *)
(* and processWorkerLoop.                                                      *)
GracefulStop ==
    mpc = "ended" /\ dead # Slaves =>
        \A k \in 1..Len(inputs) : inputs[k].work = NoWork

(* "Put len(self.pool) messages in the subprocesses queue. Each subprocess     *)
(* will work on one stop message and exit" (Worker.end): once the signal has   *)
(* arrived the slaves exit and the master ends, if some slave survives.        *)
StopsEventually == stop ~> (mpc = "ended" \/ dead = Slaves)

(* A work that has been injected is eventually collected, or lost with its     *)
(* slave, unless the TaskWorker is stopped: the master cannot wait for ever    *)
(* for a slot while a slave waits for the master. Code: algorithm,             *)
(* injectWorks, checkFinished, processWorkerLoop.                              *)
WorkCollected ==
    \A w \in Works : w \in injected ~>
        (w \in lost \/ stop \/ dead = Slaves \/ \A i \in DOMAIN working : working[i] # w)

(* Where each work is, seen from outside: a work leaves the load when no entry *)
(* of working stands for it.                                                   *)
WorkPlace(w) ==
    CASE w \notin injected -> "new"
      [] w \in injected /\ \A i \in DOMAIN working : working[i] # w -> "collected"
      [] w \in lost -> "lost"
      [] \E i \in DOMAIN working : InQueue(i, w) -> "queued"
      [] \E i \in DOMAIN working : InSlave(i, w) -> "running"
      [] OTHER -> "reported"

Dispatch == INSTANCE WorkDispatch
                WITH place <- [w \in Works |-> WorkPlace(w)],
                     NSlaves <- Cardinality(Slaves), QueueSize <- LenInQueue

(* The pool implements the abstract dispatch of works: each work is done at    *)
(* most once, by one slave, and leaves the load with its own result only.      *)
ImplementsDispatch == Dispatch!Spec

===============================================================================
