---------------------------- MODULE TaskLifecycle ----------------------------
(* The life of tasks between the users and the grid scheduler.                 *)
(*                                                                             *)
(* Users send commands to the REST interface (CRABInterface/DataWorkflow.py),  *)
(* which reads the row of the task and then writes it: two statements, with no *)
(* lock in between. TaskWorkers (TaskWorker/MasterWorker.py) move rows from    *)
(* NEW to HOLDING to QUEUED and inject them into their slaves, whose handlers  *)
(* (TaskWorker/Actions) act on the scheduler and then write the outcome to the *)
(* row. TapeRecallManager, a recurring action, moves the rows that wait for a  *)
(* tape recall. Every write goes through a REST call that CRABRest.makeRequest *)
(* repeats when it gets no answer, so that one write may land several times,   *)
(* and may have landed although the caller gave up.                            *)
(*                                                                             *)
(* A TaskWorker crash (stop_srv ends with SIGKILL to the master and to all the *)
(* slaves) loses everything but the rows and the scheduler's jobs.             *)
EXTENDS TaskDB

CONSTANTS
    Clients,      \* concurrent user requests
    TWs,          \* TaskWorkers, by config.TaskWorker.name
    Slots,        \* works a TaskWorker can hold: queue and slaves (WorkerPool)
    Rejected,     \* config.TaskWorker.rejectedCommands
    BannedTasks,  \* tasks of config.TaskWorker.bannedUsernames
    DryRunTasks,  \* tasks submitted with --dryrun
    TapeTasks,    \* tasks whose input is on tape only
    AutoTasks,    \* tasks with automatic splitting
    RecallTWs,    \* TaskWorkers with TapeRecallManager in their recurringActions
    MaxRequests,  \* bound: user commands after submission
    MaxFaults,    \* bound: REST calls without an answer
    MaxCrashes,   \* bound: crashes of a TaskWorker
    NoTW, NoTask

ASSUME LifecycleAssumption ==
    /\ IsFiniteSet(Tasks) /\ IsFiniteSet(Slots) /\ Slots # {}
    /\ Rejected \subseteq Commands
    /\ BannedTasks \subseteq Tasks /\ DryRunTasks \subseteq Tasks /\ TapeTasks \subseteq Tasks
    /\ AutoTasks \subseteq Tasks
    /\ RecallTWs \subseteq TWs
    /\ MaxRequests \in Nat /\ MaxFaults \in Nat /\ MaxCrashes \in Nat
    /\ NoTW \notin TWs /\ NoTask \notin Tasks

VARIABLES
    dag,        \* the ROOT DAG of the task on its schedd
    ontape,     \* the input of the task is on tape only
    req,        \* client -> the request between its read and its write
    mpc,        \* TaskWorker -> where its master process is
    batch,      \* TaskWorker -> rows read and not yet handled
    acked,      \* TaskWorker -> toInject: rows set to QUEUED, not yet injected
    job,        \* TaskWorker -> slot -> the handler at work
    phase,      \* TaskWorker -> the status its TapeRecallManager works on
    recall,     \* TaskWorker -> rows read by its TapeRecallManager
    requests, faults, crashes,  \* counters for the bounds
    stale,      \* history: some write replaced a row its writer had not seen
    unreported  \* history: the DAG has been submitted, no KILL has held it since, and
                \* the last report on its submission has not landed, or was a failure

recallVars == <<phase, recall>>
twVars == <<mpc, batch, acked, job, recallVars>>
counters == <<requests, faults, crashes>>
vars == <<dbVars, dag, ontape, req, twVars, counters, stale, unreported>>

NoReq == [op |-> "none", task |-> NoTask, row |-> [status |-> "NONE", command |-> "NULL"]]
NoJob == [pc |-> "idle", task |-> NoTask, command |-> "NULL", dry |-> FALSE,
          out |-> "NONE", row |-> [status |-> "NONE", command |-> "NULL"]]

(* What GET workflowdb returns for a task.                                     *)
Snapshot(t) == [task |-> t, command |-> command[t], dry |-> dryrun[t], row |-> Row(t)]

(* A write to the row of t by someone who last saw it as row.                  *)
Write(t, st, c, row) ==
    /\ SetStatusTask(t, st, c)
    /\ stale' = [stale EXCEPT ![t] = @ \/ Row(t) # row]

Init ==
    /\ status = [t \in Tasks |-> "NONE"]
    /\ command = [t \in Tasks |-> "NULL"]
    /\ twname = [t \in Tasks |-> NoTW]
    /\ dryrun = [t \in Tasks |-> t \in DryRunTasks]
    /\ schedd = [t \in Tasks |-> FALSE]
    /\ dag = [t \in Tasks |-> "none"]
    /\ ontape = [t \in Tasks |-> t \in TapeTasks]
    /\ req = [c \in Clients |-> NoReq]
    /\ mpc = [w \in TWs |-> "restart"]
    /\ batch = [w \in TWs |-> {}]
    /\ acked = [w \in TWs |-> {}]
    /\ job = [w \in TWs |-> [s \in Slots |-> NoJob]]
    /\ phase = [w \in TWs |-> "idle"]
    /\ recall = [w \in TWs |-> {}]
    /\ requests = 0 /\ faults = 0 /\ crashes = 0
    /\ stale = [t \in Tasks |-> FALSE]
    /\ unreported = [t \in Tasks |-> FALSE]

(* The write of st and c for x landed without an answer and will be sent again:*)
(* what its sender knows of the row is what it wrote.                          *)
Resent(set, x, st, c) == (set \ {x}) \cup {[x EXCEPT !.row = [status |-> st, command |-> c]]}

Fault == faults < MaxFaults /\ faults' = faults + 1

-------------------------------------------------------------------------------
(* The REST interface: DataWorkflow.                                           *)

(* submit: the row is inserted.                                                *)
Submit(t) ==
    /\ status[t] = "NONE"
    /\ SetStatusTask(t, "NEW", "SUBMIT")
    /\ UNCHANGED <<twname, dryrun, schedd, dag, ontape, req, twVars, counters, stale, unreported>>

(* kill, resubmit2 and proceed first read the row.                             *)
ReadRow(c, op, t) ==
    /\ req[c] = NoReq /\ requests < MaxRequests
    /\ status[t] # "NONE"
    /\ req' = [req EXCEPT ![c] = [op |-> op, task |-> t, row |-> Row(t)]]
    /\ requests' = requests + 1
    /\ UNCHANGED <<dbVars, dag, ontape, twVars, faults, crashes, stale, unreported>>

(* The request ends without a write: refused for the status it read, for the   *)
(* age of the task, for its splitting, or because it resubmits publications.   *)
Refuse(c) ==
    /\ req[c] # NoReq
    /\ req' = [req EXCEPT ![c] = NoReq]
    /\ UNCHANGED <<dbVars, dag, ontape, twVars, counters, stale, unreported>>

(* A bug the properties must find: a task at work can be killed.               *)
BugKillableStatuses == {"SUBMITTED", "KILLFAILED", "RESUBMITFAILED", "FAILED", "KILLED", "QUEUED"}

(* The write of a request that has read a row satisfying guard.                *)
WriteRow(c, op, guard, st, cmd) ==
    /\ req[c].op = op /\ guard
    /\ Write(req[c].task, st, cmd, req[c].row)
    /\ req' = [req EXCEPT ![c] = NoReq]
    /\ UNCHANGED <<twname, dryrun, schedd, dag, ontape, twVars, counters, unreported>>

KillableStatuses == {"SUBMITTED", "KILLFAILED", "RESUBMITFAILED", "FAILED", "KILLED"}

Kill(c) ==
    LET row == req[c].row IN
    \/ WriteRow(c, "kill", row.status \in KillableStatuses, "NEW", "KILL")
    \/ WriteRow(c, "kill", row.status = "TAPERECALL", "KILLRECALL", "KILL")
    \/ WriteRow(c, "kill", row = [status |-> "NEW", command |-> "SUBMIT"], "KILLED", "KILL")

ResubmittableStatuses == {"SUBMITTED", "KILLED", "KILLFAILED", "RESUBMITFAILED", "FAILED"}

(* resubmit2, for jobs.                                                        *)
Resubmit(c) ==
    LET row == req[c].row IN
    \/ WriteRow(c, "resubmit", row.status = "SUBMITFAILED", "NEW", "SUBMIT")
    \/ WriteRow(c, "resubmit", row.status \in ResubmittableStatuses, "NEW", "RESUBMIT")

(* The first of the two writes of proceed.                                     *)
ClearDryRun(c) ==
    /\ req[c].op = "proceed" /\ req[c].row.status = "UPLOADED"
    /\ dryrun' = [dryrun EXCEPT ![req[c].task] = FALSE]
    /\ req' = [req EXCEPT ![c].op = "proceed2"]
    /\ UNCHANGED <<status, command, twname, schedd, dag, ontape, twVars, counters, stale, unreported>>

Proceed(c) == WriteRow(c, "proceed2", TRUE, "NEW", "SUBMIT")

Client(c) == \/ \E t \in Tasks, op \in {"kill", "resubmit", "proceed"} : ReadRow(c, op, t)
             \/ Refuse(c) \/ Kill(c) \/ Resubmit(c) \/ ClearDryRun(c) \/ Proceed(c)

-------------------------------------------------------------------------------
(* The master process of a TaskWorker: MasterWorker.algorithm.                 *)

Idle(w) == {s \in Slots : job[w][s] = NoJob}

(* restartQueuedTasks reads a chunk of this TaskWorker's QUEUED tasks.         *)
RestartGet(w) ==
    /\ mpc[w] = "restart" /\ batch[w] = {}
    /\ \E rows \in GetReadyTasks(w, Cardinality(Slots), "QUEUED") :
        /\ rows # {}
        /\ batch' = [batch EXCEPT ![w] = {Snapshot(t) : t \in rows}]
    /\ UNCHANGED <<dbVars, dag, ontape, req, mpc, acked, job, recallVars, counters, stale, unreported>>

(* A bug the properties must find: only one chunk is read.                   *)
BugRestartDone(w) ==
    /\ mpc[w] = "restart"
    /\ mpc' = [mpc EXCEPT ![w] = "top"]
    /\ batch' = [batch EXCEPT ![w] = {}]
    /\ UNCHANGED <<dbVars, dag, ontape, req, acked, job, recallVars, counters, stale, unreported>>

(* Nothing is left, or the answer did not come: both end the loop.             *)
RestartDone(w) ==
    /\ mpc[w] = "restart" /\ batch[w] = {}
    /\ \/ GetReadyTasks(w, Cardinality(Slots), "QUEUED") = {{}} /\ UNCHANGED faults
       \/ Fault
    /\ mpc' = [mpc EXCEPT ![w] = "top"]
    /\ UNCHANGED <<dbVars, dag, ontape, req, batch, acked, job, recallVars, requests, crashes, stale, unreported>>

(* One task goes back to NEW, or the write lands and is sent again, or it is   *)
(* given up, which updateWork reports and its caller ignores here.             *)
RestartTask(w) ==
    /\ mpc[w] = "restart"
    /\ \E x \in batch[w] :
        \/ /\ Write(x.task, "NEW", x.command, x.row)
           /\ \/ batch' = [batch EXCEPT ![w] = @ \ {x}] /\ UNCHANGED faults
              \/ batch' = [batch EXCEPT ![w] = Resent(@, x, "NEW", x.command)] /\ Fault
        \/ /\ batch' = [batch EXCEPT ![w] = @ \ {x}] /\ Fault
           /\ UNCHANGED <<status, command, stale>>
    /\ UNCHANGED <<twname, dryrun, schedd, dag, ontape, req, mpc, acked, job, recallVars, requests, crashes, unreported>>

(* _lockWork: NEW tasks become HOLDING, in the name of this TaskWorker. When   *)
(* no answer comes the loop sleeps and tries again, in the same place.         *)
LockWork(w) ==
    /\ mpc[w] = "top"
    /\ UpdateWorker(w, Cardinality(Idle(w)), "NEW", "HOLDING")
    /\ \/ mpc' = [mpc EXCEPT ![w] = "get"] /\ UNCHANGED faults
       \/ Fault /\ UNCHANGED mpc
    /\ UNCHANGED <<command, dryrun, schedd, dag, ontape, req, batch, acked, job, recallVars, requests, crashes,
                   stale, unreported>>

(* getWork; without an answer there is no pending work in this turn.           *)
GetWork(w) ==
    /\ mpc[w] = "get"
    /\ \/ /\ \E rows \in GetReadyTasks(w, Cardinality(Idle(w)), "HOLDING") :
                batch' = [batch EXCEPT ![w] = {Snapshot(t) : t \in rows}]
          /\ UNCHANGED faults
       \/ Fault /\ UNCHANGED batch
    /\ mpc' = [mpc EXCEPT ![w] = "ack"]
    /\ UNCHANGED <<dbVars, dag, ontape, req, acked, job, recallVars, requests, crashes, stale, unreported>>

(* One call of updateWork for the pending task x, as seen in the row x.row: it *)
(* succeeds (ok), lands and gets no answer so that it will be sent again, or   *)
(* is given up.                                                                *)
Ack(w, x, st, done) ==
    /\ mpc[w] = "ack" /\ x \in batch[w]
    /\ \/ /\ Write(x.task, st, x.command, x.row)
          /\ done
          /\ batch' = [batch EXCEPT ![w] = @ \ {x}]
          /\ UNCHANGED faults
       \/ /\ Fault
          /\ Write(x.task, st, x.command, x.row)
          /\ batch' = [batch EXCEPT ![w] = Resent(@, x, st, x.command)]
          /\ UNCHANGED acked
    /\ UNCHANGED <<twname, dryrun, schedd, dag, ontape, req, mpc, job, recallVars, requests, crashes, unreported>>

Refused(x) == x.task \in BannedTasks \/ x.command \in Rejected

(* failBannedTask, and skipRejectedCommand: "ignore, i.e. leave in status      *)
(* 'SUBMITTED'" for RESUBMIT and KILL.                                         *)
RefusedStatus(x) ==
    IF x.task \in BannedTasks \/ x.command = "SUBMIT" THEN FailStatus(x.command) ELSE "SUBMITTED"

RefuseTask(w) == \E x \in batch[w] : Refused(x) /\ Ack(w, x, RefusedStatus(x), UNCHANGED acked)

QueueTask(w) == \E x \in batch[w] :
    ~Refused(x) /\ Ack(w, x, "QUEUED", acked' = [acked EXCEPT ![w] = @ \cup {x}])

(* updateWork returns False: "The task stays in HOLDING and will be acquired   *)
(* again later".                                                               *)
SkipTask(w) ==
    /\ mpc[w] = "ack"
    /\ \E x \in batch[w] : batch' = [batch EXCEPT ![w] = @ \ {x}]
    /\ Fault
    /\ UNCHANGED <<dbVars, dag, ontape, req, mpc, acked, job, recallVars, requests, crashes, stale, unreported>>

(* injectWorks puts the tasks of toInject in free slots.                       *)
InjectWork(w) ==
    /\ mpc[w] = "ack" /\ batch[w] = {}
    /\ \E x \in acked[w], s \in Idle(w) :
        /\ job' = [job EXCEPT ![w][s] = [pc |-> "run", task |-> x.task, command |-> x.command,
                        dry |-> x.dry, out |-> "NONE",
                        row |-> [status |-> "QUEUED", command |-> x.command]]]
        /\ acked' = [acked EXCEPT ![w] = @ \ {x}]
    /\ UNCHANGED <<dbVars, dag, ontape, req, mpc, batch, recallVars, counters, stale, unreported>>

EndOfTurn(w) ==
    /\ mpc[w] = "ack" /\ batch[w] = {} /\ acked[w] = {}
    /\ mpc' = [mpc EXCEPT ![w] = "top"]
    /\ UNCHANGED <<dbVars, dag, ontape, req, batch, acked, job, recallVars, counters, stale, unreported>>

(* The process is started again after a crash.                                 *)
Start(w) ==
    /\ mpc[w] = "down"
    /\ mpc' = [mpc EXCEPT ![w] = "restart"]
    /\ UNCHANGED <<dbVars, dag, ontape, req, batch, acked, job, recallVars, counters, stale, unreported>>

Crash(w) ==
    /\ mpc[w] # "down" /\ crashes < MaxCrashes
    /\ mpc' = [mpc EXCEPT ![w] = "down"]
    /\ batch' = [batch EXCEPT ![w] = {}]
    /\ acked' = [acked EXCEPT ![w] = {}]
    /\ job' = [job EXCEPT ![w] = [s \in Slots |-> NoJob]]
    /\ phase' = [phase EXCEPT ![w] = "idle"]
    /\ recall' = [recall EXCEPT ![w] = {}]
    /\ crashes' = crashes + 1
    /\ UNCHANGED <<dbVars, dag, ontape, req, requests, faults, stale, unreported>>

Master(w) == \/ RestartGet(w) \/ RestartDone(w) \/ RestartTask(w) \/ LockWork(w) \/ GetWork(w)
             \/ RefuseTask(w) \/ QueueTask(w) \/ SkipTask(w) \/ InjectWork(w) \/ EndOfTurn(w)

-------------------------------------------------------------------------------
(* The handlers (Actions/Handler.py), in the slaves. A handler first acts on   *)
(* the scheduler, then reports: pc "post" writes the outcome, pc "fail" is     *)
(* failTask, called for every exception that leaves the handler.               *)

At(w, s, cmd) == job[w][s].pc = "run" /\ job[w][s].command = cmd

Turn(w, s, pc, out) == job' = [job EXCEPT ![w][s].pc = pc, ![w][s].out = out]

Fail(w, s) == Turn(w, s, "fail", FailStatus(job[w][s].command))

(* handleNewTask: the actions before the submission may fail, find the input   *)
(* on tape, or end with a dry run. Once the submission has been tried, only it *)
(* is tried again.                                                             *)
Prepare(w, s) ==
    /\ At(w, s, "SUBMIT")
    /\ \/ Fail(w, s)
       \/ /\ job[w][s].out # "SUBMITTED" /\ ontape[job[w][s].task]
          /\ Turn(w, s, "post", "TAPERECALL")
       \/ job[w][s].dry /\ Turn(w, s, "post", "UPLOADED")
    /\ UNCHANGED <<dbVars, dag, ontape, req, mpc, batch, acked, recallVars, counters, stale, unreported>>

(* DagmanSubmitter: a schedd is chosen and recorded, then either the DAG is    *)
(* submitted, or found there already by duplicateCheck, or the action fails;   *)
(* with a held DAG it always does.                                             *)
SubmitDAG(w, s) ==
    LET t == job[w][s].task IN
    /\ At(w, s, "SUBMIT") /\ ~job[w][s].dry
    /\ schedd' = [schedd EXCEPT ![t] = TRUE]
    /\ \/ Fail(w, s) /\ UNCHANGED <<dag, unreported>>
       \/ /\ dag[t] # "held"
          /\ dag' = [dag EXCEPT ![t] = "running"]
          /\ unreported' = [unreported EXCEPT ![t] = TRUE]
          /\ Turn(w, s, "post", "SUBMITTED")
    /\ UNCHANGED <<status, command, twname, dryrun, ontape, req, mpc, batch, acked, recallVars, counters, stale>>

(* A bug the properties must find: the jobs are removed, the DAG goes on.    *)
BugKillDAG(w, s) ==
    /\ At(w, s, "KILL")
    /\ Fail(w, s) \/ (schedd[job[w][s].task] /\ Turn(w, s, "post", "KILLED"))
    /\ UNCHANGED <<dbVars, dag, ontape, req, mpc, batch, acked, recallVars, counters, stale, unreported>>

(* DagmanKiller: Hold for the DAGs, Remove for the jobs; either may fail.      *)
KillDAG(w, s) ==
    LET t == job[w][s].task IN
    /\ At(w, s, "KILL")
    /\ \/ Fail(w, s) /\ UNCHANGED <<dag, unreported>>
       \/ /\ schedd[t]
          /\ dag' = [dag EXCEPT ![t] = IF @ = "running" THEN "held" ELSE @]
          /\ unreported' = [unreported EXCEPT ![t] = FALSE]
          /\ Fail(w, s) \/ Turn(w, s, "post", "KILLED")
    /\ UNCHANGED <<dbVars, ontape, req, mpc, batch, acked, recallVars, counters, stale>>

(* DagmanResubmitter: Hold, then Release, of the ROOT DAG; it may fail between.*)
ResubmitDAG(w, s) ==
    LET t == job[w][s].task IN
    /\ At(w, s, "RESUBMIT")
    /\ \/ Fail(w, s) /\ UNCHANGED dag
       \/ /\ schedd[t]
          /\ \/ dag' = [dag EXCEPT ![t] = IF @ = "running" THEN "held" ELSE @] /\ Fail(w, s)
             \/ /\ dag' = [dag EXCEPT ![t] = IF @ = "held" THEN "running" ELSE @]
                /\ Turn(w, s, "post", "SUBMITTED")
    /\ UNCHANGED <<dbVars, ontape, req, mpc, batch, acked, recallVars, counters, stale, unreported>>

(* Reports with subresource=state name no command, and the row loses its own;  *)
(* those with success, failure or addddmreqid leave it alone.                  *)
ReportedCommand(j) ==
    IF j.pc = "post" /\ (j.out \in {"UPLOADED", "KILLED"} \/ j.command = "RESUBMIT")
    THEN "NULL" ELSE command[j.task]

(* A report lands in the row.                                                  *)
Land(j) ==
    /\ Write(j.task, j.out, ReportedCommand(j), j.row)
    /\ unreported' = [unreported EXCEPT ![j.task] =
            CASE j.out = "SUBMITTED" -> FALSE
              [] j.out = "SUBMITFAILED" -> dag[j.task] = "running"
              [] OTHER -> @]

Report(w, s) ==
    LET j == job[w][s] IN
    /\ j.pc \in {"post", "fail"}
    /\ Land(j)
    /\ \/ job' = [job EXCEPT ![w][s] = NoJob] /\ UNCHANGED faults
       \/ \* no answer: makeRequest will send it again
          /\ Fault
          /\ job' = [job EXCEPT ![w][s].row = [status |-> j.out, command |-> ReportedCommand(j)]]
    /\ UNCHANGED <<twname, dryrun, schedd, dag, ontape, req, mpc, batch, acked, recallVars, requests, crashes>>

(* makeRequest gives up. The handler fails, or starts the same action again if *)
(* it asked for that, as the data discovery and DagmanSubmitter do; failTask   *)
(* ignores it.                                                                 *)
ReportGiveUp(w, s) ==
    /\ Fault
    /\ \/ job[w][s].pc = "post" /\ Fail(w, s)
       \/ /\ job[w][s].pc = "post" /\ job[w][s].command = "SUBMIT"
          /\ job[w][s].out \in {"TAPERECALL", "SUBMITTED"}
          /\ Turn(w, s, "run", job[w][s].out)
       \/ job[w][s].pc = "fail" /\ job' = [job EXCEPT ![w][s] = NoJob]
    /\ UNCHANGED <<dbVars, dag, ontape, req, mpc, batch, acked, recallVars, requests, crashes, stale, unreported>>

Handle(w, s) == \/ Prepare(w, s) \/ SubmitDAG(w, s) \/ KillDAG(w, s) \/ ResubmitDAG(w, s)
                \/ Report(w, s) \/ ReportGiveUp(w, s)

(* The DAG ends, or the schedd removes it after its time on hold.              *)
DagLeaves(t) ==
    /\ dag[t] # "none"
    /\ dag' = [dag EXCEPT ![t] = "none"]
    /\ unreported' = [unreported EXCEPT ![t] = FALSE]
    /\ UNCHANGED <<dbVars, ontape, req, twVars, counters, stale>>

(* PreDAG, which splits the task again in the running DAG, fails it with no    *)
(* look at the row: to its knowledge the task is SUBMITTED.                    *)
DagFails(t) ==
    /\ t \in AutoTasks /\ dag[t] = "running" /\ status[t] # "FAILED"
    /\ Write(t, "FAILED", command[t], [status |-> "SUBMITTED", command |-> command[t]])
    /\ UNCHANGED <<twname, dryrun, schedd, dag, ontape, req, twVars, counters, unreported>>

(* A bug the properties must find: the second list is read by another name.    *)
BugIdlePhase == [idle |-> "TAPERECALL", TAPERECALL |-> "KILLED", KILLED |-> "idle"]

(* A bug the properties must find: handleKill is never reached.              *)
BugNextPhase == [idle |-> "TAPERECALL", TAPERECALL |-> "idle", KILLRECALL |-> "idle"]

-------------------------------------------------------------------------------
(* TapeRecallManager: handleRecall on the TAPERECALL rows of all TaskWorkers,  *)
(* then handleKill on the KILLRECALL ones.                                     *)

NextPhase == [idle |-> "TAPERECALL", TAPERECALL |-> "KILLRECALL", KILLRECALL |-> "idle"]

(* getTasks, which answers an empty list to an error.                          *)
RecallGet(w) ==
    LET p == NextPhase[phase[w]] IN
    /\ mpc[w] # "down" /\ recall[w] = {}
    /\ phase' = [phase EXCEPT ![w] = p]
    /\ \/ /\ recall' = [recall EXCEPT ![w] = {Snapshot(t) : t \in {u \in Tasks : status[u] = p}}]
          /\ UNCHANGED faults
       \/ p # "idle" /\ Fault /\ UNCHANGED recall
    /\ UNCHANGED <<dbVars, dag, ontape, req, mpc, batch, acked, job, requests, crashes, stale, unreported>>

(* Rucio brings the input to disk, and the rule is OK.                         *)
StageIn(t) ==
    /\ ontape[t]
    /\ ontape' = [ontape EXCEPT ![t] = FALSE]
    /\ UNCHANGED <<dbVars, dag, req, twVars, counters, stale, unreported>>

(* The rule is not OK yet, or was not found.                                   *)
RecallWait(w) ==
    /\ phase[w] = "TAPERECALL"
    /\ \E x \in recall[w] : recall' = [recall EXCEPT ![w] = @ \ {x}]
    /\ UNCHANGED <<dbVars, dag, ontape, req, mpc, batch, acked, job, phase, counters, stale, unreported>>

(* A write of the manager, which may land and be sent again.                   *)
RecallWrite(w, x, st, c) ==
    /\ Write(x.task, st, c, x.row)
    /\ \/ recall' = [recall EXCEPT ![w] = @ \ {x}] /\ UNCHANGED faults
       \/ /\ Fault
          /\ recall' = [recall EXCEPT ![w] = Resent(@, x, st, c)]
    /\ UNCHANGED <<twname, dryrun, schedd, dag, ontape, req, mpc, batch, acked, job, phase, requests, crashes, unreported>>

(* The recall is complete, or took more than MAX_DAYS_FOR_TAPERECALL.          *)
RecallEnd(w, t) ==
    /\ phase[w] = "TAPERECALL"
    /\ \E x \in recall[w] :
        /\ x.task = t
        /\ \/ /\ x.row.status \in {"TAPERECALL", "NEW"} /\ ~ontape[t]
              /\ RecallWrite(w, x, "NEW", "SUBMIT")
           \/ x.row.status \in {"TAPERECALL", "FAILED"} /\ RecallWrite(w, x, "FAILED", command[t])

(* Every row it finds has its rule: UpdateDDMReqId writes that together with   *)
(* TAPERECALL, the only state from which a kill leads to KILLRECALL.           *)
RecallKill(w) ==
    /\ phase[w] = "KILLRECALL"
    /\ \E x \in recall[w] : RecallWrite(w, x, "KILLED", "KILL")

(* A call to the REST interface or to Rucio fails: the exception ends this     *)
(* execution of the action. The one in failTask does not; it is a RecallWait.  *)
RecallAbort(w) ==
    /\ phase[w] # "idle" /\ Fault
    /\ phase' = [phase EXCEPT ![w] = "idle"]
    /\ recall' = [recall EXCEPT ![w] = {}]
    /\ UNCHANGED <<dbVars, dag, ontape, req, mpc, batch, acked, job, requests, crashes, stale, unreported>>

Recall(w) == \/ RecallGet(w) \/ RecallWait(w) \/ (\E t \in Tasks : RecallEnd(w, t))
             \/ RecallKill(w) \/ RecallAbort(w)

-------------------------------------------------------------------------------
TaskWorker(w) == \/ Master(w) \/ Start(w) \/ Crash(w)
                 \/ \E s \in Slots : Handle(w, s)
                 \/ w \in RecallTWs /\ Recall(w)

Next == \/ \E t \in Tasks : Submit(t) \/ DagLeaves(t) \/ DagFails(t) \/ StageIn(t)
        \/ \E c \in Clients : Client(c)
        \/ \E w \in TWs : TaskWorker(w)

Spec == Init /\ [][Next]_vars

(* stop_srv and start_srv bring a TaskWorker back; its processes are never     *)
(* starved; a recall that does not complete is failed after some days, so that *)
(* the manager cannot keep waiting for it.                                     *)
FairSpec ==
    /\ Spec
    /\ \A w \in TWs :
        /\ WF_vars(Start(w)) /\ WF_vars(Master(w))
        /\ \A s \in Slots : WF_vars(Handle(w, s))
    /\ \A w \in RecallTWs :
        /\ WF_vars(Recall(w))
        /\ \A t \in Tasks : SF_vars(RecallEnd(w, t))

-------------------------------------------------------------------------------
(* Properties.                                                                 *)

RowType == [status : Statuses, command : Commands \cup {"NULL"}]
SnapshotType == [task : Tasks, command : Commands \cup {"NULL"}, dry : BOOLEAN, row : RowType]
JobType == [pc : {"run", "post", "fail"}, task : Tasks, command : Commands, dry : BOOLEAN,
            out : Statuses, row : RowType] \cup {NoJob}
ReqType == [op : {"kill", "resubmit", "proceed", "proceed2"}, task : Tasks, row : RowType] \cup {NoReq}

(* The type of the state: in particular rows only ever hold a status and a     *)
(* command the code knows.                                                     *)
TypeOK ==
    /\ status \in [Tasks -> Statuses] /\ command \in [Tasks -> Commands \cup {"NULL"}]
    /\ twname \in [Tasks -> TWs \cup {NoTW}]
    /\ dryrun \in [Tasks -> BOOLEAN] /\ schedd \in [Tasks -> BOOLEAN]
    /\ dag \in [Tasks -> {"none", "running", "held"}] /\ ontape \in [Tasks -> BOOLEAN]
    /\ req \in [Clients -> ReqType]
    /\ mpc \in [TWs -> {"restart", "top", "get", "ack", "down"}]
    /\ batch \in [TWs -> SUBSET SnapshotType] /\ acked \in [TWs -> SUBSET SnapshotType]
    /\ job \in [TWs -> [Slots -> JobType]]
    /\ phase \in [TWs -> {"idle", "TAPERECALL", "KILLRECALL"}]
    /\ recall \in [TWs -> SUBSET SnapshotType]
    /\ requests \in 0..MaxRequests /\ faults \in 0..MaxFaults /\ crashes \in 0..MaxCrashes
    /\ stale \in [Tasks -> BOOLEAN] /\ unreported \in [Tasks -> BOOLEAN]

(* The handlers that have not reported yet on t.                               *)
Handlers(t) == {h \in TWs \X Slots : /\ job[h[1]][h[2]].task = t
                                     /\ job[h[1]][h[2]].row.status = "QUEUED"}
Holders(t) == {x \in TWs \X {"acked"} : \E y \in acked[x[1]] : y.task = t} \cup Handlers(t)

(* No two handlers work on a task at the same time, in one TaskWorker or in    *)
(* two, across crashes, restarts and lost answers, as long as the row was not  *)
(* overwritten by somebody who had not seen it: "to ensure no race in case of  *)
(* multiple TWs".                                                              *)
NoConcurrentWork == \A t \in Tasks : ~stale[t] => Cardinality(Holders(t)) <= 1

(* A QUEUED task has somebody to work on it, or its TaskWorker is down or      *)
(* about to find it: without lost answers none is forgotten.                   *)
QueuedAccounted ==
    \A t \in Tasks : status[t] = "QUEUED" /\ ~stale[t] /\ faults = 0 =>
        Holders(t) # {} \/ mpc[twname[t]] \in {"down", "restart"}

(* The jobs of a KILLED task do not run, unless the row was raced or the       *)
(* submission of its DAG was never reported.                                   *)
KilledMeansHeld ==
    \A t \in Tasks : status[t] = "KILLED" /\ ~stale[t] /\ ~unreported[t] => dag[t] # "running"

(* The DAG of a SUBMITTED task is not left on hold by a kill or by a           *)
(* resubmission.                                                               *)
SubmittedRuns == \A t \in Tasks : status[t] = "SUBMITTED" /\ ~stale[t] => dag[t] # "held"

(* The row and the DAG of a task agree.                                        *)
RowAndDagAgree == KilledMeansHeld /\ SubmittedRuns

(* Rows change as the diagram of TaskStatus says.                              *)
Diagram == INSTANCE TaskStatus WITH row <- [t \in Tasks |-> Row(t)], raced <- stale
ImplementsDiagram == Diagram!Spec

(* A command, whatever crashes, leads to an outcome or to a tape recall.       *)
CommandSettles ==
    \A t \in Tasks : status[t] \in {"NEW", "HOLDING", "QUEUED"}
                        ~> status[t] \notin {"NEW", "HOLDING", "QUEUED"}

(* A recall, killed or not, ends.                                              *)
RecallEnds ==
    \A t \in Tasks : status[t] \in {"TAPERECALL", "KILLRECALL"}
                        ~> status[t] \notin {"TAPERECALL", "KILLRECALL"}

(* No task is stuck in a status that something works on.                       *)
TasksSettle == CommandSettles /\ RecallEnds
===============================================================================
