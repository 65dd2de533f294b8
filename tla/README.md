# CRABServer: TLA+ models, model checking and proofs

CRAB runs the analysis tasks of CMS physicists on the grid. A user sends a task to
the REST interface (`CRABInterface`), which keeps a row for it in Oracle (`TaskDB`).
TaskWorkers poll the rows, prepare the tasks, submit each as a DAG to one of several
HTCondor schedulers (schedds), and kill or resubmit it on request. On the schedd,
scripts around each job decide on retries; on the worker node a wrapper runs the
application and stages its output out; two transfer programs, on FTS and on Rucio,
bring the output to its destination; a Publisher for each enters it in DBS.

The modules follow a task along that way: its row and the TaskWorkers, the submission,
its automatic splitting, a job and its retries, the wrapper, the transfers, the
publication. `PROJECT.json` maps every definition to the lines it translates; paths
below are relative to `src/src/python` unless they start with `src/`.

## 1. Inventory

| Component | State it keeps | Operations | Hard behaviours | What makes it correct |
|---|---|---|---|---|
| Master loop, `TaskWorker/MasterWorker.py` | tasks read and not yet injected; the stop flag | `restartQueuedTasks`, `_lockWork`, `getWork`, `updateWork`, `algorithm` | several TaskWorkers on one table, lost answers, SIGKILL at any point | no task worked on twice, none forgotten |
| Worker pool, `TaskWorker/Worker.py` | `inputs` (bounded), `results`, `working`, the slaves | `injectWorks`, `checkFinished`, `begin`, `end` | blocking queues, out-of-order results, dying slaves, join | exact load, results credited to their work, stop ends |
| Task database, `Databases/TaskDB/Oracle/Task/Task.py` | one row per task | SQL statements, none conditional on the status it replaces but `UpdateWorker` | concurrent writers | - |
| REST for users, `CRABInterface/DataWorkflow.py` | none | `submit`, `kill`, `resubmit2`, `proceed`, `status` | read, then write, without a lock | a command is not lost, the row follows the diagram |
| REST for TaskWorkers, `CRABInterface/RESTWorkerWorkflow.py`, `RESTInteractions.py` | none | `get`, `post`, `makeRequest` | calls repeated without an answer | a report lands as if once |
| Handlers, `TaskWorker/Actions/Handler.py`, `DagmanKiller.py`, `DagmanResubmitter.py`, `DryRunUploader.py` | one task | `handleNewTask`, `handleKill`, `handleResubmit` | steps that fail half-way | row and DAG agree |
| Submitter, `TaskWorker/Actions/DagmanSubmitter.py`, `HTCondorLocator.py` | `scheddStats.taskErrors`, the ROOT DAGs | `execute`, `pickAndSetSchedd`, `duplicateCheck`, `executeInternal` | nested retries, lost reports, several schedds | the DAG of a task is submitted once |
| Tape recalls, `TaskWorker/Actions/Recurring/TapeRecallManager.py` | Rucio rules | `handleRecall`, `handleKill` | kill racing a recall, rules shared by tasks | every recall ends |
| Preparation: `DBSDataDiscovery`, `Splitter`, `DagmanCreator`, ... | files of the task | one action each | failures | - |
| Automatic splitting, `TaskWorker/Actions/PreDAG.py` | `processed`, `throughputs`, `missing_lumis`, the subdags | `executeInternal` with its splitting, creation, submission and save | tails due at the same time, late news of jobs, a restart between submission and save | each lumi in one output or one tail |
| Status cache, `src/scripts/task_process/cache_status.py` | `status_cache.pkl` | `parseJobLog`, `parseNodeStateV2` | log and node states out of step | a job shown as ended has ended |
| Job retries, `PreJob.py`, `PostJob.py`, `RetryJob.py`, `src/scripts/AdjustSites.py`, DAGMan | `retry_info`, `defer_info`, `task_statistics`, `nodes.log` | pre and post scripts, deferral, restart, resubmission | a restart between two writes of files, counts that cannot be saved, verdicts passed on by return values | fresh run numbers, no success without one, an end |
| Job wrapper, `src/scripts/gWMS-CMSRunAnalysis.sh`, `CMSRunAnalysis.py`, `cmscp.py` | job report, `cmscp_status`, copies | checks, stage-out by one policy and then another, cleaning | half-done copies, failing removals, evictions, 8-bit exit status | the report names what is stored, a success has its outputs |
| Transfers with FTS, `PostJob.py` (`ASOServerJob`), `src/scripts/task_process/FTS_Transfers.py`, `CRABInterface/RESTFile*Transfers.py` | rows of `filetransfersdb`, `transfers.txt`, `fts_jobids.txt`, `<job>.json`, the cache of statuses | inject, ask, cancel; submit, look, tell | several writers, a manager killed every 15 minutes, local files and rows out of step | a file found transferred is that of the run; rows settle |
| Transfers with Rucio, `ASO/Rucio/` | containers, datasets, replicas, locks, four bookkeeping files | `RunTransfer.algorithm` and its actions | stops between Rucio, row and file | closed datasets stay as they are, all copied files are reported |
| Publisher of Rucio blocks, `Publisher/PublisherMasterRucio.py`, `TaskPublishRucio.py` | publication state, DBS | `algorithm`, `startSlave`, `publishInDBS3` | rows and blocks that change meanwhile | only closed blocks of copied files are published |
| Publisher of FTS files, `Publisher/PublisherMaster.py`, `TaskPublish.py` | publication state, pool of processes, DBS | `algorithm`, `startSlave`, `publishInDBS3` | a process that outlives its master, failed inserts, migrations | each file once in DBS, with its parents; every request settles |
| Task columns, `CRABInterface/RESTTask.py` | warnings, output datasets | `addwarning`, `addoutputdatasets` | read-modify-write | nothing lost |

How they interact: users and TaskWorkers share nothing but the rows; a TaskWorker's
master and its slaves share two queues; slaves talk to schedds and then to the rows.
On the schedd, the scripts of a job talk to each other, to the transfer programs and to
themselves after a restart through files of the spool directory. The exit status and
the job report are all that the wrapper gives to RetryJob and to the PostJob. PostJobs,
transfer programs and Publishers share the rows of `filetransfersdb`.
`PROJECT.json` lists the hazards of this code at their lines, those no property covers
included, with the reason.

## 2. Modules

```
WorkDispatch <---implements--- WorkerPool <--- MCWorkerPool
TaskDB <--- TaskLifecycle ---implements---> TaskStatus
                 ^ MCTaskLifecycle
DagmanSubmission     JobNode
AutoSplitting <--- MCAutoSplitting     JobWrapper <--- MCJobWrapper
StageOut <--- MCStageOut     RucioASO <--- MCRucioASO     Publication <--- MCPublication
```

Each of these nine components has its theorems in a module that extends it and is named
after it (`WorkerPool_proofs`, ...). `TaskLifecycle_proofs` covers what it uses of `TaskDB` as
well; `Dags_proofs` is about both `DagmanSubmission` and `AutoSplitting`, which is why the
specification of the former has names of its own (`SubmissionSpec`, ...).

Between modules, the outcome of one is an input of the next: `TaskLifecycle` sees
`DagmanSubmission` as one action; the subdags that a task grows on its schedd are
`AutoSplitting`, which sees each job as run, saved and ended; a job of any DAG is
`JobNode`; the job that ends there with some exit code is `JobWrapper`; the transfers
that `JobNode` waits for are `StageOut` or `RucioASO`; a file that is transferred with
FTS is asked to be published in `Publication`. The Rucio way of publication is in
`RucioASO`, because there the blocks are made by the transfer program.

**TaskDB**: the columns that drive a task and the statements on them, as operators.
`UpdateWorker` and `GetReadyTasks` choose any `limit` rows, as `rownum` without
`ORDER BY` does. `SetStatusTask` and `SetStatus` select the row by name alone.

**TaskLifecycle** composes the users (`Client`), the TaskWorkers (`Master`, `Crash`,
`Start`), their handlers (`Handle`), `TapeRecallManager` (`Recall`), `PreDAG`
(`DagFails`) and the DAG over `TaskDB`. A request of a user is two actions, `ReadRow`
and a write, as in the code. `mpc` is the place of the master: `restart`
(`restartQueuedTasks`), `top` (`_lockWork`), `get` (`getWork`), `ack` (the loop over
pending tasks and the injection), `down`. `batch` holds the rows read and `acked` the
list `toInject`; a handler in a slot first acts (`run`), then reports (`post`, or
`fail` for `failTask`). A REST call can land with its answer, land without it and be
sent again (`Resent`, the second disjunct of `Ack`, `Report`, `RecallWrite`), or be
given up (`ReportGiveUp`). A handler whose report was given up fails, or does the last action
of its list again with the same outcome (`actionWork`, `Handler.py:118-150`), as a submission
or a data discovery that asked for that does; the actions before it are not repeated. The pool appears as `Slots`: the works a TaskWorker may hold. Two history
variables describe races that the code accepts: `stale[t]` when some write replaced a
row that its writer had not seen in that state, and `unreported[t]` when the DAG runs
and the row was not told.

**TaskStatus** is the abstract specification of the row: the diagram of
status and command, for every writer. `TaskLifecycle` implements it with
`row <- status and command` and `raced <- stale`. The drawing `src/etc/puml` is older
than the code (it has no QUEUED -> NEW, no UPLOADED -> NEW); the diagram here is the
one of the code.

**WorkerPool** models `Worker.py` with the queues of `multiprocessing`: `inputs` is
bounded and a put blocks; a put to `results` goes to a `buffer` from which the feeder
thread (`Feed`) writes to a `pipe` of `PipeSize` results, and a process exits only when
its buffer is empty. `working`, `workid` and the master's `todo` follow the
code; `injected`, `lost` and `dead` record history. **WorkDispatch** is what the pool
promises: a work is waiting, then in flight, then counted once with its own result, or
lost with the slave that had it.

**DagmanSubmission** models one task's submission in full: `Raise` is `actionWork`
with its five calls, `NextTry` the `max_retry + 1` tries of `execute`,
`PickAndSetSchedd` the choice of another schedd, `DuplicateCheck` the query,
`SubmitDirect` the submission with its cleanup. `running` counts a task's
ROOT DAGs on each schedd (2 stands for more) and `leftover` says whether there are held
or removed ones. In `TaskLifecycle` all this is the one action `SubmitDAG`.

**AutoSplitting** is one task with automatic splitting, from its probes to its tails.
`node` is a job: it runs (`run`), its post-job has saved what PreDAG needs (`post`), it has
ended. `cached` is what the status cache shows of that. `pre[n]` is the node of subdag
`n`, whose PRE script is PreDAG: 0 for processing, 1 and up for the tails; `waves` holds
their thresholds. `predag` is the one that has the lock, with the `status` it has read:
`Enter`, then `Raises`, `GiveUp`, `NothingToProcess` or `CreateSubdag`, `SubmitSubdag`,
`SaveProcessedJobs`, with `Restart` between any two. A job has two lumis: one that it
processes first and one that it may have no time for.

**JobNode** is a job of a DAG: `PreJob`, `Submit` and `JobEnds` (DAGMan and HTCondor), and
the post-job, whose steps are `GetDeferNum`, `PostCalculateCrabRetry`,
`PostCheckExitCode` (with RetryJob), `PostTransfer`. DAGMan remembers the `phase` and what
scripts returned (`nodes.log`); `retry_info`, `deferrals`, `job_out`, `report`, `docs` are
the files of the spool directory. `Restart` forgets `step` and nothing else;
`DagDown`, `StartDag` and `Resubmit` are the bootstrap script, AdjustSites and
DagmanResubmitter. `number` records the CRAB_Retry of each run; `mishaps` says which
failures of the bookkeeping have hit a job, so that each property can say which of
them it survives. A post-job may always end with 1, for an exception that nothing catches
(`PostJob.py:1698`), with no retry left as well. `NoDocs` says that no file of transfers exists; it is a value that no
CRAB_Retry, and no -1 of a post-job that could not count, can be.

**JobWrapper** follows one job on its node: `CMSRunAnalysis` with its exit codes, then
`cmscp.py`, step by step (`ReadJobAd` to `CmscpEnds`). `status` is `cmscp_status`,
`exitInfo` is `exit_info`, `policies` the policies still to try, `flags` the
marks in the job report, `stored` what is really at the two storages. After a failure
`CleanStageoutArea` takes the marks back and `RemoveFiles` removes the files. Each step
may fail; `Dies` and `Raises` end `main` early; `Evicted` starts over with the
storages as they are.

**StageOut** has, per file, the post-job's `step` (`Inject`, `UpdateDoc`, `MarkNew`,
`HandOver`, `GetStatus`, `CheckTransfers`, `Cancel`, `UploadMetadata`, `AskPublication`), the
row, and `source` and `dest`, the run whose bytes are at either end. The manager
(`ManagerStarts` to `AddJobs`) is `algorithm` of FTS_Transfers.py with its three kinds
of files; it may be killed at every step, as `timeout 15m` does. `cache` is the file of
statuses that the PostJobs share. `Inject` takes no notice of the state of a row it finds: the
comparison that is meant to never holds (section 5).

**RucioASO** composes the PostJobs, `RunTransfer.algorithm` (`aso.at` goes along its
actions: containers, replicas, locks, blocks, cleanup), Rucio, and the Publisher of
blocks (`pub.at`). `holds[c][f]` is the dataset a file is in, `open` says which datasets
still take files, `book` is the four bookkeeping files, each written after what it
speaks of.

**Publication** has the states of publication of the files of a task, the task's file
for TaskPublish.py (`json`), up to two slaves, of which the master waits for `mine`, and DBS: its
`blocks`, the parents `listed` for each file, and the parents that are `there`. A stop of
the master (`MasterStops`) leaves a running TaskPublish.py alone, as `stop.sh` does.

## 3. Runs

| Run | Question | Properties | Instance |
|---|---|---|---|
| `WorkerPool_safety` | load, ownership of workids, graceful stop, `WorkDispatch` implemented | `TypeOK`, `WorkidOwnership`, `NoCapacityLeak`, `GracefulStop`, `ImplementsDispatch` | 2 slaves, 3 tasks, 1 recurring action, 1 death |
| `WorkerPool_progress` | every work is collected, a stop ends | `WorkCollected`, `StopsEventually` | 1 slave, 2 tasks, 2 recurring actions, 1 death, pipe of 4 |
| `TaskLifecycle_safety` | QUEUED accounted for, row and DAG agree, `TaskStatus` implemented | `TypeOK`, `QueuedAccounted`, `RowAndDagAgree`, `ImplementsDiagram` | 1 task with its input on tape; 2 users, 2 commands, 2 slots, 1 lost answer, 1 crash |
| `TaskLifecycle_workers` | no concurrent work with two TaskWorkers | `NoConcurrentWork` | 2 tasks, one of a banned user, one a dry run of automatic splitting, KILL rejected, 1 lost answer, 1 crash |
| `TaskLifecycle_progress` | commands settle, recalls end | `TasksSettle` (`CommandSettles` and `RecallEnds`) | 2 TaskWorkers, 1 with the recall manager, 1 crash, no lost answer |
| `DagmanSubmission_check` | one DAG, where the row says; retries end | `SubmissionTypeOK`, `OneDag`, `RunningIsRecorded`, `SubmittedHasDag`, `SubmissionEnds` | 3 schedds, `max_retry` = 1 |
| `AutoSplitting_check` | no lumi lost or done twice, estimates are found, every tail gets its turn | `TypeOK`, `EachLumiOnce`, `EstimatesAreThere`, `WavesEnd` | 2 probes, 2 processing jobs, one of them perhaps without a site, tails at 50, 80 and 100 %, 1 restart |
| `JobNode_check` | run numbers, no success without one, the DAG ends | `TypeOK`, `RunNumbers`, `SuccessIsReal`, `DagFinishes` | 1 job and 1 other, 1 automatic retry, 1 deferral, 1 count not saved, 1 restart, 1 resubmission |
| `JobWrapper_check` | the report names what is stored, a success has its outputs | `TypeOK`, `ReportedIsStored`, `SuccessIsStored` | 9 job ads with up to 2 outputs; codes 0, 8001 and 10240; 1 eviction |
| `StageOut_check` | the right bytes, offered with their metadata; nothing lost track of | `TypeOK`, `FilesAreRight`, `SubmittedIsTracked`, `RowSettles` | 1 file, 2 runs, 1 fault; 2 files, 1 run each, no fault |
| `RucioASO_check` | DONE is copied, published is there and final, all is reported | `TypeOK`, `ToldIsThere`, `DatasetsAreFinal`, `CopiedIsReported` | 1 file, 2 runs, 2 faults; 1 file with parents and 1 log, 1 fault; 2 files |
| `Publication_check` | what is marked is in DBS once and with its parents; every request settles | `TypeOK`, `DoneIsPublished`, `RequestSettles` | 3 files, blocks of 2, 1 fault; 2 files, every kind of parent; 1 file, 2 faults |

`RowAndDagAgree`, `FilesAreRight`, `ToldIsThere` and `EachLumiOnce` are conjunctions of two
properties that are defined, with what they say, just before them.

*Bounds.* `MaxRequests`, `MaxFaults`, `MaxCrashes` bound user commands, lost answers
and crashes of `TaskLifecycle`; each acts on one task at a time and a second task
matters only for the acquisition in chunks and for the slots, which is why the run with
two users and two slots has one task and the run with two TaskWorkers two. Two commands
are enough for a command to race another, and for a resubmission of a killed task; one
crash with one lost answer is the combination that QUEUED tasks and repeated reports
are sensitive to. In `WorkerPool`, two slaves and four works let results
overtake each other and workids come back into use; one slave, whose queue holds two, is
enough to fill the queue and to make the master wait. `PipeSize` = 4 in
`WorkerPool_progress` holds every result, see the first observation below.
`DagmanSubmission` bounds neither failures nor crashes; three schedds make two changes
of schedd in one handler possible.

`AutoSplitting`: with two processing jobs the tails are due after one, one and two of them,
so that two are due at once and the last one comes with something left, with nothing
left, or before the others. `MaxRestarts` = 1 hits each step of each PreDAG.

`JobNode`: `MaxDeferrals`, `MaxUnsaved`, `MaxRestarts`, `MaxResubmits`. One of each, with
one automatic retry, lets a restart hit each post-job of each retry, first and deferred,
and a resubmission find a node done or failed (of a DAG that runs or is held: one that was
aborted is not there to be resubmitted). `JobWrapper`: two outputs, so
that the first may be staged out when the second fails, by both policies; one eviction.
10240 is a multiple of 256. `StageOut`, `RucioASO` and `Publication` take a set `Bounds`
of which a behaviour keeps to one member: more runs and faults with fewer files, and the
other way around. Two runs make a transfer, a line or a replica of an earlier run
possible; two files share a job of FTS, a chunk, a dataset or a block; three files and
blocks of two make a full block and a tail; one fault is a kill or a lost call
between any two steps, and a second one (`RucioASO`, `Publication`) hits the
recovery from the first. `faults` counts kills, stops and calls without an answer.

*Deadlock* is checked for `TaskLifecycle`. Elsewhere the system may really stop: a
submission that has been reported, a pool that has been shut down, a DAG that has ended,
a job that has ended, tails that are all made, files that are all transferred or published.

*Fairness.* `FairSpec` of `TaskLifecycle` assumes that the processes of a running
TaskWorker get to run (weak fairness of `Master`, of each handler, of `Recall`), that
the start script brings a TaskWorker back (weak fairness of `Start`), and strong
fairness of `RecallEnd`: `handleRecall` fails a recall after
`MAX_DAYS_FOR_TAPERECALL` days, so it cannot wait for a rule at every visit for ever.
Users, crashes, Rucio and the schedds get none. With lost answers a QUEUED
task may have to wait for the next restart (section 5), so
`CommandSettles` is checked with `MaxFaults = 0`. With several tasks the acquisition has
no order: a task may be passed over by others that keep coming back from tape recall.
`WorkerPool` assumes weak fairness of the master, of each slave and of
the feeder threads; `DagmanSubmission` of its handler.

`AutoSplitting`: weak fairness of each job with its post-job, of the status cache, which the
task process makes again every five minutes, and of each PreDAG: DAGMan starts it again
five minutes after it was deferred, and the lock is given to whoever waits for it.

`JobNode`: weak fairness of DAGMan, of jobs (HTCondor removes them after their time limit)
and of the scripts; a pre-job is not deferred for ever (its deferral is a fixed time per
job), and some start of DAGMan does not fail. The post-job needs no assumption on the
transfers: it gives up after its timeout, and that is what `DagFinishes` tests.
`StageOut`: weak fairness of the manager, which the task process starts every five
minutes, of FTS, whose jobs have a maximal time, and of each post-job, which DAGMan starts
again when it is deferred. `RucioASO`: weak fairness of the two programs, which are
started over and over, of Rucio's copies (`CopiedIsReported` speaks of copied files only)
and of the request for publication; strong fairness of `Closes`, because a block
that is open is closed when it is old enough, whenever that is looked at. `Publication`:
strong fairness of a cycle of the master with an old last publication
(`block_publication_timeout` passes) and of a migration that is over: DBS either
finishes or refuses it. `JobWrapper` has none; its properties are about safety.

## 4. Proofs

All invariants that the runs check are proved for every value of the constants, as are the
two refinements and the action property of `RucioASO`. Liveness is not, but for its safety
half in three places (*Termination* below).
Each proof module defines an inductive invariant (`IInv`, or layers of it, each proved
with the help of those before), shows that `Init` implies it and that each action keeps
it, one lemma per action or group of actions, and derives the theorems. Every such
invariant was given to TLC on the instances of section 3 before it was proved, and on
larger ones where a step looked doubtful.

| Module | Theorem | States |
|---|---|---|
| `WorkerPool_proofs` | `TypeCorrect` | `TypeOK` |
| | `WorkidsOwned` | `WorkidOwnership` |
| | `CapacityKept` | `NoCapacityLeak` |
| | `StopIsGraceful` | `GracefulStop` |
| | `DispatchIsImplemented` | `ImplementsDispatch`: the pool implements `WorkDispatch` |
| `TaskLifecycle_proofs` | `TypeCorrect` | `TypeOK` |
| | `WorkIsExclusive` | `NoConcurrentWork` |
| | `NoTaskForgotten` | `QueuedAccounted` |
| | `KilledAreHeld` | `KilledMeansHeld`, one half of `RowAndDagAgree`, without a hypothesis |
| | `RowMatchesDag` | `RowAndDagAgree`, with `OnlySubmitRejected` |
| | `DiagramIsImplemented` | `ImplementsDiagram`: the system implements `TaskStatus` |
| `Dags_proofs`, submission | `SubmissionTypeCorrect` | `SubmissionTypeOK` |
| | `OneDagRuns`, `DagIsRecorded`, `SubmittedRuns` | `OneDag`, `RunningIsRecorded`, `SubmittedHasDag` |
| | `HandlerAdvances` | each step of a handler leaves fewer steps to the end of the submission |
| `Dags_proofs`, splitting | `TypeCorrect` | `TypeOK` of `AutoSplitting` |
| | `LumisOnceAtMost` | `NoLumiTwice`, one half of `EachLumiOnce`, without a hypothesis |
| | `LumisOnce` | `EachLumiOnce`, with `LastTrigger` |
| | `EstimatesFound` | `EstimatesAreThere` |
| `JobNode_proofs` | `TypeCorrect`, `RunsHaveNumbers`, `DoneIsReal` | `TypeOK`, `RunNumbers`, `SuccessIsReal` |
| | `NodesEnd` | each step of a node leaves fewer retries, or fewer steps of this one |
| `JobWrapper_proofs` | `TypeCorrect`, `FlagsAreStored`, `SuccessesAreStored` | `TypeOK`, `ReportedIsStored`, `SuccessIsStored` |
| | `WrapperAdvances` | each step of the wrapper leaves fewer steps to its end, or evicts it |
| `StageOut_proofs` | `TypeCorrect` | `TypeOK` |
| | `StagedFilesAreRight` | `FilesAreRight` |
| | `SubmittedAreTracked` | `SubmittedIsTracked` |
| `RucioASO_proofs` | `TypeCorrect`, `ToldIsSo`, `FilesKeepDatasets` | `TypeOK`, `ToldIsThere`, `DatasetsAreFinal` |
| `Publication_proofs` | `TypeCorrect`, `PublishedIsDone` | `TypeOK`, `DoneIsPublished` |

**WorkerPool_proofs.** A result is credited by its workid, so that the workid must name one
work through the input queue, the slave, its buffer, the pipe and `working`. The
invariant says that each workid in flight sits at one place of that chain and that the
place agrees with `working`; each action moves it one place on (the `Flight...` lemmas).
`CapacityKept` adds that an entry of `working` is a work in flight or one lost with its
slave; `StopIsGraceful` that the STOP messages stay behind the works (`StopsBehind`); the
refinement that a work has one entry and one place (`Books`), which is what makes the
sets of `WorkDispatch` disjoint.

**TaskLifecycle_proofs** has four layers. `LocalInv` says of each process that what it
holds (a request, a batch, a handler, a recall) is what its code can have put there.
`ClaimInv` says that whoever works on a row that was not raced knows it, is the TaskWorker
the row names, and is alone; `WorkIsExclusive` follows. `TasksAccounted` follows a QUEUED
row from the acquisition to a slot, or to a TaskWorker that is down. `DagsOK` says what the DAG
may be by the row and by what a handler is about to report: RESUBMIT is reported with
nothing on hold, KILL with nothing running. The refinement needs the first two layers
only: a write that was not raced replaces a row that its writer knows, and each writer
knows it to be in a state from which the diagram draws its write.

*What the proof found.* `ReportGiveUp` used to start the whole handler again, as if
`actionWork` repeated its list; with two lost answers `RowAndDagAgree` was not inductive,
and TLC then found it violated with `MaxFaults` = 2. `Handler.py:118-150` repeats one action only,
and the model now does as well.

**Dags_proofs**, the submission: with failures, crashes and resubmissions without bound. The
promises on the DAGs (`Dags`) are not inductive: that a submission does no harm follows
from what the handler knows at that point (`Known`): handler and row name the same schedd
(`SameSchedd`), nothing runs while a try is pending (`NothingRuns`), what is being reported
runs (`ReportedRuns`), and it has not been reported (`NotReported`).

**Dags_proofs**, the splitting. The tails that were submitted hold what the jobs dealt with so far
have left, no less and no more, and no two of them the same (`Accounted`); a job that has
ended does not change. That nothing is left over in the end follows from `LastWave`: the
last tail waits for as many jobs as there are, hence (by cardinality) for all of them.

**JobNode_proofs.** All of the invariant is about one job at a time (`NodeOK`), with an
implication for each kind of mishap. The heart is `Counting` and `Known`: as long as no
restart cuts a post-job short, `PreJob` gives a run the number `$RETRY`, and the count
of post-jobs is `$RETRY`, or one more once the post-job of this retry was counted
(`Uncounted`). A count that was not saved leaves the first half and loses the second, which
is why `RunNumbersFresh` and `PostKnowsItsRun` have different exceptions.

*What the proof found.* `NoDocs` was 99, which is a number that a run can have, if no
constant bounds the retries. It is now a value outside the range.

**JobWrapper_proofs.** A run ends with exit status 0 because nothing was recorded on the way,
so that `IInv` says what is: a failed check leaves `exit_code` (`Recorded`), a failed
copy leaves `first_stageout_failure_code`, each way to copy that could be used is used or was
made superfluous (`FailureKept`), a policy that is done has all outputs flagged
(`AllFlagged`), one that waits has copied nothing (`UntriedClean`),
and what is about to be removed has no flag any more (`Unmarked`). `Shape` says moreover that no
code of `cmscp.py` is 0 after `% 256`.

**StageOut_proofs.** The state of a file is told on, from FTS to the list and the reports of the
manager, to the row, to the shared cache, to the post-job, each of them late. `RightOK` says
of each that "done" stands for the last run of the job. What keeps it so is not in any
one place: a run that begins with nothing in flight keeps it so (`~Pending`) until its
own transfer is handed over, which is after its row was made new; a post-job that looks
does not believe a cache from before that (`after`); and FTS can only copy the file that is
at the source, which is of the last run (`SourcesOK`). `OfferOK` does the same for publication and
counts faults: a row that asks for publication when its post-job failed does so because a
call failed; with the one fault of the run, the update that takes the request back
cannot fail as well. Kills of the
manager need no case of their own for either: what it loses was in its memory only.
`NothingLost` (no faults) says that a job of FTS leaves `fts_jobids.txt` with an empty list only,
and that a job just made, in neither file yet, has all of its files in its list. The
lemmas about the manager and the post-jobs say once what their steps leave alone
(`PostMoves`, `ManagerStep`), so that each action is left with its own file.

**RucioASO_proofs.** Four parties read each other's notes. The invariant says of each
note (`aso`, `row`, `pub`, `dbs`) what it tells of Rucio, and these facts are stable
because Rucio forgets nothing (`RucioGrows`: a copied file stays, so does the dataset of
a file, and a closed dataset is never opened again). A program that is stopped loses notes and never
makes one that is wrong, because each action first acts on Rucio and then writes.

**Publication_proofs.** In the same way: what a `TaskPublish.py` knows (`SlaveOK`: what it
takes for published is in DBS, and the parents it has had migrated are at the destination)
stays true when another one publishes, because DBS only grows (`Grows`). That a block
keeps to `PerBlock` counts the positions of its files in the list (an injection).

**Termination.** That something ends has two halves: no step may go back, and steps must be
taken. The second one is fairness and stays with TLC. The first is where the
code could be wrong (a retry that does not count, a deferral without a timeout), and it is a
measure in `Nat` that each step decreases, for all constants and all failures:
`HandlerAdvances` (at most `15 * max_retry + 31` steps of the handler, from the nested
retries of `execute` and `actionWork`, for `SubmissionEnds`), `NodesEnd` (first the
retries that `check_retry_count` leaves, then the deferrals that `check_transfers` and its
timeout leave, for `DagFinishes`; only a restart of DAGMan or a resubmission takes a node back)
and `WrapperAdvances` (at most `2 * NumOutputs + 13` steps, unless HTCondor evicts the job).

*Assumptions.* Those named in the modules (`PoolAssumption`, `SubmissionAssumption`, ...),
all of which TLC evaluates on the runs, and two hypotheses:

- `OnlySubmitRejected` (`RowMatchesDag`): KILL and RESUBMIT are not among the rejected
  commands. Without it the theorem is false, see *Rejected RESUBMIT* in section 5.
- `LastTrigger` (`LumisOnce`): the last trigger of the tails is 100, as in the default
  `[50, 80, 100]` of `DagmanCreator.py:1009`. With another configuration what the jobs leave that
  end after the last tail is in no tail.

*Only model-checked.* All liveness (`WorkCollected`, `StopsEventually`, `TasksSettle`,
`SubmissionEnds`, `WavesEnd`, `DagFinishes`, `RowSettles`, `CopiedIsReported`,
`RequestSettles`): fairness and ENABLED are beyond the prover (*Termination* says what is proved of
two of these). `FilesAreRight` was also checked
with two runs and two faults, and with three runs and one fault, and the invariant
of `StageOut` with these and with two files before it was proved.

## 5. Observations

What follows from the models and is not a run of its own: behaviour of the code that
differs from what its comments or names say, or that limits a property above.

- **Stop of the pool.** `Worker.py:219` joins slaves before anybody reads their results. With a
  pipe smaller than what they still have to write, a slave's feeder thread waits for
  the master and the master for the slave. Set `PipeSize` to 1 in `WorkerPool_progress`
  to see `StopsEventually` fail.
- **Lost answer of the acquisition.** If the update to QUEUED lands and its answer is lost,
  `MasterWorker.py:441` skips the task and says that it stays in HOLDING; it stays QUEUED,
  in nobody's hands, until the TaskWorker is restarted (`QueuedAccounted` allows it for
  this reason).
- **Kill of a NEW task.** `DataWorkflow.py:400` marks a task in NEW with command SUBMIT
  as KILLED at once. After a crash a row that is put back to NEW may have a DAG
  (`unreported`), which then runs under a KILLED task.
- **Rejected RESUBMIT.** `MasterWorker.py:395` reports a rejected RESUBMIT of a killed task as
  SUBMITTED with the DAG on hold; `RowAndDagAgree` is checked and proved (`RowMatchesDag`)
  where neither RESUBMIT nor KILL is rejected. That nothing runs under KILLED needs no such
  hypothesis (`KilledAreHeld`).
- **Duplicate check.** `DagmanSubmitter.py:381` speaks of a check before each try; the
  first try at a schedd that was just chosen has none. `OneDag` holds nevertheless.
- **Forgotten ends of FTS jobs.** `FTS_Transfers.py:543` says of an FTS job that ended "only
  remove a Terminated FTS job from the list of xfer marking was successful, otherwise
  will try again". `check_FTSJob` has taken the ended files out of `<job>.json` before the
  marking (line 238), so the next try skips them, marks nothing, and drops the job: the row
  stays SUBMITTED, and the post-job waits until its timeout and fails the job although
  the file arrived. One fault is enough: `RowSettles` and `SubmittedIsTracked` hold as long
  as there is none.
- **A transfer that is going on.** `PostJob.py:775-779` says that a row of an earlier run gets a
  new request "unless the transfer is still ongoing", and line 783 looks for 'acquired', 'new' or
  'retry'. `getDocByID` has put the state in upper case (line 886, `TRANSFERDB_STATES` in
  `ServerUtilities.py:105`), so that the test never holds: every row is made new, and a line is
  added, whatever goes on. After a timeout with a failed or late cancellation the file has two
  jobs of FTS, and an end of the earlier one is told of the row of the later. `SubmittedIsTracked`
  and `RowSettles` hold for such files as well; which bytes arrive is open (`stale`, see
  *A run that comes too early*). `Inject` in `StageOut` and `RunJob` in `RucioASO` do what the code does.
- **A tail without a good job.** When all the jobs that are new to a tail have failed, or an
  earlier tail took them, PreDAG takes the estimates of the probes, the failed ones
  included (`PreDAG.py:198`), and opens a file that a failed probe never wrote: the script
  ends with an exception and the tail is never made. `PreDAG_t.py` (`src/test-old`) tests
  this with probes that have all finished. `EstimatesAreThere` says that this is the only way.
- **Restart between submission and save.** If another tail that is due gets the lock first,
  it takes the same jobs, and their lumis are in two tails. If the same PreDAG comes first,
  it finds more jobs ended than before, writes the files of a subdag that DAGMan has
  already read, is refused or ignored by `condor_submit_dag`, and saves all of those jobs as
  processed: the lumis of the later ones are in no tail. `EachLumiOnce` leaves both out
  (`cut`). A restart within the write of `processed` leaves a file that no later
  PreDAG can read (`torn`).
- **Hold of tails.** `AdjustSites.py:458` speaks of processing and tail DAGs; its constraint
  holds the DAGs with TaskType TAIL only.
- **A run that comes too early.** If a job is run again while the transfer of its previous
  run goes on, the file at the destination may be of either run (`stale` in `StageOut`,
  `late` in `RucioASO`), and with Rucio the row of a file told DONE may go back to SUBMITTED for good.
- **One failed block fails all.** When `insertBulkBlock` fails, `TaskPublish.py:943` marks every
  file of the task's list as failed, those of blocks inserted before included: they are
  in DBS and marked as failed.
- **Illegal parents.** `TaskPublish.py:759` says that a parent whose name DBS refuses is
  skipped. It is removed from the first file only: the set of parents already met (755)
  keeps the later files from looking it up, and it is not in `parentsToSkip` (792).
  `DoneIsPublished` leaves such parents out.
- **Blocks the global DBS does not let go** are asked for again at every cycle:
  `CannotMigrateException` is handled for the source instance only. The files
  stay acquired; the instances of `RequestSettles` refuse migrations of the source only.
- **Marked without being published.** A block is inserted with the files whose publication
  has been asked for; one asked for later finds its block in DBS
  (`TaskPublishRucio.py:403`) and is marked as published, although DBS does not have it. The
  list comprehension at line 406 takes the files of one block only, once for each block.
- **Logs and the direct policy.** With the policy "remote" alone, a failure to make the log
  archive is cleared by a direct stage-out that initialises well (`cmscp.py:1288`).
- **Stage-out exceptions.** `except StageOutError` at `cmscp.py:609` names a module
  (imported at line 26): a removal that fails raises out of `main`, and the other
  policy is not tried. `ReportedIsStored` holds because the report is changed first.

## 6. Not modelled, and why

The text of tasks, warnings and logs; certificates, quotas and sites; what preparation
computes; the content of job reports and of DBS blocks; the weights of schedds; the
changes of job ads (sites, memory, run time) by PreJob and RetryJob.

- The arithmetic of `PreDAG` and `Splitter`: run times, sizes, and how files and lumis are
  grouped into jobs. `AutoSplitting` has its success, its failure and the lumis it is about.
- The Rucio rules of tape recalls, shared by tasks and deleted when no other task needs
  them.
- `RESTTask.py`: two columns of text that no modelled decision depends on.
- Of `cache_status.py`, all but the end of a job; `HTCondorDataWorkflow.py`,
  `RESTFileMetadata.py`, `RESTCache.py`: reads and conversions.
- The unbounded loop of `DryRunUploader.py`.
- The death of one slave alone, in `TaskLifecycle`: there whole TaskWorkers crash. That a slave
  dies with its work, and what becomes of the work, is in `WorkerPool`.
- The jobs of FTS a pass of `FTS_Transfers.py` makes, per source and per 200 lines:
  `StageOut` has one source and one job per pass. A post-job that runs twice for one run of
  its job is in `JobNode`, where DAGMan restarts; `StageOut` has one injection per run.
- Files that are in DBS but were invalidated, in `Publication`.
- Jobs of `cmscp.py` that have only logs to copy: nothing is copied for them. At the
  destination it unflags and removes one file after the other; in `JobWrapper` all are
  unflagged before the first is removed.
- Notebooks, monitoring, deployment and CI: no part of the running system's protocols.

## 7. Plan

1. The nine components that section 2 lists: modelled and checked.
2. Proofs of all their invariants and of both refinements: done.
3. Abstract specifications that the proofs suggest: of `RucioASO` and of `Publication`, a store
   that only grows and notes that lag behind it, which both implement.
