-------------------------------- MODULE StageOut -------------------------------
(* The transfer of output files from the temporary storage of the site where   *)
(* the job ran to the destination: the post-jobs that ask for it (ASOServerJob)*)
(* the row of each file in the transfers database, the manager of transfers on *)
(* the schedd (FTS_Transfers.py, run over and over by the task process) and    *)
(* FTS. The names of a file do not change from a run of its job to the next.   *)
(*                                                                             *)
(* The post-jobs hand the transfers over in transfers.txt and read their state *)
(* from the database, through a cache file they share. The manager keeps three *)
(* kinds of files: last_transfer.txt, fts_jobids.txt and one <job>.json per FTS*)
(* job, and is killed after 15 minutes, wherever it is.                        *)
EXTENDS Integers, Sequences, FiniteSets

CONSTANTS
    Files,      \* the files, each the output of a job of its own
    Bounds      \* bounds, of which a behaviour keeps to one: the runs of each job,
                \* and what goes wrong (calls without an answer, kills, ...)

ASSUME StageOutAssumption ==
    IsFiniteSet(Files) /\ Bounds \subseteq [runs : [Files -> Nat], faults : Nat]

VARIABLES
    \* the post-jobs
    run,       \* the run of the job (CRAB_Retry)
    step,      \* where the post-job is
    error,     \* a call of this injection failed
    \* the transfers database, the metadata database
    row,       \* filetransfersdb
    metadata,  \* the run the metadata of the file are from
    \* the storage
    source,    \* the run whose file is on the temporary storage, 0 for none
    dest,      \* the run whose file is at the destination, 0 for none
    \* files of the schedd
    cache,     \* aso_status.json
    after,     \* the files whose aso_start_timestamp is before the last query
    transfers, \* transfers.txt
    last,      \* last_transfer.txt
    jobids,    \* fts_jobids.txt
    content,   \* <job>.json: the files of the job that have not ended
    \* FTS and the manager
    fts,       \* the jobs of FTS: the state of each of their files
    mgr,       \* where the manager is, and its variables
    \* history and bounds
    stale,     \* files whose job was run again while a transfer was going on
    faults,
    bound      \* the member of Bounds

postjobs == <<run, step, error>>
databases == <<row, metadata>>
storage == <<source, dest>>
cached == <<cache, after>>
managed == <<last, jobids, content, mgr>>
vars == <<postjobs, databases, storage, cached, transfers, managed, fts, stale, faults, bound>>

Fault == faults < bound.faults /\ faults' = faults + 1

NoRow == [state |-> "none", publish |-> FALSE]
Idle == [at |-> "idle", todo |-> {}, ongoing |-> {}, ended |-> {}, told |-> {}, new |-> {}, to |-> 0]

Init ==
    /\ run = [f \in Files |-> 0] /\ step = [f \in Files |-> "idle"] /\ error = {}
    /\ row = [f \in Files |-> NoRow] /\ metadata = [f \in Files |-> 0]
    /\ source = [f \in Files |-> 0] /\ dest = [f \in Files |-> 0]
    /\ cache = [fresh |-> FALSE, good |-> TRUE, state |-> [f \in Files |-> "none"]]
    /\ after = {}
    /\ transfers = <<>> /\ last = 0 /\ jobids = {} /\ content = <<>>
    /\ fts = <<>> /\ mgr = Idle /\ stale = {} /\ faults = 0
    /\ bound \in Bounds

-------------------------------------------------------------------------------
(* A job runs, and its post-job asks for the transfer.                         *)

(* Something is still to happen to the file.                                   *)
Pending(f) ==
    \/ \E k \in last + 1..Len(transfers) : transfers[k] = f
    \/ \E i \in DOMAIN fts : f \in DOMAIN fts[i] /\ (fts[i][f] = "active" \/ f \in content[i])
    \/ \E e \in mgr.told : f \in e.done \cup e.failed

(* The first run, a retry of DAGMan, or one a user asked for.                  *)
RunJob(f) ==
    /\ step[f] = "idle" /\ run[f] < bound.runs[f]
    /\ run' = [run EXCEPT ![f] = @ + 1]
    /\ source' = [source EXCEPT ![f] = run'[f]]
    /\ step' = [step EXCEPT ![f] = "inject"]
    /\ stale' = IF Pending(f) THEN stale \cup {f} ELSE stale
    /\ UNCHANGED <<error, databases, dest, cached, transfers, managed, fts, faults>>

(* getLock('get_transfers_statuses'), which the injections and the queries hold*)
Injecting(f) == step[f] \in {"update", "mark", "append"}
LockIsFree == \A f \in Files : ~Injecting(f)

Goes(f, s) == step' = [step EXCEPT ![f] = s]

(* The transfer is monitored from now on (recordASOStartTime).                 *)
Monitored(f) == Goes(f, "monitor") /\ after' = after \ {f}

(* inject_to_aso: if the answer on the row of an earlier request does not come,*)
(* the run fails. It is meant to leave a request alone that is going on, but   *)
(* compares the state, which getDocByID has in upper case, with names in lower *)
(* case: whatever the row says, it is written once more. (The branch for a row *)
(* of this very run, by its start time, is for injections from the worker node,*)
(* which cmscp does not make, and for a post-job that was cut short and runs   *)
(* again: that is a matter of JobNode.)                                        *)
Inject(f) ==
    /\ step[f] = "inject" /\ LockIsFree
    /\ \/ Goes(f, "update") /\ error' = error \ {f} /\ UNCHANGED faults
       \/ Goes(f, "idle") /\ Fault /\ UNCHANGED error
    /\ UNCHANGED <<run, databases, storage, cached, transfers, managed, fts, stale>>

(* The row of a new request; publication is asked for later.                   *)
Requested(f) == [state |-> "new", publish |-> FALSE]

(* updateOrInsertDoc: the row is inserted, or updated.                         *)
UpdateDoc(f) ==
    /\ step[f] = "update" /\ Goes(f, "mark")
    /\ \E landed, answered \in BOOLEAN :
        /\ row' = IF landed THEN [row EXCEPT ![f] = Requested(f)] ELSE row
        /\ error' = IF answered THEN error ELSE error \cup {f}
        /\ IF landed /\ answered THEN UNCHANGED faults ELSE Fault /\ ~answered
    /\ UNCHANGED <<run, metadata, storage, cached, transfers, managed, fts, stale>>

(* updateOrInsertDoc: the worker is written, and the state once more.          *)
MarkNew(f) ==
    /\ step[f] = "mark" /\ Goes(f, "append")
    /\ \E landed, answered \in BOOLEAN :
        /\ row' = IF landed /\ row[f] # NoRow THEN [row EXCEPT ![f].state = "new"] ELSE row
        /\ error' = IF answered THEN error ELSE error \cup {f}
        /\ IF landed /\ answered THEN UNCHANGED faults ELSE Fault /\ ~answered
    /\ UNCHANGED <<run, metadata, storage, cached, transfers, managed, fts, stale>>

(* updateOrInsertDoc: the transfer is handed over, whatever failed before.     *)
HandOver(f) ==
    /\ step[f] = "append"
    /\ transfers' = Append(transfers, f)
    /\ IF f \in error THEN Goes(f, "idle") /\ UNCHANGED after ELSE Monitored(f)
    /\ UNCHANGED <<run, error, databases, storage, cache, managed, fts, stale, faults>>

-------------------------------------------------------------------------------
(* The post-job waits for the transfer.                                        *)

(* A bug the properties must find: the age of the cache is enough.             *)
BugCacheIsUsed(f) == cache.fresh

(* The cache is recent, and from after the transfer was asked for.             *)
CacheIsUsed(f) == cache.fresh /\ f \in after

CacheExpires ==
    /\ cache.fresh
    /\ cache' = [cache EXCEPT !.fresh = FALSE]
    /\ UNCHANGED <<postjobs, databases, storage, after, transfers, managed, fts, stale, faults>>

(* get_transfers_statuses: s is what it returns, "unknown" for an exception.   *)
GetStatus(f, s) ==
    \/ /\ CacheIsUsed(f) /\ ~cache.good /\ s = "unknown"
       /\ UNCHANGED <<cached, faults>>
    \/ /\ CacheIsUsed(f) /\ cache.good /\ cache.state[f] # "none" /\ s = cache.state[f]
       /\ UNCHANGED <<cached, faults>>
    \/ /\ ~CacheIsUsed(f) \/ (cache.good /\ cache.state[f] = "none")
       /\ after' = Files
       /\ \/ /\ cache' = [fresh |-> TRUE, good |-> TRUE, state |-> [g \in Files |-> row[g].state]]
             /\ s = row[f].state /\ UNCHANGED faults
          \/ /\ cache' = [fresh |-> TRUE, good |-> FALSE, state |-> [g \in Files |-> "none"]]
             /\ s = "unknown" /\ Fault

Statuses == {"none", "new", "submitted", "done", "failed", "kill", "unknown"}
WaitStates == {"new", "submitted"}

(* check_transfers: without an answer, or while it waits, it is deferred.      *)
CheckTransfers(f) ==
    /\ step[f] = "monitor" /\ LockIsFree
    /\ \E s \in Statuses :
        /\ GetStatus(f, s)
        /\ CASE s = "done" -> Goes(f, "staged")
             [] s \in {"failed", "kill"} -> Goes(f, "idle")
             [] OTHER -> UNCHANGED step
    /\ UNCHANGED <<run, error, databases, storage, transfers, managed, fts, stale>>

(* check_transfers: it has waited too long.                                    *)
TimesOut(f) ==
    /\ step[f] = "monitor" /\ LockIsFree
    /\ \E s \in WaitStates : GetStatus(f, s)
    /\ Goes(f, "cancel")
    /\ UNCHANGED <<run, error, databases, storage, transfers, managed, fts, stale>>

(* cancel, killTransfersById: a transfer that is not new is not cancelled. The *)
(* job fails in any case.                                                      *)
Cancel(f) ==
    /\ step[f] = "cancel" /\ Goes(f, "idle")
    /\ \/ /\ row' = IF row[f].state = "new" THEN [row EXCEPT ![f].state = "kill"] ELSE row
          /\ UNCHANGED faults
       \/ Fault /\ UNCHANGED row
    /\ UNCHANGED <<run, error, metadata, storage, cached, transfers, managed, fts, stale>>

(* execute_internal, after the transfers: upload_output_files_metadata ...     *)
UploadMetadata(f) ==
    /\ step[f] = "staged"
    /\ \/ metadata' = [metadata EXCEPT ![f] = run[f]] /\ Goes(f, "flag") /\ UNCHANGED faults
       \/ Goes(f, "idle") /\ Fault /\ UNCHANGED metadata
    /\ UNCHANGED <<run, error, row, storage, cached, transfers, managed, fts, stale>>

(* ... and the publication flag.                                               *)
AskPublication(f) ==
    /\ step[f] = "flag"
    /\ \E landed, answered \in BOOLEAN :
        /\ row' = IF landed THEN [row EXCEPT ![f].publish = TRUE] ELSE row
        /\ Goes(f, IF answered THEN "done" ELSE "idle")
        /\ IF landed /\ answered THEN UNCHANGED faults ELSE Fault /\ ~answered
    /\ UNCHANGED <<run, error, metadata, storage, cached, transfers, managed, fts, stale>>

(* DAGMan is restarted: a later execution finds no list of transfers, and the  *)
(* job is run again; or it finds it, and asks for the state once more.         *)
PostJobKilled(f) ==
    /\ Fault
    /\ \/ (step[f] = "inject" \/ Injecting(f)) /\ Goes(f, "idle")
       \/ step[f] \in {"cancel", "staged", "flag"} /\ Goes(f, "monitor")
    /\ UNCHANGED <<run, error, databases, storage, cached, transfers, managed, fts, stale>>

PostJob(f) == \/ Inject(f) \/ UpdateDoc(f) \/ MarkNew(f) \/ HandOver(f) \/ CheckTransfers(f)
              \/ TimesOut(f) \/ Cancel(f) \/ UploadMetadata(f) \/ AskPublication(f)

-------------------------------------------------------------------------------
(* FTS.                                                                        *)

FtsChanges(i, f, s) == fts' = [fts EXCEPT ![i][f] = s]

FtsCopies(i, f) ==
    /\ fts[i][f] = "active" /\ source[f] # 0
    /\ dest' = [dest EXCEPT ![f] = source[f]]
    /\ FtsChanges(i, f, "finished")
    /\ UNCHANGED <<postjobs, databases, source, cached, transfers, managed, stale, faults>>

FtsFails(i, f) ==
    /\ fts[i][f] = "active" /\ FtsChanges(i, f, "failed")
    /\ UNCHANGED <<postjobs, databases, storage, cached, transfers, managed, stale, faults>>

(* The job ends and leaves the file as it is.                                  *)
FtsForgets(i, f) ==
    /\ fts[i][f] = "active" /\ Fault /\ FtsChanges(i, f, "stuck")
    /\ UNCHANGED <<postjobs, databases, storage, cached, transfers, managed, stale>>

Fts == \E i \in DOMAIN fts : \E f \in DOMAIN fts[i] :
          FtsCopies(i, f) \/ FtsFails(i, f) \/ FtsForgets(i, f)
-------------------------------------------------------------------------------
(* The manager: state_manager, then submission_manager.                        *)

MgrUnchanged == UNCHANGED <<postjobs, metadata, dest, cached, transfers, stale>>

(* algorithm: nothing to do before there is a first line.                      *)
ManagerStarts ==
    /\ mgr.at = "idle" /\ transfers # <<>>
    /\ mgr' = [Idle EXCEPT !.at = "check", !.todo = jobids, !.ongoing = jobids]
    /\ UNCHANGED <<row, source, last, jobids, content, fts, faults>> /\ MgrUnchanged

Ended(i) == \A f \in DOMAIN fts[i] : fts[i][f] # "active"
InState(i, s) == {f \in content[i] : fts[i][f] = s}

(* The files that leave the list of the job; their sources are removed, which  *)
(* takes minutes and is taken as done at once.                                 *)
Handled(i) == InState(i, "finished") \cup InState(i, "failed")

(* check_FTSJob: the state of the job, of its files, <job>.json. A file that is*)
(* not over in a job that is over is reported as failed, and stays in the list.*)
CheckFTSJob(i) ==
    /\ mgr.at = "check" /\ i \in mgr.todo
    /\ \/ /\ mgr' = [mgr EXCEPT !.todo = @ \ {i}, !.ended = IF Ended(i) THEN @ \cup {i} ELSE @,
                       !.told = @ \cup {[job |-> i, done |-> InState(i, "finished"),
                                  failed |-> InState(i, "failed")
                                      \cup (IF Ended(i) THEN InState(i, "stuck") ELSE {})]}]
          /\ content' = [content EXCEPT ![i] = @ \ Handled(i)]
          /\ source' = [f \in Files |-> IF f \in Handled(i) THEN 0 ELSE source[f]]
          /\ UNCHANGED faults
       \/ /\ Fault  \* no answer, or (404) no such job
          /\ \E known \in BOOLEAN :
                mgr' = [mgr EXCEPT !.todo = @ \ {i}, !.ongoing = IF known THEN @ ELSE @ \ {i}]
          /\ UNCHANGED <<content, source>>
    /\ UNCHANGED <<row, last, jobids, fts>> /\ MgrUnchanged

InStates(files, s) == [f \in Files |-> IF f \in files THEN [row[f] EXCEPT !.state = s] ELSE row[f]]

(* A bug the properties must find: a job is dropped with its first files.      *)
BugDropped(e) == e.done \cup e.failed # {}

(* A job is dropped when it has ended.                                         *)
Dropped(e) == e.job \in mgr.ended

(* mark_transferred, mark_failed: without an answer the job is kept, but the   *)
(* files that were done with have left its list.                               *)
Tell(e) ==
    /\ mgr.at = "check" /\ mgr.todo = {} /\ e \in mgr.told
    /\ \E done \in {e.done, {}}, failed \in {e.failed, {}}, answered \in BOOLEAN :
        /\ row' = [f \in Files |-> CASE f \in failed -> [row[f] EXCEPT !.state = "failed"]
                                    [] f \in done \ failed -> [row[f] EXCEPT !.state = "done"]
                                    [] OTHER -> row[f]]
        /\ IF <<done, failed, answered>> = <<e.done, e.failed, TRUE>>
           THEN UNCHANGED faults ELSE Fault /\ ~answered
        /\ mgr' = [mgr EXCEPT !.told = @ \ {e},
                !.ongoing = IF answered /\ Dropped(e) THEN @ \ {e.job} ELSE @]
    /\ UNCHANGED <<source, last, jobids, content, fts>> /\ MgrUnchanged

(* fts_jobids.txt is replaced.                                                 *)
SaveJobs ==
    /\ mgr.at = "check" /\ mgr.todo = {} /\ mgr.told = {}
    /\ jobids' = mgr.ongoing
    /\ mgr' = [Idle EXCEPT !.at = "submit"]
    /\ UNCHANGED <<row, source, last, content, fts, faults>> /\ MgrUnchanged

NewFiles == {transfers[k] : k \in last + 1..Len(transfers)}

(* perform_transfers, submit: the new lines make a job of FTS, and its file;   *)
(* if their names cannot be translated they fail at once. to is the line that  *)
(* will be written. (The code makes a job of the lines of each source, 200 of  *)
(* them at most; the files here are few and have one source.)                  *)
Submit ==
    /\ mgr.at = "submit"
    /\ \/ /\ NewFiles = {} /\ mgr' = Idle
          /\ UNCHANGED <<row, last, content, fts, faults>>
       \/ /\ NewFiles # {}
          /\ fts' = Append(fts, [f \in NewFiles |-> "active"])
          /\ content' = Append(content, NewFiles)
          /\ mgr' = [mgr EXCEPT !.at = "mark", !.new = {Len(fts')}, !.to = Len(transfers)]
          /\ UNCHANGED <<row, last, faults>>
       \/ /\ NewFiles # {} /\ Fault
          /\ \E told \in BOOLEAN : row' = IF told THEN InStates(NewFiles, "failed") ELSE row
          /\ mgr' = [mgr EXCEPT !.at = "move", !.to = Len(transfers)]
          /\ UNCHANGED <<last, content, fts>>
    /\ UNCHANGED <<source, jobids>> /\ MgrUnchanged

(* submit: without an answer the manager ends, and submits again next time.    *)
MarkSubmitted ==
    /\ mgr.at = "mark"
    /\ LET i == CHOOSE i \in mgr.new : TRUE IN
       \/ /\ row' = InStates(DOMAIN fts[i], "submitted")
          /\ mgr' = [mgr EXCEPT !.at = "move"] /\ UNCHANGED faults
       \/ /\ Fault /\ mgr' = Idle
          /\ \E landed \in BOOLEAN :
                row' = IF landed THEN InStates(DOMAIN fts[i], "submitted") ELSE row
    /\ UNCHANGED <<source, last, jobids, content, fts>> /\ MgrUnchanged

(* Bugs the properties must find: the lines are counted when the number is     *)
(* written, or one too many.                                                   *)
BugLinesRead == Len(transfers)
BugOneMoreLine == mgr.to + 1

(* perform_transfers: the number of the lines it has read.                     *)
LinesRead == mgr.to

(* last_transfer.txt is replaced.                                              *)
MoveLast ==
    /\ mgr.at = "move" /\ last' = LinesRead
    /\ mgr' = [mgr EXCEPT !.at = "append"]
    /\ UNCHANGED <<row, source, jobids, content, fts, faults>> /\ MgrUnchanged

(* The new jobs are appended to fts_jobids.txt.                                *)
AddJobs ==
    /\ mgr.at = "append" /\ jobids' = jobids \cup mgr.new
    /\ mgr' = Idle
    /\ UNCHANGED <<row, source, last, content, fts, faults>> /\ MgrUnchanged

(* The time limit of 15 minutes, a restart of the schedd.                      *)
ManagerKilled ==
    /\ mgr.at # "idle" /\ Fault /\ mgr' = Idle
    /\ UNCHANGED <<row, source, last, jobids, content, fts>> /\ MgrUnchanged

Manager ==
    \/ ManagerStarts \/ (\E i \in mgr.todo : CheckFTSJob(i)) \/ (\E e \in mgr.told : Tell(e))
    \/ SaveJobs \/ Submit \/ MarkSubmitted \/ MoveLast \/ AddJobs

Step ==
    \/ \E f \in Files : RunJob(f) \/ PostJob(f) \/ PostJobKilled(f)
    \/ CacheExpires \/ Fts
    \/ Manager \/ ManagerKilled

Next == Step /\ UNCHANGED bound

(* The post-jobs are run again and again, the manager by the task process, and *)
(* FTS comes to an end with every file.                                        *)
Fairness ==
    /\ WF_vars(Manager /\ UNCHANGED bound) /\ WF_vars(Fts /\ UNCHANGED bound)
    /\ \A f \in Files : WF_vars(PostJob(f) /\ UNCHANGED bound)

Spec == Init /\ [][Next]_vars /\ Fairness

-------------------------------------------------------------------------------
(* Properties.                                                                 *)

(* The state has its type; the manager keeps to lines and jobs that exist.     *)
TypeOK ==
    /\ run \in [Files -> Nat] /\ \A f \in Files : run[f] <= bound.runs[f]
    /\ step \in [Files -> {"idle", "inject", "update", "mark", "append", "monitor", "cancel",
                          "staged", "flag", "done"}]
    /\ error \subseteq Files /\ stale \subseteq Files
    /\ bound \in Bounds /\ faults \in 0..bound.faults
    /\ row \in [Files -> [state : Statuses, publish : BOOLEAN]]
    /\ metadata \in [Files -> Nat] /\ source \in [Files -> Nat] /\ dest \in [Files -> Nat]
    /\ cache \in [fresh : BOOLEAN, good : BOOLEAN, state : [Files -> Statuses]]
    /\ after \subseteq Files
    /\ transfers \in Seq(Files) /\ last \in 0..Len(transfers)
    /\ DOMAIN content = DOMAIN fts
    /\ \A i \in DOMAIN fts : /\ fts[i] \in [DOMAIN fts[i] -> {"active", "finished", "failed", "stuck"}]
                             /\ content[i] \subseteq DOMAIN fts[i]
    /\ jobids \subseteq DOMAIN fts /\ mgr.ongoing \subseteq jobids

(* A post-job that found its file transferred has the file of its own run at   *)
(* the destination, though states come from a shared cache and from retries,   *)
(* unless some run of the job began before the transfer of an earlier one was  *)
(* over.                                                                       *)
StagedIsThere ==
    \A f \in Files : step[f] \in {"staged", "flag", "done"} /\ f \notin stale => dest[f] = run[f]

(* A file the Publisher may take (transferred, publication asked for) is the   *)
(* one its metadata describe. Two failed calls, the flag of one run and the    *)
(* update of the row in the next, are enough to break it.                      *)
OfferedIsDescribed ==
    faults <= 1 => \A f \in Files :
        row[f].publish /\ row[f].state = "done" /\ f \notin stale => metadata[f] = dest[f]

(* The file at the destination is the one the post-job and the Publisher take  *)
(* it for.                                                                     *)
FilesAreRight == StagedIsThere /\ OfferedIsDescribed

Tracked(f) ==
    \/ \E i \in jobids \cup mgr.new : f \in content[i]
    \/ \E e \in mgr.told : f \in e.done \cup e.failed

(* As long as no call fails and nothing is killed, the manager knows a job of  *)
(* FTS for each file that is marked submitted, whatever the post-jobs do       *)
(* between the steps of the manager: nothing else would move the row.          *)
SubmittedIsTracked ==
    faults = 0 => \A f \in Files : row[f].state = "submitted" => Tracked(f)

(* Then no row waits for ever: lines appended at any time are submitted, and   *)
(* ends of jobs are told.                                                      *)
RowSettles == \A f \in Files :
    row[f].state \in WaitStates ~> row[f].state \notin WaitStates \/ faults > 0
===============================================================================
