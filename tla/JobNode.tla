-------------------------------- MODULE JobNode --------------------------------
(* The life of the jobs of one DAG on the schedd: PRE script (PreJob), job,    *)
(* POST script (PostJob, which runs RetryJob), the retries of DAGMan, the      *)
(* restarts of DAGMan and the resubmissions (AdjustSites).                     *)
(*                                                                             *)
(* DAGMan remembers across a restart only what its nodes.log says: phase and   *)
(* ret below. PreJob and PostJob communicate through files in the spool        *)
(* directory, which survive a restart: the retry counts (retry_info), the      *)
(* number of deferrals (defer_info), job_out, the job report and the list of   *)
(* the transfers. A restart may come between any two of their writes.          *)
EXTENDS Integers, FiniteSets, Sequences

CONSTANTS
    Jobs,                \* the jobs that are followed
    Others,              \* the other jobs of the DAG, of which only verdicts are seen
    NumAutomJobRetries,  \* CRAB_NumAutomJobRetries
    FailedNodeLimit,     \* CRAB_FailedNodeLimit
    Transfers,           \* CRAB_TransferOutputs or CRAB_SaveLogsFlag
    MaxDeferrals,        \* bound: a transfer is over, or timed out, after these
    MaxUnsaved,          \* bound on the counts of a job that cannot be saved
    MaxRestarts,         \* bound on the restarts of DAGMan
    MaxResubmits         \* bound on the resubmissions

ASSUME JobNodeAssumption ==
    /\ IsFiniteSet(Jobs) /\ IsFiniteSet(Others)
    /\ NumAutomJobRetries \in Nat /\ FailedNodeLimit \in Nat /\ Transfers \in BOOLEAN
    /\ MaxDeferrals \in Nat /\ MaxUnsaved \in Nat /\ MaxRestarts \in Nat /\ MaxResubmits \in Nat

VARIABLES
    \* DAGMan and its files
    dag,         \* "running", "down" (to be started), "held", "completed", "aborted"
    phase,       \* nodes.log: "start", "submitted", "ended" (the job), "done", "failed"
    ret,         \* nodes.log: what the job, then the POST script, returned
    retry,       \* $RETRY
    max_retries, \* RETRY in RunJobs.dag
    resubmitList,\* CRAB_ResubmitList in the ad of the ROOT job
    step,        \* what DAGMan is doing with the node, forgotten at a restart
    \* files of the spool directory
    retry_info,  \* the counts of pre-jobs and post-jobs
    deferrals,   \* defer_info of this retry
    job_out,     \* there is a job_out of the job
    report,      \* exit code in jobReport.json: "none", "ok", "recoverable", "fatal"
    docs,        \* the crab_retry of the last docs_in_transfer file, or NoDocs
    fatal, ok,   \* task_statistics.FATAL_ERROR and .OK
    \* the script that is running
    crab_retry,  \* PreJob's, written to Job.N.submit; then PostJob's
    first,       \* first_pj_execution()
    \* history and bounds
    number,      \* CRAB_Retry of the runs of the job so far
    everOk,      \* a run of the job ended with exit code 0
    lastOk,      \* its last run did
    unsaved,     \* the counts of the job that could not be saved
    mishaps,     \* what went wrong for the job: members of Mishaps
    restarts, resubmits

dagman == <<dag, resubmitList, restarts, resubmits>>
node == <<phase, ret, retry, max_retries, step>>
files == <<retry_info, deferrals, job_out, report, docs>>
stats == <<fatal, ok>>
script == <<crab_retry, first>>
history == <<number, everOk, lastOk, unsaved, mishaps>>
vars == <<dagman, node, files, stats, script, history>>

NoDocs == -2  \* no crab_retry: that of a post-job is -1 or more

Mishaps == {"unjudged",   \* a post-job went on without a verdict on a run that failed
            "cut",        \* a restart hit the first post-job of a retry before its verdict,
                          \* or a post-job whose job was not run
            "preFailed"}  \* a pre-job failed, which post-jobs take for a job to be skipped
Mishap(j, what) == mishaps' = [mishaps EXCEPT ![j] = @ \cup what]

Ended(j) == phase[j] \in {"done", "failed"}
Running(j, s) == dag = "running" /\ step[j] = s

Init ==
    /\ dag = "down" /\ resubmitList = {} /\ restarts = 0 /\ resubmits = 0
    /\ phase = [j \in Jobs |-> "start"] /\ ret = [j \in Jobs |-> "none"]
    /\ retry = [j \in Jobs |-> 0]
    /\ max_retries = [j \in Jobs |-> NumAutomJobRetries]
    /\ step = [j \in Jobs |-> "none"]
    /\ retry_info = [j \in Jobs |-> [pre |-> 0, post |-> 0]]
    /\ deferrals = [j \in Jobs |-> 0] /\ job_out = [j \in Jobs |-> FALSE]
    /\ report = [j \in Jobs |-> "none"] /\ docs = [j \in Jobs |-> NoDocs]
    /\ fatal = {} /\ ok = {}
    /\ crab_retry = [j \in Jobs |-> 0] /\ first = [j \in Jobs |-> TRUE]
    /\ number = [j \in Jobs |-> <<>>] /\ everOk = {} /\ lastOk = {}
    /\ unsaved = [j \in Jobs |-> 0] /\ mishaps = [j \in Jobs |-> {}]

-------------------------------------------------------------------------------
(* PreJob.                                                                     *)

(* A bug the properties must find: the count of post-jobs is never corrected.  *)
BugCorrected(info, r) == info

(* calculate_crab_retry: the counts as they are after the correction for a    *)
(* post-job that could not write its count.                                   *)
Corrected(info, r) ==
    LET d == IF info.post < r THEN r - info.post ELSE 0
    IN  [pre |-> info.pre + d, post |-> info.post + d]

(* The job was submitted and no post-job has run: the job is skipped.          *)
AlreadySubmitted(info, out) == info.pre > info.post /\ out

(* The count of pre-jobs is only used to recognise a repeated pre-job.         *)
Counted(info, out) ==
    IF info.pre <= info.post /\ ~out THEN [info EXCEPT !.pre = info.post + 1] ELSE info

(* retry_info cannot be written.                                               *)
Unsaved(j) ==
    /\ unsaved[j] < MaxUnsaved
    /\ unsaved' = [unsaved EXCEPT ![j] = @ + 1]
    /\ UNCHANGED retry_info

(* execute: without an exit code from the count, Job.N.submit is written (an   *)
(* exception or an empty list of sites is exit code 1) and the node may be     *)
(* deferred (4). A count that cannot be saved is not an error.                 *)
PreJob(j) ==
    /\ Running(j, "pre")
    /\ \E saved \in BOOLEAN, end \in {"skip", "submit", "defer", "fail"} :
        LET info == Corrected(retry_info[j], retry[j]) IN
        /\ end = "skip" <=> AlreadySubmitted(info, job_out[j])
        /\ IF saved
           THEN /\ retry_info' = [retry_info EXCEPT ![j] = Counted(info, job_out[j])]
                /\ UNCHANGED unsaved
           ELSE Unsaved(j)
        /\ crab_retry' = [crab_retry EXCEPT ![j] = info.post]
        /\ step' = [step EXCEPT ![j] = CASE end \in {"skip", "fail"} -> "post"
                                         [] end = "submit" -> "submit"
                                         [] OTHER -> "pre"]
        /\ ret' = IF end \in {"skip", "fail"} THEN [ret EXCEPT ![j] = "skipped"] ELSE ret
        /\ Mishap(j, IF end = "fail" THEN {"preFailed"} ELSE {})
    /\ UNCHANGED <<dagman, phase, retry, max_retries, deferrals, job_out, report, docs,
                   stats, first, number, everOk, lastOk>>

-------------------------------------------------------------------------------
(* DAGMan submits the job, which runs and ends.                                *)

Submit(j) ==
    /\ Running(j, "submit")
    /\ step' = [step EXCEPT ![j] = "queue"]
    /\ phase' = [phase EXCEPT ![j] = "submitted"]
    /\ number' = [number EXCEPT ![j] = @ \o <<crab_retry[j]>>]
    /\ UNCHANGED <<dagman, ret, retry, max_retries, files, stats, script, everOk,
                   lastOk, unsaved, mishaps>>

(* The report and job_out are transferred back at the end, unless the job was  *)
(* lost; then those of an earlier run are still there.                         *)
JobEnds(j) ==
    /\ phase[j] = "submitted"
    /\ phase' = [phase EXCEPT ![j] = "ended"]
    /\ step' = IF dag = "running" THEN [step EXCEPT ![j] = "post"] ELSE step
    /\ \E end \in {"ok", "recoverable", "fatal", "lost"} :
        /\ ret' = [ret EXCEPT ![j] = IF end = "ok" THEN "zero" ELSE "nonzero"]
        /\ report' = IF end = "lost" THEN report ELSE [report EXCEPT ![j] = end]
        /\ job_out' = IF end = "lost" THEN job_out ELSE [job_out EXCEPT ![j] = TRUE]
        /\ lastOk' = IF end = "ok" THEN lastOk \cup {j} ELSE lastOk \ {j}
        /\ everOk' = everOk \cup lastOk'
    /\ UNCHANGED <<dagman, retry, max_retries, retry_info, deferrals, docs, stats,
                   script, number, unsaved, mishaps>>

-------------------------------------------------------------------------------
(* RetryJob.                                                                   *)

(* A bug the properties must find: the return code of the job is not looked at.*)
BugVerdicts(r, rep) ==
    CASE rep = "fatal" -> {"FATAL_ERROR"}
      [] rep = "recoverable" -> {"RECOVERABLE_ERROR", "FATAL_ERROR"}
      [] OTHER -> {"OK"}

(* The verdict on a run, from its return code and the report. The limits on    *)
(* memory, time and disk turn a recoverable error into a fatal one.            *)
Verdicts(r, rep) ==
    CASE rep = "fatal" -> {"FATAL_ERROR"}
      [] rep \in {"none", "recoverable"} -> {"RECOVERABLE_ERROR", "FATAL_ERROR"}
      [] OTHER -> IF r = "nonzero" THEN {"RECOVERABLE_ERROR"} ELSE {"OK"}

(* record_site: one line per verdict.                                          *)
Record(j, verdict) ==
    /\ fatal' = IF verdict = "FATAL_ERROR" THEN fatal \cup {j} ELSE fatal
    /\ ok' = IF verdict = "OK" THEN ok \cup {j} ELSE ok

(* The verdict of a post-job of another job.                                   *)
OtherJudged ==
    /\ dag = "running"
    /\ \E o \in Others \ (fatal \cup ok) :
        \/ fatal' = fatal \cup {o} /\ UNCHANGED ok
        \/ ok' = ok \cup {o} /\ UNCHANGED fatal
    /\ UNCHANGED <<dagman, node, files, script, history>>

-------------------------------------------------------------------------------
(* PostJob.                                                                    *)

(* check_abort_dag: it does nothing until both files of statistics exist.      *)
AbortDag == /\ ok' # {} /\ fatal' # {}
            /\ Cardinality(ok') + Cardinality(fatal') > FailedNodeLimit
            /\ Cardinality(fatal') > Cardinality(ok')

(* A bug the properties must find: one retry too many.                         *)
BugRetryLeft(j) == retry[j] <= max_retries[j]

(* check_retry_count, which asks what DAGMan will ask itself.                  *)
RetryLeft(j) == retry[j] < max_retries[j]

(* The node fails with a recoverable error only if no retry is left.           *)
DagmanRetries(j, v) ==
    IF RetryLeft(j)
    THEN /\ retry' = [retry EXCEPT ![j] = @ + 1]
         /\ phase' = [phase EXCEPT ![j] = "start"]
         /\ step' = [step EXCEPT ![j] = "pre"]
         /\ deferrals' = [deferrals EXCEPT ![j] = 0]  \* the file of another retry
         /\ ret' = [ret EXCEPT ![j] = "none"]
    ELSE /\ phase' = [phase EXCEPT ![j] = "failed"]
         /\ step' = [step EXCEPT ![j] = "none"]
         /\ ret' = [ret EXCEPT ![j] = v]
         /\ UNCHANGED <<retry, deferrals>>

PostEnds(j, v) ==
    /\ CASE AbortDag ->
              /\ dag' = "aborted" /\ phase' = [phase EXCEPT ![j] = "failed"]
              /\ ret' = [ret EXCEPT ![j] = "3"] /\ step' = [step EXCEPT ![j] = "none"]
              /\ UNCHANGED <<retry, deferrals>>
         [] ~AbortDag /\ v = "1" -> DagmanRetries(j, v) /\ UNCHANGED dag
         [] OTHER ->
              /\ phase' = [phase EXCEPT ![j] = IF v = "0" THEN "done" ELSE "failed"]
              /\ ret' = [ret EXCEPT ![j] = v] /\ step' = [step EXCEPT ![j] = "none"]
              /\ UNCHANGED <<dag, retry, deferrals>>
    /\ UNCHANGED <<resubmitList, restarts, resubmits, max_retries>>

(* check_retry_count, and the same decision in check_exit_code.                *)
CheckRetryCount(j) == IF RetryLeft(j) THEN "1" ELSE "2"

Deferral(n) == IF n <= MaxDeferrals THEN n + 1 ELSE n

(* get_defer_num: the number of this execution is counted first.               *)
GetDeferNum(j) ==
    /\ Running(j, "post")
    /\ step' = [step EXCEPT ![j] = "count"]
    /\ first' = [first EXCEPT ![j] = deferrals[j] = 0]
    /\ deferrals' = [deferrals EXCEPT ![j] = Deferral(@)]
    /\ UNCHANGED <<dagman, phase, ret, retry, max_retries, retry_info, job_out, report,
                   docs, stats, crab_retry, history>>

(* The number of a post-job that has been counted.                             *)
Own(info) == info.post - 1

(* calculate_crab_retry: the first execution counts itself; if it cannot, the  *)
(* job fails.                                                                  *)
PostCalculateCrabRetry(j) ==
    /\ Running(j, "count")
    /\ \/ /\ first[j]
          /\ crab_retry' = [crab_retry EXCEPT ![j] = retry_info[j].post]
          /\ \/ /\ retry_info' = [retry_info EXCEPT ![j].post = @ + 1]
                /\ step' = [step EXCEPT ![j] = "judge"]
                /\ UNCHANGED <<dagman, phase, ret, retry, max_retries, deferrals, unsaved>>
             \/ /\ Unsaved(j)
                /\ phase' = [phase EXCEPT ![j] = "failed"]
                /\ ret' = [ret EXCEPT ![j] = "2"] /\ step' = [step EXCEPT ![j] = "none"]
                /\ UNCHANGED <<dagman, retry, max_retries, deferrals>>
       \/ /\ ~first[j]
          /\ crab_retry' = [crab_retry EXCEPT ![j] = Own(retry_info[j])]
          /\ step' = [step EXCEPT ![j] = "transfer"]
          /\ UNCHANGED <<dagman, phase, ret, retry, max_retries, deferrals, retry_info, unsaved>>
    /\ UNCHANGED <<job_out, report, docs, stats, first, number, everOk, lastOk, mishaps>>

(* What check_exit_code makes of the verdict: "go" to go on.                   *)
AfterVerdict(j, verdict) ==
    CASE verdict = "FATAL_ERROR" -> "2"
      [] verdict = "RECOVERABLE_ERROR" -> CheckRetryCount(j)
      [] verdict = "OK" /\ ret[j] # "zero" /\ ~RetryLeft(j) -> "2"
      [] OTHER -> "go"

(* handle_webdir, the job ad and check_exit_code, in the first execution only. *)
(* Without the ad of a job that ran, RetryJob fails with an exception, answers *)
(* OK and records nothing.                                                     *)
PostCheckExitCode(j) ==
    /\ Running(j, "judge")
    /\ job_out' = [job_out EXCEPT ![j] = FALSE]
    /\ \E adParsed \in BOOLEAN, verdict \in Verdicts(ret[j], report[j]) :
        LET read == adParsed \/ ret[j] = "skipped"
            v == AfterVerdict(j, IF read THEN verdict ELSE "OK")
        IN  /\ IF read THEN Record(j, verdict) ELSE UNCHANGED stats
            /\ Mishap(j, IF ~read /\ verdict # "OK" THEN {"unjudged"} ELSE {})
            /\ IF v = "go"
               THEN /\ step' = [step EXCEPT ![j] = "transfer"]
                    /\ UNCHANGED <<dagman, phase, ret, retry, max_retries, deferrals>>
               ELSE PostEnds(j, v)
    /\ UNCHANGED <<retry_info, report, docs, script, number, everOk, lastOk, unsaved>>

(* condor_q fails five times: "return 4" is not the pair that execute unpacks,  *)
(* so the post-job ends with the error it began with, and check_abort_dag has  *)
(* no job ad to look at. Later executions find the file of the first one.      *)
CondorQFails(j) ==
    /\ Running(j, "judge") /\ ret[j] # "skipped"
    /\ job_out' = [job_out EXCEPT ![j] = FALSE]
    /\ DagmanRetries(j, "1")
    /\ UNCHANGED <<dagman, max_retries, retry_info, report, docs, stats, script, history>>

(* A later execution did not hear the verdict: if the first one was cut short, *)
(* nobody did.                                                                 *)
Unheard(j) == ~first[j] /\ docs[j] # crab_retry[j] /\ report[j] # "ok"

(* A bug the properties must find: transfers are waited for without a limit.   *)
BugTimedOut(j) == FALSE

(* check_transfers: the transfers have had their time.                         *)
TimedOut(j) == deferrals[j] > MaxDeferrals

(* Where perform_transfers leaves a post-job: "defer" for code 4. The first    *)
(* execution only asks for the transfers, whose errors may all be retried.     *)
TransferOutcomes(j) ==
    IF ~Transfers THEN {"0"}
    ELSE IF first[j] THEN {"defer", "0", CheckRetryCount(j)}
    ELSE IF docs[j] # crab_retry[j] THEN {CheckRetryCount(j)}  \* load_docs_in_transfer
    ELSE IF TimedOut(j) THEN {"0", "2", CheckRetryCount(j)}
    ELSE {"defer", "0", "2", CheckRetryCount(j)}

(* The rest of execute_internal: the report, the transfers, the metadata. An   *)
(* exception that nothing there catches leaves the error execute began with.   *)
PostTransfer(j) ==
    /\ Running(j, "transfer")
    /\ UNCHANGED stats
    /\ \E o \in IF report[j] = "none" THEN {"2"} ELSE TransferOutcomes(j) :
        \/ /\ o = "defer"
           /\ docs' = [docs EXCEPT ![j] = crab_retry[j]]
           /\ step' = [step EXCEPT ![j] = "post"]
           /\ UNCHANGED <<dagman, phase, ret, retry, max_retries, deferrals, mishaps>>
        \/ /\ o # "defer"
           /\ \E v \in {o, "1"} \cup (IF o = "0" THEN {CheckRetryCount(j)} ELSE {}) : PostEnds(j, v)
           /\ Mishap(j, IF Unheard(j) THEN {"unjudged"} ELSE {})
           /\ UNCHANGED docs
    /\ UNCHANGED <<retry_info, job_out, report, script, number, everOk, lastOk, unsaved>>

Post(j) == \/ GetDeferNum(j) \/ PostCalculateCrabRetry(j) \/ PostCheckExitCode(j)
           \/ CondorQFails(j) \/ PostTransfer(j)

-------------------------------------------------------------------------------
(* DAGMan ends, is restarted, or is held and released by a resubmission.       *)

DagEnds ==
    /\ dag = "running" /\ \A j \in Jobs : Ended(j)
    /\ dag' = IF \A j \in Jobs : phase[j] = "done" THEN "completed" ELSE "held"
    /\ UNCHANGED <<resubmitList, restarts, resubmits, node, files, stats, script, history>>

(* The scripts that run are killed, and their memory is lost.                  *)
DagDown(list) ==
    /\ dag' = "down"
    /\ resubmitList' = list
    /\ step' = [j \in Jobs |-> "none"]
    /\ mishaps' = [j \in Jobs |-> IF \/ step[j] \in {"count", "judge"} /\ first[j]
                                     \/ phase[j] = "start" /\ deferrals[j] > 0
                                  THEN mishaps[j] \cup {"cut"} ELSE mishaps[j]]
    /\ UNCHANGED <<phase, ret, retry, max_retries, files, stats, script, number, everOk,
                   lastOk, unsaved>>

Restart ==
    /\ dag = "running" /\ restarts < MaxRestarts
    /\ restarts' = restarts + 1 /\ UNCHANGED resubmits
    /\ DagDown(resubmitList)

(* DagmanResubmitter.                                                          *)
Resubmit ==
    /\ dag \in {"running", "held"} /\ resubmits < MaxResubmits
    /\ resubmits' = resubmits + 1 /\ UNCHANGED restarts
    /\ \E list \in SUBSET Jobs \ {{}} : DagDown(list)

(* adjustPostScriptExitStatus: a listed job whose post-job returned 0 or 2.    *)
Adjusted(j) == j \in resubmitList /\ Ended(j) /\ ret[j] \in {"0", "2"}

(* adjustMaxRetries, for the adjusted jobs.                                    *)
AdjustMaxRetries(j) ==
    IF Adjusted(j) THEN retry[j] + 1 + NumAutomJobRetries ELSE max_retries[j]

(* DAGMan finds a node that failed with a return value of 1 in nodes.log.      *)
Again(j, max) == Adjusted(j) /\ retry[j] < max

(* dag_bootstrap_startup.sh: AdjustSites, then DAGMan replays nodes.log. It    *)
(* runs at every start, and CRAB_ResubmitList is never cleared.                *)
StartDag ==
    /\ dag = "down"
    /\ dag' = "running"
    /\ fatal' = {} /\ ok' = {}
    /\ max_retries' = [j \in Jobs |-> AdjustMaxRetries(j)]
    /\ LET again == {j \in Jobs : Again(j, max_retries'[j])} IN
       /\ retry' = [j \in Jobs |-> IF j \in again THEN retry[j] + 1 ELSE retry[j]]
       /\ phase' = [j \in Jobs |-> IF j \in again THEN "start" ELSE phase[j]]
       /\ ret' = [j \in Jobs |-> IF j \in again THEN "none" ELSE ret[j]]
       /\ deferrals' = [j \in Jobs |-> IF j \in again THEN 0 ELSE deferrals[j]]
    /\ step' = [j \in Jobs |-> CASE phase'[j] = "start" -> "pre"
                                 [] phase'[j] = "submitted" -> "queue"
                                 [] phase'[j] = "ended" -> "post"
                                 [] OTHER -> "none"]
    /\ UNCHANGED <<resubmitList, restarts, resubmits, retry_info, job_out, report, docs,
                   script, history>>

(* AdjustSites gives up (checkTaskInfo, webdir): the ROOT job is put on hold.  *)
StartFails ==
    /\ dag = "down"
    /\ dag' = "held"
    /\ UNCHANGED <<resubmitList, restarts, resubmits, node, files, stats, script, history>>

Next ==
    \/ \E j \in Jobs : PreJob(j) \/ Submit(j) \/ JobEnds(j) \/ Post(j)
    \/ OtherJudged
    \/ DagEnds \/ Restart \/ Resubmit \/ StartDag \/ StartFails

(* The scripts, the jobs and DAGMan make progress; a pre-job is not deferred   *)
(* for ever, and some start of DAGMan ends.                                    *)
Fairness ==
    /\ \A j \in Jobs : WF_vars(\/ PreJob(j) /\ step'[j] # "pre"
                              \/ Submit(j) \/ JobEnds(j) \/ Post(j))
    /\ WF_vars(DagEnds \/ StartDag)

Spec == Init /\ [][Next]_vars /\ Fairness

-------------------------------------------------------------------------------
(* Properties.                                                                 *)

(* The state has its type, and DAGMan stays within the retries of the DAG file.*)
TypeOK ==
    /\ dag \in {"running", "down", "held", "completed", "aborted"}
    /\ resubmitList \subseteq Jobs /\ restarts \in 0..MaxRestarts /\ resubmits \in 0..MaxResubmits
    /\ phase \in [Jobs -> {"start", "submitted", "ended", "done", "failed"}]
    /\ ret \in [Jobs -> {"none", "zero", "nonzero", "skipped", "0", "1", "2", "3"}]
    /\ retry \in [Jobs -> Nat] /\ max_retries \in [Jobs -> Nat]
    /\ \A j \in Jobs : retry[j] <= max_retries[j]
    /\ step \in [Jobs -> {"none", "pre", "submit", "queue", "post", "count", "judge", "transfer"}]
    /\ retry_info \in [Jobs -> [pre : Nat, post : Nat]]
    /\ deferrals \in [Jobs -> 0..MaxDeferrals + 1] /\ job_out \in [Jobs -> BOOLEAN]
    /\ report \in [Jobs -> {"none", "ok", "recoverable", "fatal"}] /\ docs \in [Jobs -> Int]
    /\ fatal \subseteq Jobs \cup Others /\ ok \subseteq Jobs \cup Others
    /\ crab_retry \in [Jobs -> Int] /\ first \in [Jobs -> BOOLEAN]
    /\ number \in [Jobs -> Seq(Nat)] /\ everOk \subseteq Jobs /\ lastOk \subseteq Jobs
    /\ unsaved \in [Jobs -> 0..MaxUnsaved] /\ mishaps \in [Jobs -> SUBSET Mishaps]

(* Two runs of a job never have the same CRAB_Retry, though counts get lost,   *)
(* DAGMan is restarted and jobs are resubmitted: the logs, reports and         *)
(* transfers of a run are named by it.                                         *)
RunNumbersFresh ==
    \A j \in Jobs : "cut" \notin mishaps[j] =>
        \A a, b \in DOMAIN number[j] : a # b => number[j][a] # number[j][b]

LastNumber(j) == number[j][Len(number[j])]

(* The post-job of a run, deferred and restarted any number of times, uses the *)
(* number of that run.                                                         *)
PostKnowsItsRun ==
    \A j \in Jobs :
        /\ phase[j] = "ended" /\ step[j] \in {"judge", "transfer"}
        /\ "cut" \notin mishaps[j] /\ unsaved[j] = 0
        => crab_retry[j] = LastNumber(j)

(* Every run has a number of its own, and its post-job uses that number.      *)
RunNumbers == RunNumbersFresh /\ PostKnowsItsRun

(* A node is done only if a run of its job was successful, and the last one    *)
(* was, unless the bookkeeping of the job went wrong.                          *)
SuccessIsReal ==
    \A j \in Jobs : phase[j] = "done" /\ "unjudged" \notin mishaps[j] =>
        /\ j \in everOk
        /\ mishaps[j] = {} /\ unsaved[j] = 0 => j \in lastOk

(* DAGMan ends: deferrals and retries come to an end for every job.            *)
DagFinishes == dag = "running" ~> dag \in {"completed", "held", "aborted"}
===============================================================================
