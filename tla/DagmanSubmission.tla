--------------------------- MODULE DagmanSubmission ---------------------------
(* The submission of one task: DagmanSubmitter, run and retried by the handler *)
(* of the task (Handler.actionWork), against several schedulers.               *)
(*                                                                             *)
(* execute() picks a schedd and records it in the row, looks for a DAG already *)
(* there, once, and then tries max_retry + 1 times to submit and to report. A  *)
(* report that gets no answer counts as a failed try, although the DAG runs.   *)
(* When all tries failed another schedd is picked and the handler calls again. *)
(* Any call may fail at any point, any number of times, and so may the         *)
(* TaskWorker; the next handler starts from what the row says.                 *)
(*                                                                             *)
(* The names of the specification have a prefix: Dags_proofs, about all the    *)
(* DAGs of a task, extends this module and AutoSplitting.                      *)
EXTENDS Naturals, FiniteSets

CONSTANTS
    Schedds,   \* backendurls['htcondorSchedds']
    NoSchedd,  \* tm_schedd is empty
    max_retry  \* config.TaskWorker.max_retry

ASSUME SubmissionAssumption == NoSchedd \notin Schedds /\ max_retry \in Nat

maxRetries == 5  \* of actionWork

VARIABLES
    tm_schedd,   \* the column of the row
    status,      \* the status of the row: QUEUED, SUBMITTED or SUBMITFAILED
    pc,          \* where the handler is
    schedd,      \* task['tm_schedd'] of the handler, and the variable schedd
    taskErrors,  \* scheddStats.taskErrors: the schedds that failed this task
    retry,       \* tries on this schedd
    retryCount,  \* calls of execute
    running,     \* schedd -> ROOT DAGs of the task idle or running there: 0, 1, or 2 for more
    leftover,    \* schedd -> the states of the other ROOT DAGs of the task there
    blind        \* history: an error left a running DAG the handler does not know of

row == <<tm_schedd, status>>
condor == <<running, leftover>>
handler == <<schedd, taskErrors, retry, retryCount>>
submissionVars == <<row, pc, handler, condor, blind>>

SubmissionInit ==
    /\ tm_schedd \in Schedds \cup {NoSchedd}  \* the user may name one
    /\ status = "QUEUED"
    /\ pc = "execute"
    /\ schedd = tm_schedd
    /\ taskErrors = {}
    /\ retry = 0 /\ retryCount = 0
    /\ running = [s \in Schedds |-> 0]
    /\ leftover = [s \in Schedds |-> {}]
    /\ blind = FALSE

-------------------------------------------------------------------------------
(* The handler.                                                                *)

(* Bugs the properties must find: one call too many; calls not counted.      *)
BugRaise(again) ==
    /\ retryCount' = retryCount + 1
    /\ pc' = IF again /\ retryCount < maxRetries THEN "execute" ELSE "fail"
BugEndlessRaise(again) ==
    /\ retryCount' = retryCount
    /\ pc' = IF again THEN "execute" ELSE "fail"

(* An exception leaves execute(): actionWork calls it again, or gives up. The  *)
(* count stops at the call that gives up.                                      *)
Raise(again) ==
    IF again /\ retryCount + 1 < maxRetries
    THEN retryCount' = retryCount + 1 /\ pc' = "execute"
    ELSE retryCount' = retryCount /\ pc' = "fail"

(* failTask, which ignores a lost answer.                                      *)
FailTask ==
    /\ pc = "fail"
    /\ pc' = "failed"
    /\ status' \in {status, "SUBMITFAILED"}
    /\ UNCHANGED <<tm_schedd, handler, condor, blind>>

-------------------------------------------------------------------------------
(* DagmanSubmitter.                                                            *)

Untried(errors) == Schedds \ errors

(* A bug the properties must find: only the handler learns the new schedd.   *)
BugSendScheddToREST(s, then) == schedd' = s /\ tm_schedd' = tm_schedd /\ then

(* sendScheddToREST; without an answer the submission is given up.             *)
SendScheddToREST(s, then) ==
    /\ schedd' = s
    /\ \/ tm_schedd' = s /\ then
       \/ tm_schedd' \in {tm_schedd, s} /\ Raise(FALSE)

(* pickAndSetSchedd: no schedd is left, or the collector fails, or one is set. *)
PickAndSetSchedd(errors, then) ==
    \/ Raise(FALSE) /\ UNCHANGED <<schedd, tm_schedd>>
    \/ \E s \in Untried(errors) : SendScheddToREST(s, then)

Execute ==
    /\ pc = "execute"
    /\ LET check == pc' = "check" /\ UNCHANGED retryCount IN
       \/ schedd = NoSchedd /\ PickAndSetSchedd(taskErrors, check)
       \/ schedd # NoSchedd /\ check /\ UNCHANGED <<schedd, tm_schedd>>
    /\ UNCHANGED <<status, taskErrors, retry, condor, blind>>

(* What the query finds: the first of the DAGs of the task, of any state.      *)
Found ==
    (IF running[schedd] > 0 THEN {"running"} ELSE {}) \cup leftover[schedd]

(* A bug the properties must find: no answer is taken for no duplicate.      *)
BugDuplicateCheck ==
    /\ pc = "check"
    /\ \/ "running" \in Found /\ pc' = "found" /\ UNCHANGED <<retry, retryCount>>
       \/ pc' = "submit" /\ retry' = 0 /\ UNCHANGED retryCount
    /\ UNCHANGED <<row, schedd, taskErrors, condor, blind>>

(* A held DAG is expected to go away, a removed one is not.                    *)
DuplicateCheck ==
    /\ pc = "check"
    /\ \/ Raise(TRUE) /\ UNCHANGED retry  \* the schedd does not answer
       \/ Found = {} /\ pc' = "submit" /\ retry' = 0 /\ UNCHANGED retryCount
       \/ "running" \in Found /\ pc' = "found" /\ UNCHANGED <<retry, retryCount>>
       \/ "held" \in Found /\ Raise(TRUE) /\ UNCHANGED retry
       \/ "removed" \in Found /\ Raise(FALSE) /\ UNCHANGED retry
    /\ UNCHANGED <<row, schedd, taskErrors, condor, blind>>

(* The duplicate is reported; without an answer the exception is final.        *)
ReportDuplicate ==
    /\ pc = "found"
    /\ \/ status' = "SUBMITTED" /\ pc' = "done" /\ UNCHANGED retryCount
       \/ status' \in {status, "SUBMITTED"} /\ Raise(FALSE)
    /\ UNCHANGED <<tm_schedd, schedd, taskErrors, retry, condor, blind>>

(* The schedd has a ROOT DAG more: held until its files are spooled.           *)
Queued(state) ==
    [r |-> IF state = "running" /\ running[schedd] < 2
           THEN running[schedd] + 1 ELSE running[schedd],
     l |-> IF state = "held" THEN leftover[schedd] \cup {"held"} ELSE leftover[schedd]]

(* schedd.act(Remove): everything of the task goes from this schedd, though the*)
(* ads may stay in the queue (LeaveJobInQueue).                                *)
Remove(q) ==
    /\ running' = [running EXCEPT ![schedd] = 0]
    /\ \E l \in {{}} \cup (IF q.r > 0 \/ q.l # {} THEN {{"removed"}} ELSE {}) :
            leftover' = [leftover EXCEPT ![schedd] = l]
    /\ UNCHANGED blind

(* A bug the properties must find: the exception is not raised again.        *)
BugAfterCleanup == "report"
AfterCleanup == "next"

(* submitDirect and its cleanup: submit, spool or edit fails, with or without a*)
(* DAG in the queue, and Remove is sent, which may fail too.                   *)
SubmitDirect ==
    /\ pc = "submit"
    /\ \/ /\ pc' = "report"
          /\ running' = [running EXCEPT ![schedd] = Queued("running").r]
          /\ UNCHANGED <<leftover, blind>>
       \/ pc' = "next" /\ UNCHANGED <<condor, blind>>  \* no schedd object, no groups
       \/ \E state \in {"none", "held", "running"} :
            LET q == Queued(state) IN
            /\ pc' = AfterCleanup
            /\ \/ Remove(q)
               \/ /\ running' = [running EXCEPT ![schedd] = q.r]
                  /\ leftover' = [leftover EXCEPT ![schedd] = q.l]
                  /\ blind' = (blind \/ state = "running")
    /\ UNCHANGED <<row, handler>>

(* The report of the new DAG; without an answer the try has failed.            *)
ReportSuccess ==
    /\ pc = "report"
    /\ \/ status' = "SUBMITTED" /\ pc' = "done" /\ UNCHANGED blind
       \/ status' \in {status, "SUBMITTED"} /\ pc' = "next" /\ blind' = TRUE
    /\ UNCHANGED <<tm_schedd, handler, condor>>

(* The except clause of execute's loop, and what follows the loop.             *)
NextTry ==
    /\ pc = "next"
    /\ taskErrors' = taskErrors \cup {schedd}
    /\ \/ /\ retry < max_retry
          /\ retry' = retry + 1 /\ pc' = "submit"
          /\ UNCHANGED <<schedd, tm_schedd, retryCount>>
       \/ /\ retry = max_retry
          /\ PickAndSetSchedd(taskErrors', Raise(TRUE))
          /\ UNCHANGED retry
    /\ UNCHANGED <<status, condor, blind>>

Handler == \/ Execute \/ DuplicateCheck \/ ReportDuplicate \/ SubmitDirect
           \/ ReportSuccess \/ NextTry \/ FailTask

-------------------------------------------------------------------------------
HandlerEnded == {"done", "failed", "down"}

Crash ==
    /\ pc # "down"
    /\ pc' = "down"
    /\ UNCHANGED <<row, handler, condor, blind>>

(* restartQueuedTasks, or a resubmission after SUBMITFAILED: another handler.  *)
NewHandler ==
    /\ pc \in HandlerEnded /\ status # "SUBMITTED"
    /\ status' = "QUEUED"
    /\ pc' = "execute"
    /\ schedd' = tm_schedd
    /\ taskErrors' = {}
    /\ retry' = 0 /\ retryCount' = 0
    /\ UNCHANGED <<tm_schedd, condor, blind>>

(* The schedd drops a DAG that is held or removed.                             *)
Drop(s) ==
    /\ \E state \in leftover[s] : leftover' = [leftover EXCEPT ![s] = @ \ {state}]
    /\ UNCHANGED <<row, pc, handler, running, blind>>

SubmissionNext == Handler \/ Crash \/ NewHandler \/ (\E s \in Schedds : Drop(s))

SubmissionSpec == SubmissionInit /\ [][SubmissionNext]_submissionVars
FairSubmission == SubmissionSpec /\ WF_submissionVars(Handler)

-------------------------------------------------------------------------------
(* Properties.                                                                 *)

(* The type of the state: the retry counters stay within their limits.         *)
SubmissionTypeOK ==
    /\ tm_schedd \in Schedds \cup {NoSchedd}
    /\ status \in {"QUEUED", "SUBMITTED", "SUBMITFAILED"}
    /\ pc \in {"execute", "check", "found", "submit", "report", "next", "fail"} \cup HandlerEnded
    /\ schedd \in Schedds \cup {NoSchedd}
    /\ taskErrors \subseteq Schedds
    /\ retry \in 0..max_retry /\ retryCount \in 0..(maxRetries - 1)
    /\ running \in [Schedds -> 0..2]
    /\ leftover \in [Schedds -> SUBSET {"held", "removed"}]
    /\ blind \in BOOLEAN

(* The jobs of a task are never run twice: at most one DAG runs, on all schedds*)
(* together, across tries, schedds, crashes and resubmissions, as long as no   *)
(* running DAG was left behind by a lost report or a failed cleanup.           *)
OneDag ==
    ~blind => \A s, u \in Schedds :
        running[s] <= 1 /\ (running[s] > 0 /\ running[u] > 0 => s = u)

(* A running DAG is on the schedd the row names: duplicateCheck, the kill and  *)
(* the resubmission look for it there and nowhere else.                        *)
RunningIsRecorded == ~blind => \A s \in Schedds : running[s] > 0 => tm_schedd = s

(* A task is only SUBMITTED if its DAG runs, on the schedd of the row.         *)
SubmittedHasDag ==
    ~blind /\ status = "SUBMITTED" => tm_schedd # NoSchedd /\ running[tm_schedd] = 1

(* The submission ends, whatever fails: the retries of the action times those  *)
(* of the handler are bounded.                                                 *)
SubmissionEnds == pc = "execute" ~> pc \in HandlerEnded

===============================================================================
