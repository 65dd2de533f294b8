-------------------------------- MODULE TaskDB --------------------------------
(* The columns of the table TASKS that drive a task through the TaskWorker,    *)
(* and the SQL statements of Databases/TaskDB/Oracle/Task/Task.py that the     *)
(* REST interface executes on them. Every statement but UpdateWorker selects   *)
(* its row by the name of the task alone: none looks at the status it replaces.*)
EXTENDS Naturals, FiniteSets

CONSTANT Tasks

Commands == {"SUBMIT", "KILL", "RESUBMIT"}

(* ServerUtilities.TASKDBSTATUSES; "NONE" is a row not inserted yet.           *)
TmpStatuses == {"NEW", "HOLDING", "QUEUED", "TAPERECALL", "KILLRECALL"}
FailureStatuses == {"SUBMITFAILED", "KILLFAILED", "RESUBMITFAILED", "FAILED"}
FinalStatuses == {"UPLOADED", "SUBMITTED", "KILLED"} \cup FailureStatuses
Statuses == TmpStatuses \cup FinalStatuses \cup {"NONE"}

(* MasterWorker.STATE_ACTIONS_MAP: the status a failed command leads to.       *)
FailStatus(c) == CASE c = "SUBMIT"   -> "SUBMITFAILED"
                   [] c = "KILL"     -> "KILLFAILED"
                   [] c = "RESUBMIT" -> "RESUBMITFAILED"

VARIABLES
    status,  \* tm_task_status
    command, \* tm_task_command; "NULL" when a POST did not name one
    twname,  \* tw_name: the TaskWorker that holds the task
    dryrun,  \* tm_dry_run = 'T'
    schedd   \* tm_schedd is set

dbVars == <<status, command, twname, dryrun, schedd>>

Row(t) == [status |-> status[t], command |-> command[t]]

(* SetStatusTask_sql, SetStatusWarningTask_sql: both columns at once.          *)
SetStatusTask(t, st, c) ==
    /\ status' = [status EXCEPT ![t] = st]
    /\ command' = [command EXCEPT ![t] = c]

(* SetFailedTasks_sql, SetInjectedTasks_sql, UpdateDDMReqId_sql: the command   *)
(* stays.                                                                      *)
SetStatus(t, st) == SetStatusTask(t, st, command[t])

Smallest(a, b) == IF a < b THEN a ELSE b

(* The sets of rows a "WHERE ... AND rownum <= limit" can pick out of rows.    *)
Limited(rows, limit) ==
    {s \in SUBSET rows : Cardinality(s) = Smallest(limit, Cardinality(rows))}

(* UpdateWorker_sql, one atomic statement.                                     *)
UpdateWorker(w, limit, from, to) ==
    \E rows \in Limited({t \in Tasks : status[t] = from}, limit) :
        /\ status' = [t \in Tasks |-> IF t \in rows THEN to ELSE status[t]]
        /\ twname' = [t \in Tasks |-> IF t \in rows THEN w ELSE twname[t]]

(* A bug the properties must find: the TaskWorker is not in the WHERE clause.  *)
BugGetReadyTasks(w, limit, from) == Limited({t \in Tasks : status[t] = from}, limit)

(* GetReadyTasks_sql: the tasks that GET workflowdb can return to w.           *)
GetReadyTasks(w, limit, from) ==
    Limited({t \in Tasks : status[t] = from /\ twname[t] = w}, limit)

===============================================================================
