------------------------------- MODULE JobWrapper ------------------------------
(* What a job does on the worker node. gWMS-CMSRunAnalysis.sh runs             *)
(* CMSRunAnalysis.py, which runs the application of the user and writes the    *)
(* job report, and, if that exits with 0, cmscp.py, which stages the log       *)
(* archive and the outputs out: to the storage of the site ("local", from      *)
(* where ASO takes them) or straight to the destination ("remote"), one after  *)
(* the other. The exit status (8 bits) and the report are all that the schedd  *)
(* gets: RetryJob judges the run by them, PostJob asks for the transfers that  *)
(* the report says are needed.                                                 *)
(*                                                                             *)
(* A job that is evicted starts again from nothing, with the same names.       *)
EXTENDS Integers, Sequences

CONSTANTS
    NumOutputs,  \* how many outputs a job may have
    AppCodes,    \* exit codes of the application in the framework job report
    MaxRestarts, \* bound on the evictions
    Setups       \* the ads of the job: what to transfer, and the stage-out policy

ASSUME JobWrapperAssumption ==
    /\ NumOutputs \in Nat /\ AppCodes \subseteq Nat /\ MaxRestarts \in Nat
    /\ Setups \subseteq [outputs : 0..NumOutputs, transferOutputs : BOOLEAN, saveLogs : BOOLEAN,
                         noStageout : BOOLEAN, policy : {<<"local">>, <<"remote">>, <<"local", "remote">>}]

VARIABLES
    setup,      \* the ad of this job
    at,         \* where the wrapper is, "end" at the end
    exit,       \* its exit status
    \* jobReport.json
    code,       \* exitCode, None without a report that can be read
    flags,      \* the <<file, policy>> with local_stageout or direct_stageout set
    \* cmscp.py
    exitInfo,   \* exit_info['exit_code']
    wrapper,    \* G_JOB_WRAPPER_EXIT_CODE
    status,     \* cmscp_status, None where nothing was done
    policies,   \* the policies still to try
    next,       \* the next output to stage out
    firstCode,  \* first_stageout_failure_code
    completed,  \* completedFiles of the local manager
    direct,     \* G_DIRECT_STAGEOUTS that are not removed
    \* the storage
    stored,     \* the <<file, policy, directory>> that are there
    restarts

report == <<code, flags>>
cmscp == <<exitInfo, wrapper, status, policies, next, firstCode, completed, direct>>
vars == <<setup, at, exit, report, cmscp, stored, restarts>>

None == -1
Log == 0
Files == Log..NumOutputs
Policies == {"local", "remote"}
Other(p) == IF p = "local" THEN "remote" ELSE "local"
Policy == Head(policies)

\* Files of an application that failed have a directory of their own.
Directory == IF wrapper = 0 THEN "done" ELSE "failed"

NoStatus == [valid |-> None, exist |-> None, inReport |-> None, archive |-> None,
             init |-> [p \in Policies |-> None], logs |-> [p \in Policies |-> None],
             outputs |-> [p \in Policies |-> None]]

Init ==
    /\ setup \in Setups /\ at = "run" /\ exit = None /\ code = None /\ flags = {}
    /\ exitInfo = 0 /\ wrapper = None /\ status = NoStatus /\ policies = <<>> /\ next = 1
    /\ firstCode = None /\ completed = {} /\ direct = {} /\ stored = {} /\ restarts = 0

Goes(a, b) == at = a /\ at' = b

-------------------------------------------------------------------------------
(* CMSRunAnalysis.py and the script around it.                                 *)

(* What may go wrong before a report is there, and with a report: the software *)
(* of CMS, the tweak, the hash of the PSet, the report, the names of outputs.  *)
NoReportCodes == {10042, 10043, 10040}
ReportedCodes == {10034, 10040, 80453, 50115, 80000}

(* CMSRunAnalysis.py: the report has the code of the application, or of what   *)
(* went wrong. Only the exit status decides on the stage-out: of a code above  *)
(* 255 it keeps the last eight bits.                                           *)
CMSRunAnalysis ==
    /\ at = "run"
    /\ \E c \in NoReportCodes \cup ReportedCodes \cup AppCodes :
        /\ \/ c \in NoReportCodes /\ UNCHANGED code
           \/ c \in ReportedCodes \cup AppCodes /\ code' = c
        /\ exit' = c % 256
        /\ at' = IF exit' = 0 THEN "ad" ELSE "end"
    /\ UNCHANGED <<setup, flags, cmscp, stored, restarts>>

-------------------------------------------------------------------------------
(* cmscp.py.                                                                   *)

(* The first failure is the one that is kept.                                  *)
UpdateExitInfo(info, c) == IF info = 0 /\ c # None THEN c ELSE info

(* A later status replaces it if it is forced, be it a success.                *)
ForceExitInfo(info, c) == IF c # None THEN c ELSE info

(* The end of cmscp.py and of the job: a failure is written to the report of   *)
(* an application that succeeded; otherwise the code of the application is     *)
(* the one to exit with.                                                       *)
Ends(info) ==
    LET c == IF wrapper \in {0, None} THEN info ELSE wrapper IN
    /\ at' = "end" /\ exitInfo' = info
    /\ code' = IF wrapper = 0 /\ info # 0 THEN info ELSE code
    /\ exit' = c % 256

(* An exception, or the process is killed: main does not come to its end. What *)
(* dies before wmcore_initialized is there makes 10043 of the exit status.     *)
Raises == Ends(80000)
Dies ==
    /\ at \notin {"run", "end"} /\ at' = "end"
    /\ exit' \in {137} \cup (IF at = "ad" THEN {10043 % 256} ELSE {})
    /\ UNCHANGED <<setup, report, cmscp, stored, restarts>>

(* The logs are not asked for without outputs. (Without outputs and with no    *)
(* wish for them they are, but LogsCondition needs outputs that were checked:  *)
(* nothing is copied, and only the making of the archive may fail.)            *)
NothingToDo == setup.outputs = 0 \/ ~setup.transferOutputs

(* The ad. The protocols that the sites have in common may leave "remote".     *)
ReadJobAd ==
    /\ at = "ad"
    /\ \/ Raises /\ UNCHANGED policies
       \/ (setup.noStageout \/ NothingToDo) /\ Ends(0) /\ UNCHANGED policies
       \/ /\ ~setup.noStageout /\ ~NothingToDo
          /\ Goes("ad", "report") /\ policies' \in {setup.policy, <<"remote">>}
          /\ UNCHANGED <<exitInfo, code, exit>>
    /\ UNCHANGED <<setup, flags, wrapper, status, next, firstCode, completed, direct, stored, restarts>>

(* job_report_validation: a report that cannot be read has no exit code. At a  *)
(* job whose site is the destination "remote" is tried first.                  *)
ValidateReport ==
    /\ Goes("report", "outputs")
    /\ \E valid \in {0, 80000} :
        /\ code = None => valid # 0
        /\ status' = [status EXCEPT !.valid = valid]
        /\ exitInfo' = UpdateExitInfo(exitInfo, valid)
        /\ wrapper' \in {code} \cup (IF valid # 0 THEN {None} ELSE {})
    /\ policies' \in {policies} \cup (IF Len(policies) = 2 THEN {<<"remote", "local">>} ELSE {})
    /\ UNCHANGED <<setup, exit, report, next, firstCode, completed, direct, stored, restarts>>

(* outputs_exist, and outputs_in_job_report if there is nothing wrong so far.  *)
OutputsChecked(exist, inReport) ==
    /\ inReport = None <=> ~(status.valid = 0 /\ exist = 0)
    /\ status' = [status EXCEPT !.exist = exist, !.inReport = inReport]
    /\ exitInfo' = UpdateExitInfo(UpdateExitInfo(exitInfo, exist), inReport)

CheckOutputs ==
    /\ Goes("outputs", "archive")
    /\ \E exist \in {0, 60302, 80000}, inReport \in {0, 60318, None} : OutputsChecked(exist, inReport)
    /\ UNCHANGED <<setup, exit, report, wrapper, policies, next, firstCode, completed, direct, stored,
                   restarts>>

MakeLogsArchive ==
    /\ Goes("archive", "init")
    /\ \E c \in {0, 80000, None} :
        /\ c = None <=> ~setup.saveLogs
        /\ status' = [status EXCEPT !.archive = c]
        /\ exitInfo' = UpdateExitInfo(exitInfo, c)
    /\ UNCHANGED <<setup, exit, report, wrapper, policies, next, firstCode, completed, direct, stored,
                   restarts>>

OutputsCondition == status.exist = 0 /\ status.inReport = 0
LogsCondition == status.archive = 0 /\ OutputsCondition
Listed(p) == \E i \in 1..Len(policies) : policies[i] = p

(* init_local_stageout_mgr and init_direct_stageout_impl. The second makes up  *)
(* for a failure of the first, or for its absence.                             *)
InitStageout ==
    /\ Goes("init", "logs")
    /\ \E init \in [Policies -> {0, 60311, None}] :
        /\ \A p \in Policies : init[p] = None <=> ~(Listed(p) /\ OutputsCondition)
        /\ status' = [status EXCEPT !.init = init]
        /\ LET info == UpdateExitInfo(exitInfo, init["local"])
           IN exitInfo' = IF init["local"] # 0 THEN ForceExitInfo(info, init["remote"]) ELSE info
    /\ UNCHANGED <<setup, exit, report, wrapper, policies, next, firstCode, completed, direct, stored,
                   restarts>>

(* perform_stageout: a copy that is reported as failed may be there; only what *)
(* was copied locally with success can be cleaned, and all of the direct ones. *)
(* (Setting a flag does not fail, for CheckOutputs has found each output in a  *)
(* report that can be read.)                                                   *)
PerformStageout(f, p, c) ==
    /\ c \in {0, 60307, 60403}
    /\ \E lands \in IF c = 0 THEN {TRUE} ELSE BOOLEAN :
        stored' = IF lands THEN stored \cup {<<f, p, Directory>>} ELSE stored
    /\ flags' = IF c = 0 THEN flags \cup {<<f, p>>} ELSE flags
    /\ completed' = IF p = "local" /\ c = 0 THEN completed \cup {f} ELSE completed
    /\ direct' = IF p = "remote" THEN direct \cup {f} ELSE direct

NoStageout == UNCHANGED <<stored, flags, completed, direct>>

(* What was staged out with the other policy, or cannot be with this one.      *)
Ready(st, p) == st.init[p] = 0

First(c) == IF firstCode = None /\ c # 0 THEN c ELSE firstCode

StageLogs ==
    /\ policies # <<>>
    /\ Goes("logs", "files") /\ next' = 1
    /\ IF LogsCondition /\ Ready(status, Policy) /\ status.logs[Other(Policy)] # 0
       THEN \E c \in {0, 60307, 60403} :
                /\ PerformStageout(Log, Policy, c)
                /\ status' = [status EXCEPT !.logs[Policy] = c]
                /\ firstCode' = First(c)
       ELSE NoStageout /\ UNCHANGED <<status, firstCode>>
    /\ UNCHANGED <<setup, exit, code, exitInfo, wrapper, policies, restarts>>

OutputsWanted == OutputsCondition /\ Ready(status, Policy) /\ status.outputs[Other(Policy)] # 0

(* The outputs, one after the other until one fails; none if the logs failed.  *)
StageOutput ==
    /\ at = "files"
    /\ IF OutputsWanted /\ status.logs[Policy] \in {None, 0}
       THEN \E c \in {0, 60307, 60403} :
                /\ PerformStageout(next, Policy, c)
                /\ status' = [status EXCEPT !.outputs[Policy] = c]
                /\ firstCode' = First(c)
                /\ next' = next + 1
                /\ at' = IF c = 0 /\ next < setup.outputs THEN "files" ELSE "clean"
       ELSE /\ NoStageout /\ at' = "clean" /\ UNCHANGED <<firstCode, next>>
            /\ status' = IF OutputsWanted THEN [status EXCEPT !.outputs[Policy] = 60318] ELSE status
    /\ UNCHANGED <<setup, exit, code, exitInfo, wrapper, policies, restarts>>

Failed(c) == c \notin {None, 0}

(* A bug the properties must find: the log is not kept.                        *)
BugToClean(p) == IF p = "local" THEN completed ELSE direct

(* What is cleaned after a failure: the local copies but the log, and          *)
(* everything that was sent to the destination.                                *)
ToClean(p) == IF p = "local" THEN completed \ {Log} ELSE direct

(* A bug the properties must find: a cleaned file keeps its flag.              *)
BugUnflagged(p) == flags

(* The report says so before a file is removed.                                *)
Unflagged(p) == flags \ (ToClean(p) \X {p})

(* The status after cleaning.                                                  *)
Cleaned(p) ==
    [status EXCEPT !.logs[p] = IF @ = 0 THEN 60318 ELSE @,
                   !.outputs[p] = IF @ = 0 THEN 60318 ELSE @]

(* The loop ends when both are done, or there is no other policy.              *)
After(st) == IF st.logs[Policy] = 0 /\ st.outputs[Policy] = 0 THEN <<>> ELSE Tail(policies)

CleanWanted == Failed(status.logs[Policy]) \/ Failed(status.outputs[Policy])

(* clean_stageout_area: first the report says that the files are gone. (For    *)
(* the destination the code goes from file to file; here all are unflagged     *)
(* before the first is removed.)                                               *)
CleanStageoutArea ==
    /\ at = "clean"
    /\ IF CleanWanted THEN flags' = Unflagged(Policy) /\ at' = "remove" /\ UNCHANGED policies
                      ELSE policies' = After(status) /\ at' = "logs" /\ UNCHANGED flags
    /\ UNCHANGED <<setup, exit, code, exitInfo, wrapper, status, next, firstCode, completed, direct,
                   stored, restarts>>

(* Then they are removed. A removal that fails is passed over at the           *)
(* destination; locally it ends main, for the name of what should be caught    *)
(* is that of a module.                                                        *)
RemoveFiles ==
    /\ at = "remove"
    /\ \E gone \in SUBSET ToClean(Policy) :
        /\ stored' = stored \ (gone \X {Policy} \X {Directory})
        /\ \/ /\ Policy = "local" => gone = ToClean(Policy)
              /\ completed' = IF Policy = "local" THEN completed \cap {Log} ELSE completed
              /\ direct' = IF Policy = "remote" THEN {} ELSE direct
              /\ status' = Cleaned(Policy) /\ policies' = After(Cleaned(Policy)) /\ at' = "logs"
              /\ UNCHANGED <<exit, code, exitInfo>>
           \/ /\ Policy = "local" /\ gone # ToClean(Policy)
              /\ Raises /\ UNCHANGED <<status, policies, completed, direct>>
    /\ UNCHANGED <<setup, flags, wrapper, next, firstCode, restarts>>

Missing(st) == \A p \in Policies : st[p] # 0

(* A bug the properties must find: the failure of the stage-out is not told    *)
(* if the logs are not asked for.                                              *)
BugStageoutFailed == setup.saveLogs /\ Missing(status.logs)

(* The logs or the outputs that are asked for are nowhere.                     *)
StageoutFailed == (setup.saveLogs /\ Missing(status.logs)) \/ Missing(status.outputs)

CmscpEnds ==
    /\ at = "logs" /\ policies = <<>>
    /\ Ends(IF StageoutFailed THEN UpdateExitInfo(exitInfo, firstCode) ELSE exitInfo)
    /\ UNCHANGED <<setup, flags, wrapper, status, policies, next, firstCode, completed, direct, stored,
                   restarts>>

(* The job is evicted, and starts again on another node.                       *)
Evicted ==
    /\ at # "end" /\ restarts < MaxRestarts /\ restarts' = restarts + 1
    /\ at' = "run" /\ exit' = None /\ code' = None /\ flags' = {}
    /\ exitInfo' = 0 /\ wrapper' = None /\ status' = NoStatus /\ policies' = <<>> /\ next' = 1
    /\ firstCode' = None /\ completed' = {} /\ direct' = {}
    /\ UNCHANGED <<setup, stored>>

Next ==
    \/ CMSRunAnalysis \/ ReadJobAd \/ ValidateReport \/ CheckOutputs \/ MakeLogsArchive \/ InitStageout
    \/ StageLogs \/ StageOutput \/ CleanStageoutArea \/ RemoveFiles \/ CmscpEnds \/ Dies \/ Evicted

Spec == Init /\ [][Next]_vars

-------------------------------------------------------------------------------
TypeOK ==
    /\ setup \in Setups /\ code \in {None} \cup Nat /\ exit \in {None} \cup 0..255
    /\ exitInfo \in Nat /\ next \in 1..(NumOutputs + 1) /\ restarts \in 0..MaxRestarts
    /\ flags \subseteq Files \X Policies /\ completed \subseteq Files /\ direct \subseteq Files
    /\ stored \subseteq Files \X Policies \X {"done", "failed"}
    /\ Len(policies) <= 2 /\ at = "files" => policies # <<>>
    /\ exit \notin {None, 0} => at = "end"
    /\ at \notin {"remove", "end"} => {f \in Files : <<f, "local">> \in flags} = completed

(* The report never says that a file was staged out somewhere if it is not     *)
(* there, while it is cleaned, or when a job died or was evicted and started   *)
(* again: post-jobs ask for transfers of the local ones.                       *)
ReportedIsStored ==
    \A f \in Files, p \in Policies :
        <<f, p>> \in flags => <<f, p, Directory>> \in stored

(* A run that RetryJob takes for a success (exit status 0 and exit code 0 in   *)
(* the report) has the outputs that were asked for staged out, each at a place *)
(* that the report names, whatever failed before.                              *)
SuccessIsStored ==
    at = "end" /\ exit = 0 /\ code = 0 /\ ~setup.noStageout /\ setup.transferOutputs =>
        \E p \in Policies : \A f \in 1..setup.outputs :
            <<f, p>> \in flags /\ <<f, p, "done">> \in stored
===============================================================================
