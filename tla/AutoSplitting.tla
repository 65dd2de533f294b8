----------------------------- MODULE AutoSplitting -----------------------------
(* Automatic splitting of one task on its schedd. The DAG of the task has a    *)
(* few probe jobs; from their throughput PreDAG splits the input into          *)
(* processing jobs, which run once and stop when their time is over. Up to     *)
(* three times, PreDAG collects what the processing jobs that have ended did   *)
(* not process and makes a tail of it: a DAG of jobs of its own.               *)
(*                                                                             *)
(* PreDAG is the PRE script of the empty node that stands for a subdag:        *)
(* number 0 for processing, 1 and up for tails. It learns from the status      *)
(* cache which jobs have ended, from the files of the PostJobs what is left of *)
(* their input, and from a file of its own which jobs it has dealt with.       *)
EXTENDS Integers, FiniteSets, Sequences

CONSTANTS
    Probes,       \* the probe jobs
    Processing,   \* the jobs that the input is split into
    Unplaced,     \* those whose block may turn out to have no allowed site
    Triggers,     \* minAutomaticTailTriggers, in percent
    MinTailSize,  \* minAutomaticTailSize
    MaxRestarts   \* bound on the restarts of DAGMan that hit a PreDAG

ASSUME SplittingAssumption ==
    /\ IsFiniteSet(Probes) /\ Probes # {} /\ IsFiniteSet(Processing) /\ Processing # {}
    /\ Probes \cap Processing = {} /\ Unplaced \subseteq Processing
    /\ Triggers \in Seq(1..100) /\ Triggers # <<>> /\ MinTailSize \in Nat /\ MaxRestarts \in Nat

Jobs == Probes \cup Processing

VARIABLES
    node,         \* [Jobs -> "none", "run", "post" (data saved), "finished", "failed"]
    throughputs,  \* automatic_splitting/throughputs: the jobs with a file
    missing,      \* automatic_splitting/missing_lumis: the jobs with a file
    cached,       \* the jobs that the status cache has as finished or failed
    waves,        \* the completions of the tails in RunJobs0.subdag
    pre,          \* [0..Len(Triggers) -> "none", "waiting", "done", "failed"], the node
    predag,       \* the PreDAG that has the lock, or NoPreDAG
    processed,    \* automatic_splitting/processed
    torn,         \* that file was left half-written
    given,        \* the lumis each tail has been submitted with
    skipped,      \* lumis left out because their block has no allowed site
    cut,          \* history: a PreDAG was cut between its submission and its end
    restarts

jobVars == <<node, throughputs, missing>>
dagVars == <<waves, pre>>
fileVars == <<processed, torn>>
history == <<skipped, cut, restarts>>
vars == <<jobVars, cached, dagVars, predag, fileVars, given, history>>

NoPreDAG == [n |-> -1, at |-> "none", status |-> {}, unprocessed |-> {}, lumis |-> {}]

(* The input of a processing job: one lumi that it processes before its time   *)
(* is over, and one for which the time may not be enough.                      *)
LumisOf(J) == J \X {"early", "late"}

Init ==
    /\ node = [j \in Jobs |-> IF j \in Probes THEN "run" ELSE "none"]
    /\ throughputs = {} /\ missing = {} /\ cached = {}
    /\ waves = <<>>
    /\ pre = [n \in 0..Len(Triggers) |-> IF n = 0 THEN "waiting" ELSE "none"]
    /\ predag = NoPreDAG /\ processed = {} /\ torn = FALSE
    /\ given = [n \in 1..Len(Triggers) |-> {}]
    /\ skipped = {} /\ cut = FALSE /\ restarts = 0

-------------------------------------------------------------------------------
(* The jobs.                                                                   *)

Ended == {j \in Jobs : node[j] \in {"finished", "failed"}}

(* The last run of a job failed, and its post-job says so before it looks at   *)
(* the report. Processing jobs have no retries.                                *)
JobFails(j) ==
    /\ node[j] = "run"
    /\ node' = [node EXCEPT ![j] = "failed"]
    /\ UNCHANGED <<throughputs, missing, cached, dagVars, predag, fileVars, given, history>>

(* A bug the properties must find: the files are written when all is over.     *)
BugSaveAutomaticSplittingData(j) ==
    /\ node[j] = "run"
    /\ node' = [node EXCEPT ![j] = "post"]
    /\ UNCHANGED <<throughputs, missing, cached, dagVars, predag, fileVars, given, history>>

(* The run was good: before it turns to the transfers, the post-job saves the  *)
(* throughput and, for a processing job, the lumis its time was too short for. *)
SaveAutomaticSplittingData(j) ==
    /\ node[j] = "run"
    /\ node' = [node EXCEPT ![j] = "post"]
    /\ throughputs' = throughputs \cup {j}
    /\ \/ UNCHANGED missing
       \/ j \in Processing /\ missing' = missing \cup {j}
    /\ UNCHANGED <<cached, dagVars, predag, fileVars, given, history>>

(* The transfers are over.                                                     *)
PostJobEnds(j) ==
    /\ node[j] = "post"
    /\ \E v \in {"finished", "failed"} : node' = [node EXCEPT ![j] = v]
    /\ UNCHANGED <<throughputs, missing, cached, dagVars, predag, fileVars, given, history>>

(* A bug the properties must find: a job is over when its payload is.          *)
BugCacheStatus ==
    /\ \E j \in Jobs : node[j] = "post" /\ j \notin cached /\ cached' = cached \cup {j}
    /\ UNCHANGED <<jobVars, dagVars, predag, fileVars, given, history>>

(* cache_status.py: the job log tells the end of a post-job, and the files of  *)
(* node states, which may be older, overrule it: some of the jobs that have    *)
(* ended become known. The file is replaced as a whole.                        *)
CacheStatus ==
    /\ \E J \in SUBSET (Ended \ cached) : J # {} /\ cached' = cached \cup J
    /\ UNCHANGED <<jobVars, dagVars, predag, fileVars, given, history>>

-------------------------------------------------------------------------------
(* PreDAG.                                                                     *)

Stage(n) == IF n = 0 THEN Probes ELSE Processing  \* the jobs that it waits for

CompletedJobs(n, status) == status \cap Stage(n)
FailedJobs(J) == {j \in J : node[j] = "failed"}

(* A bug the properties must find: the last tail waits for one job too many.   *)
BugCompletions(size) == [i \in 1..Len(Triggers) |-> (size * Triggers[i]) \div 100 + 1]

(* createSubdag: small DAGs have one tail only.                                *)
Completions(size) ==
    LET percents == IF size > MinTailSize THEN Triggers ELSE <<100>>
    IN  [i \in 1..Len(percents) |-> (size * percents[i]) \div 100]

(* The threshold of a node; all probes have to complete.                       *)
Completion(n) == IF n = 0 THEN Cardinality(Probes) ELSE waves[n]

(* The lock is taken and the status cache is read. Below the threshold the     *)
(* script returns 4 and DAGMan defers it.                                      *)
Enter(n) ==
    /\ pre[n] = "waiting" /\ predag = NoPreDAG
    /\ Cardinality(CompletedJobs(n, cached)) >= Completion(n)
    /\ predag' = [NoPreDAG EXCEPT !.n = n, !.at = "plan", !.status = cached]
    /\ UNCHANGED <<jobVars, cached, dagVars, fileVars, given, history>>

(* A bug the properties must find: jobs are dealt with in every tail anew.     *)
BugUnprocessed(n, status) == CompletedJobs(n, status)

Unprocessed(n, status) == CompletedJobs(n, status) \ processed

(* The jobs whose throughput is averaged: without a good job among those that  *)
(* are new, a tail takes the probes, the failed ones included.                 *)
Estimates(n, status) ==
    LET new == Unprocessed(n, status)
        failed == FailedJobs(CompletedJobs(n, status))
    IN  IF n > 0 /\ new \subseteq failed THEN CompletedJobs(0, status) ELSE new \ failed

(* The script ends: the node of the subdag has succeeded or failed.            *)
Leave(n, end) ==
    /\ pre' = [pre EXCEPT ![n] = end]
    /\ predag' = NoPreDAG

(* The file of processed jobs cannot be read, or a job has no file with its    *)
(* throughput.                                                                 *)
Raises(n) ==
    /\ predag.n = n /\ predag.at = "plan"
    /\ torn \/ ~(Estimates(n, predag.status) \subseteq throughputs)
    /\ Leave(n, "failed")
    /\ UNCHANGED <<jobVars, cached, waves, fileVars, given, history>>

Readable(n) == ~torn /\ Estimates(n, predag.status) \subseteq throughputs

(* There is no estimate, or it is zero; the splitting or the creation of the   *)
(* DAG fails, which also fails the task.                                       *)
GiveUp(n) ==
    /\ predag.n = n /\ predag.at = "plan" /\ Readable(n)
    /\ Leave(n, "failed")
    /\ UNCHANGED <<jobVars, cached, waves, fileVars, given, history>>

(* adjustLumisForCompletion: all the lumis of the failed jobs, and those that  *)
(* the others did not process.                                                 *)
AdjustLumisForCompletion(unprocessed) ==
    ((missing \cap unprocessed) \X {"late"}) \cup LumisOf(FailedJobs(unprocessed))

(* Nothing to process for completion.                                          *)
NothingToProcess(n) ==
    LET unprocessed == Unprocessed(n, predag.status) IN
    /\ n > 0 /\ predag.n = n /\ predag.at = "plan" /\ Readable(n)
    /\ Estimates(n, predag.status) # {}
    /\ AdjustLumisForCompletion(unprocessed) = {}
    /\ predag' = [predag EXCEPT !.at = "save", !.status = {}, !.unprocessed = unprocessed]
    /\ UNCHANGED <<jobVars, cached, dagVars, fileVars, given, history>>

(* Splitting and createSubdag, which leaves out the blocks without a site and  *)
(* fails if no job is left.                                                    *)
CreateSubdag(n) ==
    LET unprocessed == Unprocessed(n, predag.status)
        wanted == IF n = 0 THEN LumisOf(Processing) ELSE AdjustLumisForCompletion(unprocessed)
    IN  /\ predag.n = n /\ predag.at = "plan" /\ Readable(n)
        /\ Estimates(n, predag.status) # {}
        /\ \E J \in SUBSET Unplaced :
            /\ wanted \ LumisOf(J) # {}
            /\ predag' = [predag EXCEPT !.at = "submit", !.status = {},
                                        !.unprocessed = unprocessed,
                                        !.lumis = wanted \ LumisOf(J)]
        /\ UNCHANGED <<jobVars, cached, dagVars, fileVars, given, history>>

(* The jobs of RunJobs0.subdag.                                                *)
Created == {j \in Processing : predag.lumis \cap LumisOf({j}) # {}}

(* What createSubdag left out.                                                 *)
LeftOut(n) ==
    (IF n = 0 THEN LumisOf(Processing) ELSE AdjustLumisForCompletion(predag.unprocessed))
        \ predag.lumis

(* condor_submit_dag. A subdag that is there already is refused or goes on.    *)
SubmitSubdag(n) ==
    /\ predag.n = n /\ predag.at = "submit" /\ predag' = [predag EXCEPT !.at = "save", !.lumis = {}]
    /\ \/ /\ n = 0 /\ waves = <<>>
          /\ waves' = Completions(Cardinality(Created))
          /\ pre' = [k \in DOMAIN pre |-> IF k \in DOMAIN waves' THEN "waiting" ELSE pre[k]]
          /\ node' = [j \in Jobs |-> IF j \in Created THEN "run" ELSE node[j]]
          /\ skipped' = skipped \cup LeftOut(n)
          /\ UNCHANGED given
       \/ /\ n > 0 /\ given[n] = {}
          /\ given' = [given EXCEPT ![n] = predag.lumis]
          /\ skipped' = skipped \cup LeftOut(n)
          /\ UNCHANGED <<node, waves, pre>>
       \/ /\ IF n = 0 THEN waves # <<>> ELSE given[n] # {}
          /\ UNCHANGED <<node, waves, pre, given, skipped>>
    /\ UNCHANGED <<throughputs, missing, cached, fileVars, cut, restarts>>

(* condor_submit_dag fails: check_call raises.                                 *)
SubmissionFails(n) ==
    /\ predag.n = n /\ predag.at = "submit"
    /\ Leave(n, "failed")
    /\ UNCHANGED <<jobVars, cached, waves, fileVars, given, history>>

SaveProcessedJobs(n) ==
    /\ predag.n = n /\ predag.at = "save"
    /\ processed' = processed \cup predag.unprocessed
    /\ Leave(n, "done")
    /\ UNCHANGED <<jobVars, cached, waves, torn, given, history>>

(* DAGMan is restarted: the PRE script that was running starts again. If it    *)
(* was writing the file of processed jobs, it may leave half of it.            *)
Restart ==
    /\ predag # NoPreDAG /\ restarts < MaxRestarts
    /\ restarts' = restarts + 1
    /\ predag' = NoPreDAG
    /\ cut' = (cut \/ predag.at = "save")
    /\ \/ UNCHANGED fileVars
       \/ predag.at = "save" /\ torn' = TRUE /\ UNCHANGED processed
       \/ /\ predag.at = "save" /\ UNCHANGED torn
          /\ processed' = processed \cup predag.unprocessed
    /\ UNCHANGED <<jobVars, cached, dagVars, given, skipped>>

PreDAG(n) == \/ Enter(n) \/ Raises(n) \/ GiveUp(n) \/ NothingToProcess(n) \/ CreateSubdag(n)
             \/ SubmitSubdag(n) \/ SubmissionFails(n) \/ SaveProcessedJobs(n)

Job(j) == JobFails(j) \/ SaveAutomaticSplittingData(j) \/ PostJobEnds(j)

Next == \/ \E j \in Jobs : Job(j)
        \/ CacheStatus
        \/ \E n \in DOMAIN pre : PreDAG(n)
        \/ Restart

(* Jobs and their post-jobs end, the task process looks at all of them, and    *)
(* DAGMan starts its scripts again when they are deferred.                     *)
Fairness ==
    /\ \A j \in Jobs : WF_vars(Job(j))
    /\ WF_vars(CacheStatus /\ cached' = Ended)
    /\ \A n \in 0..Len(Triggers) : WF_vars(PreDAG(n))

Spec == Init /\ [][Next]_vars /\ Fairness

-------------------------------------------------------------------------------
(* Properties.                                                                 *)

PreDAGType == [n : -1..Len(Triggers), at : {"none", "plan", "submit", "save"},
               status : SUBSET Jobs, unprocessed : SUBSET Jobs, lumis : SUBSET LumisOf(Processing)]

(* The state has its type; jobs that are known to have ended have ended, and   *)
(* PreDAG deals only with those.                                               *)
TypeOK ==
    /\ node \in [Jobs -> {"none", "run", "post", "finished", "failed"}]
    /\ throughputs \subseteq Jobs /\ missing \subseteq Processing /\ cached \subseteq Ended
    /\ waves \in Seq(Nat) /\ Len(waves) <= Len(Triggers)
    /\ pre \in [0..Len(Triggers) -> {"none", "waiting", "done", "failed"}]
    /\ predag \in PreDAGType /\ predag.status \subseteq cached
    /\ processed \subseteq cached /\ torn \in BOOLEAN
    /\ given \in [1..Len(Triggers) -> SUBSET LumisOf(Processing)]
    /\ skipped \subseteq LumisOf(Processing) /\ cut \in BOOLEAN
    /\ restarts \in 0..MaxRestarts

(* The lumis of which the processing jobs have delivered the results.          *)
Delivered ==
    LET good == {j \in Processing : node[j] = "finished"}
    IN  (good \X {"early"}) \cup ((good \ missing) \X {"late"})

Tails == UNION {given[n] : n \in DOMAIN given}

(* No lumi is in two tails, or in a tail and in the output of the job that had *)
(* it, while jobs end, are reported late and PreDAGs of several tails come due *)
(* at the same time.                                                           *)
NoLumiTwice ==
    /\ \A n, m \in DOMAIN given : n # m => given[n] \cap given[m] = {}
    /\ Tails \cap Delivered = {}

(* When all tails have been made, each lumi of the input is in the output of   *)
(* its job or in a tail, or its block was left out for want of a site.         *)
NoLumiLost ==
    pre[0] = "done" /\ (\A n \in DOMAIN waves : pre[n] = "done") =>
        LumisOf(Processing) \subseteq Delivered \cup Tails \cup skipped

(* Every lumi is processed once, unless a PreDAG was cut after its submission. *)
EachLumiOnce == ~cut => NoLumiTwice /\ NoLumiLost

(* The scripts find the estimates they look for: an exception means that a     *)
(* submission failed, that a probe had failed, or that the file of processed   *)
(* jobs is broken.                                                             *)
EstimatesAreThere ==
    [][\A n \in DOMAIN pre : Raises(n) => torn \/ (n > 0 /\ FailedJobs(Probes) # {})]_vars

(* No node of a subdag waits for ever: all jobs become known, the thresholds   *)
(* are reached, and each node gets the lock.                                   *)
WavesEnd == <>[](\A n \in DOMAIN pre : pre[n] # "waiting")
===============================================================================
