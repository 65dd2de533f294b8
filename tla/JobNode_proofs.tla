---------------------------- MODULE JobNode_proofs ----------------------------
(* Proofs about the life of the jobs of a DAG, for any number of jobs, retries,*)
(* restarts of DAGMan, resubmissions and counts that cannot be saved: the runs *)
(* of a job have numbers of their own, a post-job knows the number of its run  *)
(* (RunNumbers), and a node that is done had a successful run (SuccessIsReal). *)
(*                                                                             *)
(* All of the invariant is about one job at a time (NodeOK). Its heart is what *)
(* the count of post-jobs is at each step (Counting, Known): as long as no     *)
(* restart cuts a post-job short, PreJob numbers a run with $RETRY.            *)
EXTENDS JobNode, TLAPS

(* The post-job of this retry has not been counted.                            *)
Uncounted(j) == deferrals[j] = 0 \/ (step[j] = "count" /\ first[j])

(* What DAGMan does with a node fits the state of the node in nodes.log.       *)
NodeShape(j) ==
    /\ step[j] \in {"pre", "submit"} => phase[j] = "start"
    /\ step[j] \in {"post", "count", "judge", "transfer"} => phase[j] \in {"start", "ended"}
    /\ step[j] = "queue" => phase[j] \in {"submitted", "ended"}
    /\ phase[j] = "submitted" => step[j] \in {"none", "queue"}
    /\ step[j] \in {"count", "judge", "transfer"} => deferrals[j] > 0
    /\ step[j] = "judge" => first[j]
    /\ crab_retry[j] >= -1 /\ (step[j] = "submit" => crab_retry[j] >= 0)
    /\ phase[j] = "ended" => ret[j] \in {"zero", "nonzero"}
    /\ phase[j] = "ended" /\ ret[j] = "zero" => j \in lastOk

(* The runs have growing numbers, none above $RETRY, the last one's.           *)
Growing(j) ==
    /\ \A a \in DOMAIN number[j] :
        /\ number[j][a] <= retry[j]
        /\ phase[j] = "start" => number[j][a] < retry[j]
        /\ \A b \in DOMAIN number[j] : a < b => number[j][a] < number[j][b]
    /\ phase[j] \in {"submitted", "ended"} => number[j] # <<>> /\ LastNumber(j) = retry[j]

(* The count of post-jobs is not ahead of $RETRY.                              *)
Counting(j) ==
    /\ phase[j] = "start" /\ step[j] \in {"none", "pre", "submit"} => deferrals[j] = 0
    /\ phase[j] = "submitted" => deferrals[j] = 0
    /\ retry_info[j].post <= retry[j] + 1
    /\ Uncounted(j) => retry_info[j].post <= retry[j]
    /\ step[j] = "submit" => crab_retry[j] = retry[j]
    /\ Growing(j)

(* If all counts were saved, the count says which run it is.                   *)
Known(j) ==
    /\ phase[j] \in {"submitted", "ended"} \/ step[j] = "submit" =>
        retry_info[j].post = IF Uncounted(j) THEN retry[j] ELSE retry[j] + 1
    /\ phase[j] = "ended" /\ step[j] \in {"judge", "transfer"} => crab_retry[j] = retry[j]

(* What post-jobs found good was good, once at least.                          *)
Judged(j) ==
    /\ report[j] = "ok" => j \in everOk
    /\ "unjudged" \notin mishaps[j] =>
        /\ docs[j] # NoDocs => j \in everOk
        /\ step[j] = "transfer" /\ first[j] => j \in everOk
        /\ phase[j] = "done" => j \in everOk

(* If the bookkeeping went well, it was the last run that was found good, and  *)
(* no run is left out.                                                         *)
LastJudged(j) ==
    /\ job_out[j] => phase[j] = "ended"
                     /\ (deferrals[j] = 0 \/ (step[j] \in {"count", "judge"} /\ first[j]))
    /\ step[j] \in {"post", "count", "judge", "transfer"} => phase[j] = "ended"
    /\ phase[j] = "ended" /\ deferrals[j] > 0 /\ ~(step[j] \in {"count", "judge"} /\ first[j]) =>
        ret[j] = "zero"
    /\ phase[j] = "done" => j \in lastOk

NodeOK(j) ==
    /\ NodeShape(j)
    /\ "cut" \notin mishaps[j] => Counting(j)
    /\ "cut" \notin mishaps[j] /\ unsaved[j] = 0 => Known(j)
    /\ Judged(j)
    /\ mishaps[j] = {} /\ unsaved[j] = 0 => LastJudged(j)

(* A DAGMan that does not run does nothing with its nodes.                     *)
Halted == dag \in {"down", "held"} => \A j \in Jobs : step[j] = "none"

(* The inductive invariant.                                                    *)
IInv == TypeOK /\ Halted /\ \A j \in Jobs : NodeOK(j)

-------------------------------------------------------------------------------
(* The type.                                                                   *)

Phases == {"start", "submitted", "ended", "done", "failed"}
Rets == {"none", "zero", "nonzero", "skipped", "0", "1", "2", "3"}
Steps == {"none", "pre", "submit", "queue", "post", "count", "judge", "transfer"}

(* The node is to be run again, as DAGMan decides after a post-job.            *)
Retried(j) ==
    /\ RetryLeft(j)
    /\ retry' = [retry EXCEPT ![j] = @ + 1] /\ phase' = [phase EXCEPT ![j] = "start"]
    /\ step' = [step EXCEPT ![j] = "pre"] /\ deferrals' = [deferrals EXCEPT ![j] = 0]
    /\ ret' = [ret EXCEPT ![j] = "none"]

(* The node is over.                                                           *)
Over(j, p, r) ==
    /\ phase' = [phase EXCEPT ![j] = p] /\ step' = [step EXCEPT ![j] = "none"]
    /\ ret' = [ret EXCEPT ![j] = r] /\ UNCHANGED <<retry, deferrals>>

(* A post-job ends the retry or the node, which is done for code 0 only.       *)
LEMMA PostEndsForms ==
    ASSUME NEW j \in Jobs, NEW v \in {"0", "1", "2"}, PostEnds(j, v)
    PROVE  /\ dag' \in {dag, "aborted"} /\ UNCHANGED <<resubmitList, restarts, resubmits, max_retries>>
           /\ \/ Retried(j)
              \/ \E p \in {"done", "failed"}, r \in Rets : Over(j, p, r) /\ (p = "done" => v = "0")
  <1>1. CASE AbortDag
    <2>1. dag' = "aborted" /\ Over(j, "failed", "3")
      BY <1>1 DEF PostEnds, Over
    <2> QED
      BY <2>1 DEF PostEnds, Rets
  <1>2. CASE ~AbortDag /\ v = "1"
    <2>1. DagmanRetries(j, v) /\ dag' = dag
      BY <1>2 DEF PostEnds
    <2>2. Retried(j) \/ Over(j, "failed", v)
      BY <2>1 DEF DagmanRetries, Retried, Over
    <2> QED
      BY <2>1, <2>2, <1>2 DEF PostEnds, Rets
  <1>3. CASE ~AbortDag /\ v # "1"
    <2>1. Over(j, IF v = "0" THEN "done" ELSE "failed", v) /\ dag' = dag
      BY <1>3 DEF PostEnds, Over
    <2> QED
      BY <2>1, <1>3 DEF PostEnds, Rets
  <1> QED
    BY <1>1, <1>2, <1>3

(* Both ends keep the types.                                                   *)
LEMMA EndTypes ==
    ASSUME TypeOK, NEW j \in Jobs, UNCHANGED max_retries,
           \/ Retried(j)
           \/ \E p \in {"done", "failed"}, r \in Rets : Over(j, p, r)
    PROVE  /\ phase' \in [Jobs -> Phases] /\ ret' \in [Jobs -> Rets] /\ step' \in [Jobs -> Steps]
           /\ retry' \in [Jobs -> Nat] /\ \A i \in Jobs : retry'[i] <= max_retries'[i]
           /\ deferrals' \in [Jobs -> 0..MaxDeferrals + 1]
  <1>1. CASE Retried(j)
    BY <1>1, JobNodeAssumption DEF Retried, RetryLeft, TypeOK, Phases, Rets, Steps
  <1>2. CASE \E p \in {"done", "failed"}, r \in Rets : Over(j, p, r)
    BY <1>2 DEF Over, TypeOK, Phases, Rets, Steps
  <1> QED
    BY <1>1, <1>2

Infos == [pre : Nat, post : Nat]

(* The corrected counts, and those that PreJob saves: the count of post-jobs   *)
(* is raised to $RETRY, and PreJob does not change it otherwise.               *)
LEMMA CountsFacts ==
    ASSUME NEW info \in Infos, NEW r \in Nat, NEW out \in BOOLEAN
    PROVE  /\ Corrected(info, r) \in Infos
           /\ Corrected(info, r).post = IF info.post < r THEN r ELSE info.post
           /\ Counted(info, out) \in Infos /\ Counted(info, out).post = info.post
           /\ Counted(Corrected(info, r), out) \in Infos
           /\ Counted(Corrected(info, r), out).post = Corrected(info, r).post
  <1>1. info.pre \in Nat /\ info.post \in Nat
    BY DEF Infos
  <1>2. PICK d \in Nat : d = IF info.post < r THEN r - info.post ELSE 0
    BY <1>1
  <1>3. Corrected(info, r) = [pre |-> info.pre + d, post |-> info.post + d]
    BY <1>2 DEF Corrected
  <1>4. info.pre + d \in Nat /\ info.post + d \in Nat
    BY <1>1
  <1>5. Corrected(info, r) \in Infos
    BY <1>3, <1>4 DEF Infos
  <1>6. Corrected(info, r).post = IF info.post < r THEN r ELSE info.post
    BY <1>1, <1>2, <1>3
  <1>7. ASSUME NEW i \in Infos
        PROVE  Counted(i, out) \in Infos /\ Counted(i, out).post = i.post
    <2>1. i.pre \in Nat /\ i.post \in Nat /\ i.post + 1 \in Nat
      BY DEF Infos
    <2>2. [i EXCEPT !.pre = i.post + 1] = [pre |-> i.post + 1, post |-> i.post]
      BY DEF Infos
    <2>3. Counted(i, out) \in {i, [pre |-> i.post + 1, post |-> i.post]}
      BY <2>2 DEF Counted
    <2> QED
      BY <2>1, <2>3 DEF Infos
  <1> QED
    BY <1>5, <1>6, <1>7

(* A pre-job keeps the types.                                                  *)
LEMMA PreJobType ==
    ASSUME IInv, NEW j \in Jobs, PreJob(j)
    PROVE  TypeOK'
  <1>1. PICK saved \in BOOLEAN, end \in {"skip", "submit", "defer", "fail"} :
        LET info == Corrected(retry_info[j], retry[j]) IN
        /\ end = "skip" <=> AlreadySubmitted(info, job_out[j])
        /\ IF saved
           THEN /\ retry_info' = [retry_info EXCEPT ![j] = Counted(info, job_out[j])]
                /\ UNCHANGED unsaved
           ELSE Unsaved(j)
        /\ crab_retry' = [crab_retry EXCEPT ![j] = info.post]
        /\ step' = [step EXCEPT ![j] = CASE end \in {"skip", "fail"} -> "post"
                                         [] end = "submit" -> "submit"
                                         [] OTHER -> "pre"]
        /\ ret' = IF end \in {"skip", "fail"} THEN [ret EXCEPT ![j] = "skipped"] ELSE ret
        /\ Mishap(j, IF end = "fail" THEN {"preFailed"} ELSE {})
    BY DEF PreJob
  <1> DEFINE info == Corrected(retry_info[j], retry[j])
  <1>2. info \in [pre : Nat, post : Nat] /\ Counted(info, job_out[j]) \in [pre : Nat, post : Nat]
    <2>1. retry_info[j] \in Infos /\ retry[j] \in Nat /\ job_out[j] \in BOOLEAN
      BY DEF IInv, TypeOK, Infos
    <2> QED
      BY <2>1, CountsFacts DEF Infos
  <1>3. retry_info' \in [Jobs -> [pre : Nat, post : Nat]] /\ unsaved' \in [Jobs -> 0..MaxUnsaved]
    <2> HIDE DEF info
    <2>1. retry_info' = [retry_info EXCEPT ![j] = Counted(info, job_out[j])] \/ UNCHANGED retry_info
      BY <1>1 DEF Unsaved, info
    <2>2. UNCHANGED unsaved \/ (unsaved[j] < MaxUnsaved /\ unsaved' = [unsaved EXCEPT ![j] = @ + 1])
      BY <1>1 DEF Unsaved
    <2>3. PICK i \in Infos : i = Counted(info, job_out[j])
      BY <1>2 DEF Infos
    <2>4. /\ unsaved \in [Jobs -> 0..MaxUnsaved] /\ MaxUnsaved \in Nat
          /\ retry_info \in [Jobs -> Infos]
      BY JobNodeAssumption DEF IInv, TypeOK, Infos
    <2>5. retry_info' \in [Jobs -> Infos]
      BY <2>1, <2>3, <2>4
    <2>6. unsaved' \in [Jobs -> 0..MaxUnsaved]
      BY <2>2, <2>4
    <2> QED
      BY <2>5, <2>6 DEF Infos
  <1>4. crab_retry' \in [Jobs -> Int] /\ step' \in [Jobs -> Steps]
    <2>1. crab_retry' = [crab_retry EXCEPT ![j] = info.post]
      BY <1>1
    <2>2. info.post \in Int
      BY <1>2
    <2>3. PICK st \in Steps : step' = [step EXCEPT ![j] = st]
      BY <1>1 DEF Steps
    <2> QED
      BY <2>1, <2>2, <2>3 DEF IInv, TypeOK, Steps
  <1>5. ret' \in [Jobs -> Rets] /\ mishaps' \in [Jobs -> SUBSET Mishaps]
    BY <1>1 DEF IInv, TypeOK, Rets, Mishap, Mishaps
  <1> QED
    BY <1>3, <1>4, <1>5 DEF PreJob, IInv, TypeOK, Steps, Rets, dagman, stats

(* The submission and the end of a job keep the types.                         *)
LEMMA JobType ==
    ASSUME IInv, NEW j \in Jobs, Submit(j) \/ JobEnds(j)
    PROVE  TypeOK'
  <1>1. CASE Submit(j)
    <2>1. crab_retry[j] \in Nat
      BY <1>1 DEF Submit, Running, IInv, TypeOK, NodeOK, NodeShape
    <2>2. number' \in [Jobs -> Seq(Nat)]
      BY <1>1, <2>1 DEF Submit, IInv, TypeOK
    <2> QED
      BY <1>1, <2>2 DEF Submit, IInv, TypeOK, dagman, files, stats, script
  <1>2. CASE JobEnds(j)
    <2>1. PICK end \in {"ok", "recoverable", "fatal", "lost"} :
            /\ ret' = [ret EXCEPT ![j] = IF end = "ok" THEN "zero" ELSE "nonzero"]
            /\ report' = IF end = "lost" THEN report ELSE [report EXCEPT ![j] = end]
            /\ job_out' = IF end = "lost" THEN job_out ELSE [job_out EXCEPT ![j] = TRUE]
            /\ lastOk' = IF end = "ok" THEN lastOk \cup {j} ELSE lastOk \ {j}
            /\ everOk' = everOk \cup lastOk'
      BY <1>2 DEF JobEnds
    <2>2. /\ ret' \in [Jobs -> Rets] /\ report' \in [Jobs -> {"none", "ok", "recoverable", "fatal"}]
          /\ job_out' \in [Jobs -> BOOLEAN] /\ lastOk' \subseteq Jobs /\ everOk' \subseteq Jobs
      BY <2>1 DEF IInv, TypeOK, Rets
    <2>3. phase' \in [Jobs -> Phases] /\ step' \in [Jobs -> Steps]
      BY <1>2 DEF JobEnds, IInv, TypeOK, Phases, Steps
    <2> QED
      BY <1>2, <2>2, <2>3 DEF JobEnds, IInv, TypeOK, dagman, stats, script, Rets, Phases, Steps
  <1> QED
    BY <1>1, <1>2

(* CheckRetryCount answers 1 or 2.                                             *)
LEMMA RetryCountCodes == \A j \in Jobs : CheckRetryCount(j) \in {"1", "2"}
  BY DEF CheckRetryCount

(* A post-job that counts itself keeps the types.                              *)
LEMMA CountType ==
    ASSUME IInv, NEW j \in Jobs, GetDeferNum(j) \/ PostCalculateCrabRetry(j)
    PROVE  TypeOK'
  <1>1. CASE GetDeferNum(j)
    <2>1. deferrals' \in [Jobs -> 0..MaxDeferrals + 1] /\ first' \in [Jobs -> BOOLEAN]
          /\ step' \in [Jobs -> Steps]
      BY <1>1, JobNodeAssumption DEF GetDeferNum, Deferral, IInv, TypeOK, Steps
    <2> QED
      BY <1>1, <2>1 DEF GetDeferNum, IInv, TypeOK, dagman, stats, history, Steps
  <1>2. CASE PostCalculateCrabRetry(j)
    <2>1. /\ crab_retry' \in [Jobs -> Int] /\ retry_info' \in [Jobs -> [pre : Nat, post : Nat]]
          /\ unsaved' \in [Jobs -> 0..MaxUnsaved]
      <3>1. retry_info[j] \in Infos /\ retry_info[j].post \in Nat
        BY DEF IInv, TypeOK, Infos
      <3>2. [retry_info[j] EXCEPT !.post = @ + 1] = [pre |-> retry_info[j].pre, post |-> retry_info[j].post + 1]
        BY <3>1 DEF Infos
      <3>3. \/ retry_info' = [retry_info EXCEPT ![j] = [retry_info[j] EXCEPT !.post = @ + 1]]
            \/ UNCHANGED retry_info
        BY <1>2 DEF PostCalculateCrabRetry, Unsaved
      <3>4. retry_info' \in [Jobs -> Infos]
        <4>1. PICK i \in Infos : i = [retry_info[j] EXCEPT !.post = @ + 1]
          BY <3>1, <3>2 DEF Infos
        <4>2. retry_info \in [Jobs -> Infos]
          BY DEF IInv, TypeOK, Infos
        <4> QED
          BY <3>3, <4>1, <4>2
      <3>5. crab_retry' = [crab_retry EXCEPT ![j] = retry_info[j].post]
            \/ crab_retry' = [crab_retry EXCEPT ![j] = retry_info[j].post - 1]
        BY <1>2 DEF PostCalculateCrabRetry, Own
      <3>6. crab_retry' \in [Jobs -> Int]
        <4>1. crab_retry \in [Jobs -> Int] /\ retry_info[j].post - 1 \in Int
          BY <3>1 DEF IInv, TypeOK
        <4> QED
          BY <3>1, <3>5, <4>1
      <3>7. UNCHANGED unsaved \/ (unsaved[j] < MaxUnsaved /\ unsaved' = [unsaved EXCEPT ![j] = @ + 1])
        BY <1>2 DEF PostCalculateCrabRetry, Unsaved
      <3>8. unsaved' \in [Jobs -> 0..MaxUnsaved]
        <4>1. unsaved \in [Jobs -> 0..MaxUnsaved] /\ MaxUnsaved \in Nat
          BY JobNodeAssumption DEF IInv, TypeOK
        <4> QED
          BY <3>7, <4>1
      <3> QED
        BY <3>4, <3>6, <3>8 DEF Infos
    <2>2. phase' \in [Jobs -> Phases] /\ step' \in [Jobs -> Steps] /\ ret' \in [Jobs -> Rets]
          /\ UNCHANGED <<dagman, retry, max_retries, deferrals>>
      BY <1>2 DEF PostCalculateCrabRetry, IInv, TypeOK, Phases, Steps, Rets
    <2> QED
      BY <1>2, <2>1, <2>2 DEF PostCalculateCrabRetry, IInv, TypeOK, dagman, stats, Phases, Steps, Rets
  <1> QED
    BY <1>1, <1>2

(* A post-job that judges, fails, or handles its transfers keeps the types.    *)
LEMMA JudgeType ==
    ASSUME IInv, NEW j \in Jobs, PostCheckExitCode(j) \/ CondorQFails(j) \/ PostTransfer(j)
    PROVE  TypeOK'
  <1> DEFINE Ends == \E v \in {"0", "1", "2"} : PostEnds(j, v)
             Goes(p) == step' = [step EXCEPT ![j] = p]
                        /\ UNCHANGED <<dagman, phase, ret, retry, max_retries, deferrals>>
             NodeTypes ==
               /\ dag' \in {dag, "aborted"} /\ UNCHANGED <<resubmitList, restarts, resubmits, max_retries>>
               /\ phase' \in [Jobs -> Phases] /\ ret' \in [Jobs -> Rets] /\ step' \in [Jobs -> Steps]
               /\ retry' \in [Jobs -> Nat] /\ \A i \in Jobs : retry'[i] <= max_retries'[i]
               /\ deferrals' \in [Jobs -> 0..MaxDeferrals + 1]
  <1>1. ASSUME Ends PROVE NodeTypes
    BY <1>1, PostEndsForms, EndTypes DEF IInv
  <1>2. ASSUME NEW p \in Steps, Goes(p) PROVE NodeTypes
    BY <1>2 DEF IInv, TypeOK, Phases, Rets, Steps, dagman
  <1>3. CASE PostCheckExitCode(j)
    <2>1. PICK adParsed \in BOOLEAN, verdict \in Verdicts(ret[j], report[j]) :
            LET read == adParsed \/ ret[j] = "skipped"
                v == AfterVerdict(j, IF read THEN verdict ELSE "OK")
            IN  /\ IF read THEN Record(j, verdict) ELSE UNCHANGED stats
                /\ Mishap(j, IF ~read /\ verdict # "OK" THEN {"unjudged"} ELSE {})
                /\ IF v = "go"
                   THEN /\ step' = [step EXCEPT ![j] = "transfer"]
                        /\ UNCHANGED <<dagman, phase, ret, retry, max_retries, deferrals>>
                   ELSE PostEnds(j, v)
      BY <1>3 DEF PostCheckExitCode
    <2>2. fatal' \subseteq Jobs \cup Others /\ ok' \subseteq Jobs \cup Others
      BY <2>1 DEF Record, IInv, TypeOK, stats
    <2>3. mishaps' \in [Jobs -> SUBSET Mishaps]
      BY <2>1 DEF Mishap, Mishaps, IInv, TypeOK
    <2>4. \A w : AfterVerdict(j, w) \in {"go", "1", "2"}
      BY RetryCountCodes DEF AfterVerdict
    <2>5. Ends \/ Goes("transfer")
      BY <2>1, <2>4
    <2>6. NodeTypes
      BY <2>5, <1>1, <1>2 DEF Steps
    <2>7. job_out' \in [Jobs -> BOOLEAN]
      BY <1>3 DEF PostCheckExitCode, IInv, TypeOK
    <2> HIDE DEF NodeTypes
    <2> QED
      BY <1>3, <2>2, <2>3, <2>6, <2>7 DEF NodeTypes, PostCheckExitCode, IInv, TypeOK, Phases, Rets, Steps, script
  <1>4. CASE CondorQFails(j)
    <2>1. Retried(j) \/ Over(j, "failed", "1")
      BY <1>4 DEF CondorQFails, DagmanRetries, Retried, Over
    <2>2. NodeTypes
      BY <1>4, <2>1, EndTypes DEF CondorQFails, IInv, Rets, dagman
    <2>3. job_out' \in [Jobs -> BOOLEAN]
      BY <1>4 DEF CondorQFails, IInv, TypeOK
    <2> HIDE DEF NodeTypes
    <2> QED
      BY <1>4, <2>2, <2>3 DEF NodeTypes, CondorQFails, IInv, TypeOK, Phases, Rets, Steps, script, stats, history
  <1>5. CASE PostTransfer(j)
    <2>1. PICK o \in IF report[j] = "none" THEN {"2"} ELSE TransferOutcomes(j) :
            \/ /\ o = "defer"
               /\ docs' = [docs EXCEPT ![j] = crab_retry[j]]
               /\ step' = [step EXCEPT ![j] = "post"]
               /\ UNCHANGED <<dagman, phase, ret, retry, max_retries, deferrals, mishaps>>
            \/ /\ o # "defer"
               /\ \E v \in {o, "1"} \cup (IF o = "0" THEN {CheckRetryCount(j)} ELSE {}) : PostEnds(j, v)
               /\ Mishap(j, IF Unheard(j) THEN {"unjudged"} ELSE {})
               /\ UNCHANGED docs
      BY <1>5 DEF PostTransfer
    <2>2. o \in {"defer", "0", "1", "2"}
      BY RetryCountCodes DEF TransferOutcomes
    <2>3. Ends \/ Goes("post")
      BY <2>1, <2>2, RetryCountCodes
    <2>4. NodeTypes
      BY <2>3, <1>1, <1>2 DEF Steps
    <2>5. docs' \in [Jobs -> Int] /\ mishaps' \in [Jobs -> SUBSET Mishaps]
      <3>1. docs \in [Jobs -> Int] /\ crab_retry[j] \in Int /\ mishaps \in [Jobs -> SUBSET Mishaps]
        BY DEF IInv, TypeOK
      <3>2. docs' = docs \/ docs' = [docs EXCEPT ![j] = crab_retry[j]]
        BY <2>1
      <3>3. PICK W \in SUBSET Mishaps : mishaps' = mishaps \/ mishaps' = [mishaps EXCEPT ![j] = @ \cup W]
        BY <2>1 DEF Mishap, Mishaps
      <3> QED
        BY <3>1, <3>2, <3>3
    <2> HIDE DEF NodeTypes
    <2> QED
      BY <1>5, <2>4, <2>5 DEF NodeTypes, PostTransfer, IInv, TypeOK, Phases, Rets, Steps, script, stats
  <1> QED
    BY <1>3, <1>4, <1>5

(* DAGMan runs on, or the post-job aborts it.                                  *)
LEMMA JudgeDag ==
    ASSUME IInv, NEW j \in Jobs, PostCheckExitCode(j) \/ CondorQFails(j) \/ PostTransfer(j)
    PROVE  dag' \in {"running", "aborted"}
  <1>1. ASSUME NEW v \in {"0", "1", "2"}, PostEnds(j, v) PROVE dag' \in {dag, "aborted"}
    BY <1>1, PostEndsForms
  <1>2. \A v : AfterVerdict(j, v) \in {"go", "1", "2"}
    BY RetryCountCodes DEF AfterVerdict
  <1>3. ASSUME NEW o \in IF report[j] = "none" THEN {"2"} ELSE TransferOutcomes(j), o # "defer"
        PROVE  o \in {"0", "1", "2"}
    BY <1>3, RetryCountCodes DEF TransferOutcomes
  <1> QED
    BY <1>1, <1>2, <1>3, RetryCountCodes
    DEF PostCheckExitCode, CondorQFails, PostTransfer, Running, dagman

(* So do the steps of DAGMan, and the verdicts of the other jobs.              *)
LEMMA DagType ==
    ASSUME IInv, OtherJudged \/ DagEnds \/ Restart \/ Resubmit \/ StartDag \/ StartFails
    PROVE  TypeOK'
  <1>1. CASE OtherJudged
    BY <1>1 DEF OtherJudged, IInv, TypeOK, dagman, node, files, script, history
  <1>2. CASE DagEnds \/ StartFails
    BY <1>2 DEF DagEnds, StartFails, IInv, TypeOK, node, files, stats, script, history
  <1>3. CASE Restart \/ Resubmit
    <2>1. PICK list \in SUBSET Jobs : DagDown(list)
      BY <1>3 DEF Restart, Resubmit, IInv, TypeOK
    <2>2. restarts' \in 0..MaxRestarts /\ resubmits' \in 0..MaxResubmits
      BY <1>3, JobNodeAssumption DEF Restart, Resubmit, IInv, TypeOK
    <2>3. step' \in [Jobs -> Steps] /\ mishaps' \in [Jobs -> SUBSET Mishaps]
      BY <2>1 DEF DagDown, IInv, TypeOK, Steps, Mishaps
    <2> QED
      BY <2>1, <2>2, <2>3 DEF DagDown, IInv, TypeOK, files, stats, script, Steps
  <1>4. CASE StartDag
    <2>1. PICK again \in SUBSET Jobs :
            /\ again = {j \in Jobs : Again(j, max_retries'[j])}
            /\ retry' = [j \in Jobs |-> IF j \in again THEN retry[j] + 1 ELSE retry[j]]
            /\ phase' = [j \in Jobs |-> IF j \in again THEN "start" ELSE phase[j]]
            /\ ret' = [j \in Jobs |-> IF j \in again THEN "none" ELSE ret[j]]
            /\ deferrals' = [j \in Jobs |-> IF j \in again THEN 0 ELSE deferrals[j]]
      BY <1>4 DEF StartDag
    <2>2. max_retries' = [j \in Jobs |-> AdjustMaxRetries(j)]
      BY <1>4 DEF StartDag
    <2>3. max_retries' \in [Jobs -> Nat] /\ \A j \in Jobs : retry[j] <= max_retries'[j]
      <3>1. /\ retry \in [Jobs -> Nat] /\ max_retries \in [Jobs -> Nat] /\ NumAutomJobRetries \in Nat
            /\ \A j \in Jobs : retry[j] <= max_retries[j]
        BY JobNodeAssumption DEF IInv, TypeOK
      <3>2. \A j \in Jobs : AdjustMaxRetries(j) \in Nat /\ retry[j] <= AdjustMaxRetries(j)
        BY <3>1 DEF AdjustMaxRetries
      <3> QED
        BY <2>2, <3>2
    <2>4. retry' \in [Jobs -> Nat] /\ \A j \in Jobs : retry'[j] <= max_retries'[j]
      <3>1. retry \in [Jobs -> Nat]
        BY DEF IInv, TypeOK
      <3>2. \A j \in again : retry[j] < max_retries'[j]
        BY <2>1 DEF Again
      <3> QED
        BY <2>1, <2>3, <3>1, <3>2
    <2>5. phase' \in [Jobs -> Phases] /\ ret' \in [Jobs -> Rets] /\ deferrals' \in [Jobs -> 0..MaxDeferrals + 1]
      BY <2>1, JobNodeAssumption DEF IInv, TypeOK, Phases, Rets
    <2>6. step' \in [Jobs -> Steps]
      BY <1>4 DEF StartDag, Steps
    <2> QED
      BY <1>4, <2>3, <2>4, <2>5, <2>6 DEF StartDag, IInv, TypeOK, script, history, Phases, Rets, Steps
  <1> QED
    BY <1>1, <1>2, <1>3, <1>4

-------------------------------------------------------------------------------
(* What is true of each job.                                                   *)

(* Nothing happens to a job; other jobs do not make it less successful.        *)
Same(i) ==
    /\ phase'[i] = phase[i] /\ ret'[i] = ret[i] /\ retry'[i] = retry[i] /\ step'[i] = step[i]
    /\ retry_info'[i] = retry_info[i] /\ deferrals'[i] = deferrals[i] /\ job_out'[i] = job_out[i]
    /\ report'[i] = report[i] /\ docs'[i] = docs[i] /\ crab_retry'[i] = crab_retry[i]
    /\ first'[i] = first[i] /\ number'[i] = number[i] /\ unsaved'[i] = unsaved[i]
    /\ mishaps'[i] = mishaps[i]
    /\ (i \in lastOk' <=> i \in lastOk) /\ (i \in everOk => i \in everOk')

(* Then what was true of it still is.                                          *)
LEMMA SameNode ==
    ASSUME NEW i \in Jobs, NodeOK(i), Same(i)
    PROVE  NodeOK(i)'
  <1>1. NodeShape(i)'
    BY DEF NodeOK, NodeShape, Same
  <1>2. Counting(i) => Counting(i)'
    BY DEF Counting, Uncounted, Growing, LastNumber, Same
  <1>3. Known(i) => Known(i)'
    BY DEF Known, Uncounted, Same
  <1>4. Judged(i)'
    BY DEF NodeOK, Judged, Same
  <1>5. LastJudged(i) => LastJudged(i)'
    BY DEF LastJudged, Same
  <1> QED
    BY <1>1, <1>2, <1>3, <1>4, <1>5 DEF NodeOK, Same

(* A post-job that ends, and leaves no job_out where all went well.            *)
LEMMA EndNode ==
    ASSUME IInv, NEW j \in Jobs, step[j] \in {"judge", "transfer"},
           Retried(j) \/ (\E p \in {"done", "failed"}, r \in Rets : Over(j, p, r)),
           UNCHANGED <<retry_info, crab_retry, first, report, number, unsaved, docs, everOk, lastOk>>,
           mishaps[j] \subseteq mishaps'[j],
           job_out'[j] => job_out[j] /\ step[j] = "transfer",
           phase'[j] = "done" /\ "unjudged" \notin mishaps'[j] => j \in everOk,
           phase'[j] = "done" /\ mishaps'[j] = {} /\ unsaved[j] = 0 => j \in lastOk
    PROVE  NodeOK(j)'
  <1> DEFINE T == /\ retry[j] \in Nat /\ retry_info[j].post \in Int
                  /\ \A a \in DOMAIN number[j] : number[j][a] \in Nat
  <1>1. T
    BY DEF IInv, TypeOK
  <1>2. /\ deferrals[j] > 0
        /\ NodeOK(j)
        /\ step[j] = "judge" => first[j]
    BY DEF IInv, NodeOK, NodeShape
  <1>3. \/ /\ phase'[j] = "start" /\ step'[j] = "pre" /\ retry'[j] = retry[j] + 1
           /\ deferrals'[j] = 0 /\ ret'[j] = "none"
        \/ /\ phase'[j] \in {"done", "failed"} /\ step'[j] = "none" /\ retry'[j] = retry[j]
           /\ deferrals'[j] = deferrals[j]
    <2>1. /\ phase \in [Jobs -> Phases] /\ step \in [Jobs -> Steps] /\ retry \in [Jobs -> Nat]
          /\ ret \in [Jobs -> Rets] /\ deferrals \in [Jobs -> 0..MaxDeferrals + 1]
      BY DEF IInv, TypeOK, Phases, Steps, Rets
    <2> QED
      BY <2>1 DEF Retried, Over
  <1>4. NodeShape(j)'
    BY <1>2, <1>3 DEF NodeOK, NodeShape
  <1>5. Counting(j) => Counting(j)'
    <2>1. ASSUME Counting(j) PROVE retry_info[j].post <= retry[j] + 1 /\ Growing(j)
      BY <2>1 DEF Counting
    <2>2. Growing(j) => Growing(j)'
      BY <1>1, <1>3 DEF Growing
    <2>3. ASSUME Counting(j)
          PROVE  /\ retry_info'[j].post <= retry'[j] + 1
                 /\ Uncounted(j)' => retry_info'[j].post <= retry'[j]
      BY <1>1, <1>2, <1>3, <2>1, <2>3 DEF Uncounted
    <2> QED
      BY <1>3, <2>1, <2>2, <2>3 DEF Counting
  <1>6. Known(j)'
    BY <1>3 DEF Known
  <1>7. Judged(j)'
    BY <1>2, <1>3 DEF NodeOK, Judged
  <1>8. mishaps'[j] = {} /\ unsaved'[j] = 0 => LastJudged(j)'
    BY <1>2, <1>3 DEF NodeOK, LastJudged
  <1> QED
    BY <1>2, <1>4, <1>5, <1>6, <1>7, <1>8 DEF NodeOK

(* A pre-job: the run gets the number $RETRY, which no earlier run had.        *)
LEMMA PreJobNode ==
    ASSUME IInv, NEW j \in Jobs, PreJob(j)
    PROVE  NodeOK(j)' /\ \A i \in Jobs \ {j} : Same(i)
  <1>1. PICK info \in Infos :
          /\ info = Corrected(retry_info[j], retry[j])
          /\ info.post = IF retry_info[j].post < retry[j] THEN retry[j] ELSE retry_info[j].post
          /\ Counted(info, job_out[j]) \in Infos /\ Counted(info, job_out[j]).post = info.post
    <2>1. retry_info[j] \in Infos /\ retry[j] \in Nat /\ job_out[j] \in BOOLEAN
      BY DEF IInv, TypeOK, Infos
    <2> QED
      BY <2>1, CountsFacts
  <1>2. PICK saved \in BOOLEAN, end \in {"skip", "submit", "defer", "fail"} :
          /\ end = "skip" => job_out[j]
          /\ IF saved
             THEN /\ retry_info' = [retry_info EXCEPT ![j] = Counted(info, job_out[j])]
                  /\ UNCHANGED unsaved
             ELSE Unsaved(j)
          /\ crab_retry' = [crab_retry EXCEPT ![j] = info.post]
          /\ step' = [step EXCEPT ![j] = CASE end \in {"skip", "fail"} -> "post"
                                           [] end = "submit" -> "submit"
                                           [] OTHER -> "pre"]
          /\ ret' = IF end \in {"skip", "fail"} THEN [ret EXCEPT ![j] = "skipped"] ELSE ret
          /\ Mishap(j, IF end = "fail" THEN {"preFailed"} ELSE {})
    BY <1>1 DEF PreJob, AlreadySubmitted
  <1>3. /\ phase[j] = "start" /\ step[j] = "pre" /\ NodeOK(j)
        /\ UNCHANGED <<phase, retry, deferrals, job_out, report, docs, first, number, everOk, lastOk>>
    BY DEF PreJob, Running, IInv, NodeOK, NodeShape
  <1>4. /\ retry_info \in [Jobs -> Infos] /\ unsaved \in [Jobs -> Nat] /\ crab_retry \in [Jobs -> Int]
        /\ step \in [Jobs -> Steps] /\ ret \in [Jobs -> Rets] /\ mishaps \in [Jobs -> SUBSET Mishaps]
        /\ retry[j] \in Nat /\ retry_info[j].post \in Nat
    BY JobNodeAssumption DEF IInv, TypeOK, Infos, Steps, Rets
  <1>5. \A i \in Jobs \ {j} : Same(i)
    BY <1>2, <1>3, <1>4 DEF Same, Mishap, Unsaved
  <1>6. /\ step'[j] = CASE end \in {"skip", "fail"} -> "post"
                        [] end = "submit" -> "submit"
                        [] OTHER -> "pre"
        /\ mishaps'[j] = mishaps[j] \cup (IF end = "fail" THEN {"preFailed"} ELSE {})
        /\ crab_retry'[j] = info.post
    BY <1>2, <1>4 DEF Mishap
  <1>7. \/ retry_info'[j].post = info.post /\ unsaved'[j] = unsaved[j]
        \/ retry_info'[j] = retry_info[j] /\ unsaved'[j] = unsaved[j] + 1
    BY <1>1, <1>2, <1>4 DEF Unsaved
  <1>8. NodeShape(j)'
    BY <1>1, <1>3, <1>4, <1>6 DEF NodeOK, NodeShape
  <1>9. Counting(j) => Counting(j)'
    <2>1. Growing(j) => Growing(j)'
      BY <1>3 DEF Growing
    <2> QED
      BY <2>1, <1>1, <1>3, <1>4, <1>6, <1>7 DEF Counting, Uncounted
  <1>10. Counting(j) /\ unsaved'[j] = 0 => Known(j)'
    BY <1>1, <1>3, <1>4, <1>6, <1>7 DEF Counting, Uncounted, Known
  <1>11. Judged(j)'
    BY <1>3, <1>6 DEF NodeOK, Judged
  <1>12. mishaps'[j] = {} /\ unsaved'[j] = 0 => LastJudged(j)'
    <2> SUFFICES ASSUME mishaps'[j] = {}, unsaved'[j] = 0 PROVE LastJudged(j)'
      OBVIOUS
    <2>1. mishaps[j] = {} /\ end # "fail" /\ unsaved[j] = 0
      <3>1. mishaps[j] = {} /\ end # "fail"
        BY <1>6
      <3>2. unsaved[j] \in Nat
        BY <1>4
      <3> QED
        BY <3>1, <3>2, <1>7
    <2>2. ~job_out[j]
      BY <2>1, <1>3 DEF NodeOK, LastJudged
    <2>3. step'[j] \in {"submit", "pre"}
      BY <2>1, <2>2, <1>2, <1>6
    <2> QED
      BY <2>2, <2>3, <1>3 DEF LastJudged
  <1>13. unsaved'[j] = 0 => unsaved[j] = 0
    BY <1>4, <1>7
  <1>14. NodeOK(j)'
    BY <1>3, <1>6, <1>8, <1>9, <1>10, <1>11, <1>12, <1>13 DEF NodeOK
  <1> QED
    BY <1>5, <1>14

(* A sequence with one more element.                                           *)
LEMMA AppendFacts ==
    ASSUME NEW q \in Seq(Nat), NEW x \in Nat, NEW n \in Nat, n = Len(q)
    PROVE  /\ DOMAIN q = 1..n /\ DOMAIN Append(q, x) = 1..n + 1 /\ Len(Append(q, x)) = n + 1
           /\ \A a \in 1..n : Append(q, x)[a] = q[a] /\ q[a] \in Nat
           /\ Append(q, x)[n + 1] = x /\ Append(q, x) # <<>>
  <1>1. Append(q, x) \in Seq(Nat) /\ Len(Append(q, x)) = n + 1
    OBVIOUS
  <1>2. DOMAIN Append(q, x) = 1..n + 1
    BY <1>1
  <1>3. \A a \in 1..n : Append(q, x)[a] = q[a] /\ q[a] \in Nat
    OBVIOUS
  <1>4. Append(q, x)[n + 1] = x
    OBVIOUS
  <1>5. Append(q, x) # <<>>
    BY <1>1
  <1> QED
    BY <1>1, <1>2, <1>3, <1>4, <1>5

(* The run that is submitted has a number above those of the earlier runs.     *)
LEMMA SubmitNode ==
    ASSUME IInv, NEW j \in Jobs, Submit(j)
    PROVE  NodeOK(j)' /\ \A i \in Jobs \ {j} : Same(i)
  <1>1. /\ step \in [Jobs -> Steps] /\ phase \in [Jobs -> Phases] /\ number \in [Jobs -> Seq(Nat)]
        /\ crab_retry[j] \in Nat /\ retry[j] \in Nat /\ number[j] \in Seq(Nat)
        /\ retry_info[j].post \in Nat
    BY DEF Submit, Running, IInv, TypeOK, NodeOK, NodeShape, Steps, Phases
  <1>2. /\ step[j] = "submit" /\ phase[j] = "start" /\ NodeOK(j)
        /\ step'[j] = "queue" /\ phase'[j] = "submitted" /\ number'[j] = Append(number[j], crab_retry[j])
    BY <1>1 DEF Submit, Running, IInv, NodeOK, NodeShape
  <1>3. UNCHANGED <<retry, retry_info, deferrals, job_out, report, docs, crab_retry, first, unsaved, mishaps,
                    lastOk, everOk, ret>>
    BY DEF Submit, files, script
  <1>4. \A i \in Jobs \ {j} : Same(i)
    BY <1>1, <1>3 DEF Submit, Same
  <1>5. NodeShape(j)'
    BY <1>2, <1>3 DEF NodeOK, NodeShape
  <1>6. Counting(j) => Counting(j)'
    <2> SUFFICES ASSUME Counting(j) PROVE Counting(j)'
      OBVIOUS
    <2>1. /\ crab_retry[j] = retry[j] /\ deferrals[j] = 0 /\ retry_info[j].post <= retry[j]
          /\ \A a \in DOMAIN number[j] : number[j][a] < retry[j]
          /\ \A a, b \in DOMAIN number[j] : a < b => number[j][a] < number[j][b]
      BY <1>2 DEF Counting, Growing, Uncounted
    <2>2. PICK n \in Nat : n = Len(number[j])
      BY <1>1
    <2>3. /\ DOMAIN number[j] = 1..n /\ DOMAIN number'[j] = 1..n + 1 /\ Len(number'[j]) = n + 1
          /\ \A a \in 1..n : number'[j][a] = number[j][a] /\ number[j][a] \in Nat
          /\ number'[j][n + 1] = retry[j] /\ number'[j] # <<>>
      BY <1>1, <1>2, <2>1, <2>2, AppendFacts
    <2>4. \A a \in 1..n + 1 : a = n + 1 \/ a \in 1..n
      BY <2>2
    <2>5. \A a \in DOMAIN number'[j] : number'[j][a] <= retry[j]
      BY <2>1, <2>3, <2>4, <1>1
    <2>6. ASSUME NEW a \in DOMAIN number'[j], NEW b \in DOMAIN number'[j], a < b
          PROVE  number'[j][a] < number'[j][b]
      <3>1. a \in 1..n
        BY <2>2, <2>3, <2>4, <2>6
      <3>2. CASE b = n + 1
        BY <3>1, <3>2, <2>1, <2>3
      <3>3. CASE b \in 1..n
        BY <3>1, <3>3, <2>1, <2>3, <2>6
      <3> QED
        BY <3>2, <3>3, <2>3, <2>4
    <2>7. Growing(j)'
      BY <1>2, <1>3, <2>3, <2>5, <2>6 DEF Growing, LastNumber
    <2> QED
      BY <2>1, <2>7, <1>1, <1>2, <1>3 DEF Counting, Uncounted
  <1>7. Counting(j) /\ Known(j) => Known(j)'
    BY <1>2, <1>3 DEF Counting, Known, Uncounted
  <1>8. Judged(j)'
    BY <1>2, <1>3 DEF NodeOK, Judged
  <1>9. LastJudged(j) => LastJudged(j)'
    BY <1>2, <1>3 DEF LastJudged
  <1>10. NodeOK(j)'
    BY <1>2, <1>3, <1>5, <1>6, <1>7, <1>8, <1>9 DEF NodeOK
  <1> QED
    BY <1>4, <1>10

(* A job that ends: with exit code 0 the run is a success, and the last one.   *)
LEMMA JobEndsNode ==
    ASSUME IInv, NEW j \in Jobs, JobEnds(j)
    PROVE  NodeOK(j)' /\ \A i \in Jobs \ {j} : Same(i)
  <1>1. PICK end \in {"ok", "recoverable", "fatal", "lost"} :
          /\ ret' = [ret EXCEPT ![j] = IF end = "ok" THEN "zero" ELSE "nonzero"]
          /\ report' = IF end = "lost" THEN report ELSE [report EXCEPT ![j] = end]
          /\ job_out' = IF end = "lost" THEN job_out ELSE [job_out EXCEPT ![j] = TRUE]
          /\ lastOk' = IF end = "ok" THEN lastOk \cup {j} ELSE lastOk \ {j}
          /\ everOk' = everOk \cup lastOk'
    BY DEF JobEnds
  <1>2. /\ step \in [Jobs -> Steps] /\ phase \in [Jobs -> Phases] /\ ret \in [Jobs -> Rets]
        /\ report \in [Jobs -> {"none", "ok", "recoverable", "fatal"}] /\ job_out \in [Jobs -> BOOLEAN]
    BY DEF IInv, TypeOK, Steps, Phases, Rets
  <1>3. /\ phase[j] = "submitted" /\ step[j] \in {"none", "queue"} /\ NodeOK(j)
        /\ phase'[j] = "ended" /\ step'[j] \in {"none", "queue", "post"}
        /\ UNCHANGED <<retry, retry_info, deferrals, docs, crab_retry, first, number, unsaved, mishaps>>
    BY <1>2 DEF JobEnds, IInv, NodeOK, NodeShape, script
  <1>4. \A i \in Jobs \ {j} : /\ step'[i] = step[i] /\ phase'[i] = phase[i] /\ ret'[i] = ret[i]
                              /\ report'[i] = report[i] /\ job_out'[i] = job_out[i]
                              /\ (i \in lastOk' <=> i \in lastOk) /\ (i \in everOk => i \in everOk')
    BY <1>1, <1>2 DEF JobEnds
  <1>5. \A i \in Jobs \ {j} : Same(i)
    BY <1>3, <1>4 DEF Same
  <1>6. /\ ret'[j] \in {"zero", "nonzero"} /\ (ret'[j] = "zero" => j \in lastOk')
        /\ (j \in everOk => j \in everOk')
        /\ report'[j] = "ok" => j \in everOk'
    BY <1>1, <1>2, <1>3 DEF NodeOK, Judged
  <1>7. NodeShape(j)'
    BY <1>3, <1>6 DEF NodeOK, NodeShape
  <1>8. Counting(j) => Counting(j)'
    BY <1>3 DEF Counting, Uncounted, Growing, LastNumber
  <1>9. Counting(j) /\ Known(j) => Known(j)'
    BY <1>3 DEF Counting, Known, Uncounted
  <1>10. Judged(j)'
    BY <1>3, <1>6 DEF NodeOK, Judged
  <1>11. Counting(j) => LastJudged(j)'
    BY <1>3 DEF Counting, LastJudged
  <1>12. NodeOK(j)'
    BY <1>3, <1>7, <1>8, <1>9, <1>10, <1>11 DEF NodeOK
  <1> QED
    BY <1>5, <1>12

(* An execution of the post-job that counts its deferral knows whether it is   *)
(* the first one.                                                              *)
LEMMA DeferNumNode ==
    ASSUME IInv, NEW j \in Jobs, GetDeferNum(j)
    PROVE  NodeOK(j)' /\ \A i \in Jobs \ {j} : Same(i)
  <1>1. /\ step \in [Jobs -> Steps] /\ first \in [Jobs -> BOOLEAN]
        /\ deferrals \in [Jobs -> 0..MaxDeferrals + 1] /\ MaxDeferrals \in Nat
    BY JobNodeAssumption DEF IInv, TypeOK, Steps
  <1>2. /\ step[j] = "post" /\ NodeOK(j) /\ phase[j] \in {"start", "ended"}
        /\ step'[j] = "count" /\ (first'[j] <=> deferrals[j] = 0) /\ deferrals'[j] = Deferral(deferrals[j])
        /\ UNCHANGED <<phase, ret, retry, retry_info, job_out, report, docs, crab_retry, number, unsaved,
                       mishaps, lastOk, everOk>>
    BY <1>1 DEF GetDeferNum, Running, IInv, NodeOK, NodeShape, history
  <1>3. deferrals'[j] > 0 /\ deferrals[j] >= 0
    BY <1>1, <1>2 DEF Deferral
  <1>4. \A i \in Jobs \ {j} : Same(i)
    BY <1>1, <1>2 DEF GetDeferNum, Same
  <1>5. NodeShape(j)'
    BY <1>2, <1>3 DEF NodeOK, NodeShape
  <1>6. Uncounted(j)' <=> Uncounted(j)
    BY <1>2, <1>3 DEF Uncounted
  <1>7. Counting(j) => Counting(j)'
    <2>1. Growing(j) => Growing(j)'
      BY <1>2 DEF Growing, LastNumber
    <2> QED
      BY <2>1, <1>2, <1>6 DEF Counting
  <1>8. Known(j) => Known(j)'
    BY <1>2, <1>6 DEF Known
  <1>9. Judged(j)'
    BY <1>2 DEF NodeOK, Judged
  <1>10. LastJudged(j) => LastJudged(j)'
    <2>1. deferrals[j] = 0 <=> ~(deferrals[j] > 0)
      <3>1. deferrals[j] \in Nat
        BY <1>1
      <3> QED
        BY <3>1
    <2>2. deferrals[j] = 0 <=> first'[j]
      BY <1>2
    <2> QED
      BY <1>2, <1>3, <2>1, <2>2 DEF LastJudged
  <1>11. NodeOK(j)'
    BY <1>2, <1>5, <1>7, <1>8, <1>9, <1>10 DEF NodeOK
  <1> QED
    BY <1>4, <1>11

(* The first execution counts the retry, or fails; a later one finds its       *)
(* number from the count.                                                      *)
LEMMA CountNode ==
    ASSUME IInv, NEW j \in Jobs, PostCalculateCrabRetry(j)
    PROVE  NodeOK(j)' /\ \A i \in Jobs \ {j} : Same(i)
  <1>1. /\ step \in [Jobs -> Steps] /\ crab_retry \in [Jobs -> Int] /\ phase \in [Jobs -> Phases]
        /\ ret \in [Jobs -> Rets] /\ unsaved \in [Jobs -> Nat] /\ retry_info \in [Jobs -> Infos]
        /\ retry_info[j] \in Infos /\ retry_info[j].post \in Nat /\ retry[j] \in Nat
    BY JobNodeAssumption DEF IInv, TypeOK, Steps, Phases, Rets, Infos
  <1>2. /\ step[j] = "count" /\ NodeOK(j) /\ deferrals[j] > 0 /\ phase[j] \in {"start", "ended"}
        /\ UNCHANGED <<retry, deferrals, job_out, report, docs, first, number, mishaps, lastOk, everOk>>
    BY DEF PostCalculateCrabRetry, Running, IInv, NodeOK, NodeShape
  <1>3. PICK info \in Infos : info = [retry_info[j] EXCEPT !.post = @ + 1] /\ info.post = retry_info[j].post + 1
    <2>1. [retry_info[j] EXCEPT !.post = @ + 1] = [pre |-> retry_info[j].pre, post |-> retry_info[j].post + 1]
      BY <1>1 DEF Infos
    <2>2. [pre |-> retry_info[j].pre, post |-> retry_info[j].post + 1] \in Infos
      BY <1>1 DEF Infos
    <2> QED
      BY <2>1, <2>2
  <1>4. CASE /\ first[j] /\ crab_retry' = [crab_retry EXCEPT ![j] = retry_info[j].post]
             /\ retry_info' = [retry_info EXCEPT ![j] = info]
             /\ step' = [step EXCEPT ![j] = "judge"] /\ UNCHANGED <<phase, ret, unsaved>>
    <2>1. /\ step'[j] = "judge" /\ crab_retry'[j] = retry_info[j].post /\ retry_info'[j] = info
          /\ \A i \in Jobs \ {j} : Same(i)
      BY <1>1, <1>2, <1>4 DEF Same
    <2>2. NodeShape(j)'
      BY <1>1, <1>2, <1>4, <2>1 DEF NodeOK, NodeShape
    <2>3. ~Uncounted(j)' /\ Uncounted(j)
      BY <1>2, <1>4, <2>1 DEF Uncounted
    <2>4. Counting(j) => Counting(j)'
      <3>1. Growing(j) => Growing(j)'
        BY <1>2, <1>4 DEF Growing, LastNumber
      <3> QED
        BY <3>1, <1>1, <1>2, <1>3, <1>4, <2>1, <2>3 DEF Counting
    <2>5. Known(j) => Known(j)'
      BY <1>1, <1>2, <1>3, <1>4, <2>1, <2>3 DEF Known
    <2>6. Judged(j)'
      BY <1>2, <1>4, <2>1 DEF NodeOK, Judged
    <2>7. LastJudged(j) => LastJudged(j)'
      BY <1>2, <1>4, <2>1 DEF LastJudged
    <2> QED
      BY <1>2, <1>4, <2>1, <2>2, <2>4, <2>5, <2>6, <2>7 DEF NodeOK
  <1>5. CASE /\ first[j] /\ crab_retry' = [crab_retry EXCEPT ![j] = retry_info[j].post] /\ Unsaved(j)
             /\ phase' = [phase EXCEPT ![j] = "failed"]
             /\ ret' = [ret EXCEPT ![j] = "2"] /\ step' = [step EXCEPT ![j] = "none"]
    <2>1. /\ step'[j] = "none" /\ phase'[j] = "failed" /\ crab_retry'[j] = retry_info[j].post
          /\ unsaved'[j] = unsaved[j] + 1 /\ UNCHANGED retry_info
          /\ \A i \in Jobs \ {j} : Same(i)
      BY <1>1, <1>2, <1>5 DEF Same, Unsaved
    <2>2. unsaved'[j] # 0
      <3>1. unsaved[j] \in Nat
        BY <1>1
      <3> QED
        BY <2>1, <3>1
    <2>3. NodeShape(j)'
      BY <1>1, <1>2, <2>1 DEF NodeOK, NodeShape
    <2>4. Counting(j) => Counting(j)'
      <3>1. Growing(j) => Growing(j)'
        BY <1>2, <2>1 DEF Growing, LastNumber
      <3> QED
        BY <3>1, <1>1, <1>2, <1>5, <2>1 DEF Counting, Uncounted
    <2>5. Judged(j)'
      BY <1>2, <2>1 DEF NodeOK, Judged
    <2> QED
      BY <1>2, <2>1, <2>2, <2>3, <2>4, <2>5 DEF NodeOK
  <1>6. CASE /\ ~first[j] /\ crab_retry' = [crab_retry EXCEPT ![j] = retry_info[j].post - 1]
             /\ step' = [step EXCEPT ![j] = "transfer"] /\ UNCHANGED <<phase, ret, unsaved, retry_info>>
    <2>1. /\ step'[j] = "transfer" /\ crab_retry'[j] = retry_info[j].post - 1
          /\ \A i \in Jobs \ {j} : Same(i)
      BY <1>1, <1>2, <1>6 DEF Same
    <2>2. NodeShape(j)'
      BY <1>1, <1>2, <1>6, <2>1 DEF NodeOK, NodeShape
    <2>3. ~Uncounted(j)' /\ ~Uncounted(j)
      BY <1>2, <1>6, <2>1 DEF Uncounted
    <2>4. Counting(j) => Counting(j)'
      <3>1. Growing(j) => Growing(j)'
        BY <1>2, <1>6 DEF Growing, LastNumber
      <3> QED
        BY <3>1, <1>2, <1>6, <2>1, <2>3 DEF Counting
    <2>5. Known(j) => Known(j)'
      BY <1>1, <1>2, <1>6, <2>1, <2>3 DEF Known
    <2>6. Judged(j)'
      BY <1>2, <1>6, <2>1 DEF NodeOK, Judged
    <2>7. LastJudged(j) => LastJudged(j)'
      BY <1>2, <1>6, <2>1 DEF LastJudged
    <2> QED
      BY <1>2, <1>6, <2>1, <2>2, <2>4, <2>5, <2>6, <2>7 DEF NodeOK
  <1>7. retry_info' = [retry_info EXCEPT ![j].post = @ + 1] => retry_info' = [retry_info EXCEPT ![j] = info]
    BY <1>3
  <1> QED
    BY <1>4, <1>5, <1>6, <1>7 DEF PostCalculateCrabRetry, Own

(* The verdict: a post-job goes on only if the run was good, or unjudged.      *)
LEMMA CheckExitCodeNode ==
    ASSUME IInv, NEW j \in Jobs, PostCheckExitCode(j)
    PROVE  NodeOK(j)' /\ \A i \in Jobs \ {j} : Same(i)
  <1>1. PICK adParsed \in BOOLEAN, verdict \in Verdicts(ret[j], report[j]) :
          LET read == adParsed \/ ret[j] = "skipped"
              v == AfterVerdict(j, IF read THEN verdict ELSE "OK")
          IN  /\ IF read THEN Record(j, verdict) ELSE UNCHANGED stats
              /\ Mishap(j, IF ~read /\ verdict # "OK" THEN {"unjudged"} ELSE {})
              /\ IF v = "go"
                 THEN /\ step' = [step EXCEPT ![j] = "transfer"]
                      /\ UNCHANGED <<dagman, phase, ret, retry, max_retries, deferrals>>
                 ELSE PostEnds(j, v)
    BY DEF PostCheckExitCode
  <1> DEFINE w == IF adParsed \/ ret[j] = "skipped" THEN verdict ELSE "OK"
  <1>2. /\ step \in [Jobs -> Steps] /\ phase \in [Jobs -> Phases] /\ ret \in [Jobs -> Rets]
        /\ retry \in [Jobs -> Nat] /\ deferrals \in [Jobs -> 0..MaxDeferrals + 1]
        /\ mishaps \in [Jobs -> SUBSET Mishaps] /\ job_out \in [Jobs -> BOOLEAN]
        /\ report[j] \in {"none", "ok", "recoverable", "fatal"}
    BY DEF IInv, TypeOK, Steps, Phases, Rets
  <1>3. /\ step[j] = "judge" /\ first[j] /\ NodeOK(j) /\ deferrals[j] > 0
        /\ job_out' = [job_out EXCEPT ![j] = FALSE]
        /\ UNCHANGED <<retry_info, report, docs, crab_retry, first, number, unsaved, lastOk, everOk>>
    BY DEF PostCheckExitCode, Running, IInv, NodeOK, NodeShape, script
  <1>4. AfterVerdict(j, w) = "go" \/ AfterVerdict(j, w) \in {"1", "2"}
    BY RetryCountCodes DEF AfterVerdict
  <1>5. CASE AfterVerdict(j, w) # "go"
    <2>1. PostEnds(j, AfterVerdict(j, w)) /\ AfterVerdict(j, w) \in {"1", "2"}
      BY <1>1, <1>4, <1>5
    <2>2. \/ Retried(j)
          \/ \E p \in {"done", "failed"}, r \in Rets : Over(j, p, r) /\ p # "done"
      BY <2>1, PostEndsForms
    <2>3. phase'[j] # "done"
      BY <1>2, <2>2 DEF Retried, Over
    <2>4. mishaps[j] \subseteq mishaps'[j] /\ ~job_out'[j]
      BY <1>1, <1>2, <1>3 DEF Mishap
    <2>5. NodeOK(j)'
      BY <1>3, <2>2, <2>3, <2>4, EndNode
    <2>6. \A i \in Jobs \ {j} : Same(i)
      BY <1>1, <1>2, <1>3, <2>2 DEF Same, Mishap, Retried, Over
    <2> QED
      BY <2>5, <2>6
  <1>6. CASE AfterVerdict(j, w) = "go"
    <2>1. /\ step'[j] = "transfer"
          /\ UNCHANGED <<phase, ret, retry, deferrals>>
          /\ mishaps' = [mishaps EXCEPT ![j] = @ \cup
               (IF ~(adParsed \/ ret[j] = "skipped") /\ verdict # "OK" THEN {"unjudged"} ELSE {})]
          /\ \A i \in Jobs \ {j} : step'[i] = step[i]
      BY <1>1, <1>2, <1>6 DEF Mishap
    <2>2. mishaps[j] \subseteq mishaps'[j] /\ ~job_out'[j] /\ \A i \in Jobs \ {j} : Same(i)
      BY <1>2, <1>3, <2>1 DEF Same
    <2>3. w = "OK"
      BY <1>6, RetryCountCodes DEF AfterVerdict, Verdicts
    <2>4. verdict = "OK" \/ "unjudged" \in mishaps'[j]
      BY <1>2, <2>1, <2>3
    <2>5. verdict = "OK" => report[j] = "ok" /\ ret[j] # "nonzero"
      BY <1>2 DEF Verdicts
    <2>6. NodeShape(j)'
      BY <1>3, <2>1 DEF NodeOK, NodeShape
    <2>7. ~Uncounted(j)' /\ (~Uncounted(j) \/ step[j] = "judge")
      BY <1>3, <2>1 DEF Uncounted
    <2>8. ~Uncounted(j)
      BY <1>3 DEF Uncounted
    <2>9. Counting(j) => Counting(j)'
      <3>1. Growing(j) => Growing(j)'
        BY <1>3, <2>1 DEF Growing, LastNumber
      <3> QED
        BY <3>1, <1>3, <2>1, <2>7, <2>8 DEF Counting
    <2>10. Known(j) => Known(j)'
      BY <1>3, <2>1, <2>7, <2>8 DEF Known
    <2>11. Judged(j)'
      BY <1>3, <2>1, <2>2, <2>4, <2>5 DEF NodeOK, Judged
    <2>12. "unjudged" \notin mishaps'[j] /\ LastJudged(j) => LastJudged(j)'
      BY <1>3, <2>1, <2>2, <2>4, <2>5 DEF NodeOK, NodeShape, LastJudged
    <2>13. NodeOK(j)'
      BY <1>3, <2>2, <2>6, <2>9, <2>10, <2>11, <2>12 DEF NodeOK
    <2> QED
      BY <2>2, <2>13
  <1> QED
    BY <1>5, <1>6

(* A post-job that cannot ask condor_q ends with an error.                     *)
LEMMA CondorQNode ==
    ASSUME IInv, NEW j \in Jobs, CondorQFails(j)
    PROVE  NodeOK(j)' /\ \A i \in Jobs \ {j} : Same(i)
  <1>1. /\ step \in [Jobs -> Steps] /\ phase \in [Jobs -> Phases] /\ ret \in [Jobs -> Rets]
        /\ retry \in [Jobs -> Nat] /\ deferrals \in [Jobs -> 0..MaxDeferrals + 1]
        /\ job_out \in [Jobs -> BOOLEAN]
    BY DEF IInv, TypeOK, Steps, Phases, Rets
  <1>2. Retried(j) \/ Over(j, "failed", "1")
    BY DEF CondorQFails, DagmanRetries, Retried, Over
  <1>3. /\ step[j] = "judge" /\ job_out' = [job_out EXCEPT ![j] = FALSE]
        /\ UNCHANGED <<retry_info, report, docs, crab_retry, first, number, unsaved, mishaps, lastOk, everOk>>
    BY DEF CondorQFails, Running, script, history
  <1>4. phase'[j] # "done" /\ ~job_out'[j]
    BY <1>1, <1>2, <1>3 DEF Retried, Over
  <1>5. NodeOK(j)'
    BY <1>2, <1>3, <1>4, EndNode DEF Rets
  <1>6. \A i \in Jobs \ {j} : Same(i)
    BY <1>1, <1>2, <1>3 DEF Same, Retried, Over
  <1> QED
    BY <1>5, <1>6

(* The transfers: the node is done only after a run that was found good.       *)
LEMMA TransferNode ==
    ASSUME IInv, NEW j \in Jobs, PostTransfer(j)
    PROVE  NodeOK(j)' /\ \A i \in Jobs \ {j} : Same(i)
  <1>1. PICK o \in IF report[j] = "none" THEN {"2"} ELSE TransferOutcomes(j) :
          \/ /\ o = "defer"
             /\ docs' = [docs EXCEPT ![j] = crab_retry[j]]
             /\ step' = [step EXCEPT ![j] = "post"]
             /\ UNCHANGED <<dagman, phase, ret, retry, max_retries, deferrals, mishaps>>
          \/ /\ o # "defer"
             /\ \E v \in {o, "1"} \cup (IF o = "0" THEN {CheckRetryCount(j)} ELSE {}) : PostEnds(j, v)
             /\ Mishap(j, IF Unheard(j) THEN {"unjudged"} ELSE {})
             /\ UNCHANGED docs
    BY DEF PostTransfer
  <1>2. /\ step \in [Jobs -> Steps] /\ phase \in [Jobs -> Phases] /\ ret \in [Jobs -> Rets]
        /\ retry \in [Jobs -> Nat] /\ deferrals \in [Jobs -> 0..MaxDeferrals + 1]
        /\ mishaps \in [Jobs -> SUBSET Mishaps] /\ docs \in [Jobs -> Int]
    BY DEF IInv, TypeOK, Steps, Phases, Rets
  <1>3. /\ step[j] = "transfer" /\ NodeOK(j) /\ deferrals[j] > 0
        /\ UNCHANGED <<retry_info, job_out, report, crab_retry, first, number, unsaved, lastOk, everOk>>
    BY DEF PostTransfer, Running, IInv, NodeOK, NodeShape, script
  (* Whoever hears that the run went well has somebody who found it good.      *)
  <1>4. docs[j] = crab_retry[j] => docs[j] # NoDocs
    <2>1. crab_retry[j] \in Int /\ crab_retry[j] >= -1
      BY <1>3 DEF NodeOK, NodeShape, IInv, TypeOK
    <2> QED
      BY <2>1 DEF NoDocs
  <1>5. ~Unheard(j) /\ "unjudged" \notin mishaps[j] => j \in everOk
    BY <1>3, <1>4 DEF Unheard, NodeOK, Judged
  <1>6. mishaps[j] = {} /\ unsaved[j] = 0 => j \in lastOk
    BY <1>3 DEF NodeOK, NodeShape, LastJudged
  <1>7. CASE o = "defer"
    <2>1. /\ step'[j] = "post" /\ docs'[j] = crab_retry[j]
          /\ UNCHANGED <<phase, ret, retry, deferrals, mishaps>>
          /\ \A i \in Jobs \ {j} : Same(i)
      BY <1>1, <1>2, <1>3, <1>7 DEF Same
    <2>2. first[j] \/ docs[j] = crab_retry[j]
      BY <1>7 DEF TransferOutcomes, CheckRetryCount
    <2>3. "unjudged" \notin mishaps[j] => j \in everOk
      BY <1>3, <1>4, <2>2 DEF NodeOK, Judged
    <2>4. NodeShape(j)'
      BY <1>3, <2>1 DEF NodeOK, NodeShape
    <2>5. ~Uncounted(j)' /\ ~Uncounted(j)
      BY <1>3, <2>1 DEF Uncounted
    <2>6. Counting(j) => Counting(j)'
      <3>1. Growing(j) => Growing(j)'
        BY <1>3, <2>1 DEF Growing, LastNumber
      <3>2. phase[j] # "submitted" \/ step[j] \in {"none", "queue"}
        BY <1>3 DEF NodeOK, NodeShape
      <3> QED
        BY <3>1, <1>3, <2>1, <2>5 DEF Counting
    <2>7. Known(j) => Known(j)'
      BY <1>3, <2>1, <2>5 DEF Known
    <2>8. Judged(j)'
      BY <1>3, <2>1, <2>3 DEF NodeOK, Judged
    <2>9. LastJudged(j) => LastJudged(j)'
      BY <1>3, <2>1 DEF LastJudged
    <2>10. NodeOK(j)'
      BY <1>3, <2>1, <2>4, <2>6, <2>7, <2>8, <2>9 DEF NodeOK
    <2> QED
      BY <2>1, <2>10
  <1>8. CASE o # "defer"
    <2>1. /\ Mishap(j, IF Unheard(j) THEN {"unjudged"} ELSE {}) /\ UNCHANGED docs
          /\ \E v \in {"0", "1", "2"} : PostEnds(j, v)
      <3>1. o \in {"0", "1", "2"}
        BY <1>8, RetryCountCodes DEF TransferOutcomes
      <3> QED
        BY <1>1, <1>8, <3>1, RetryCountCodes
    <2>2. \/ Retried(j)
          \/ \E p \in {"done", "failed"}, r \in Rets : Over(j, p, r)
      BY <2>1, PostEndsForms
    <2>3. /\ mishaps[j] \subseteq mishaps'[j] /\ (Unheard(j) => "unjudged" \in mishaps'[j])
      BY <1>2, <2>1 DEF Mishap
    <2>4. "unjudged" \notin mishaps'[j] => j \in everOk
      BY <1>5, <2>3
    <2>5. mishaps'[j] = {} /\ unsaved[j] = 0 => j \in lastOk
      BY <1>6, <2>3
    <2>6. NodeOK(j)'
      BY <1>3, <2>1, <2>2, <2>3, <2>4, <2>5, EndNode
    <2>7. \A i \in Jobs \ {j} : Same(i)
      BY <1>2, <1>3, <2>1, <2>2 DEF Same, Mishap, Retried, Over
    <2> QED
      BY <2>6, <2>7
  <1> QED
    BY <1>7, <1>8

(* A restart of DAGMan, or a hold: what the scripts knew is lost, and a first  *)
(* post-job that is stopped before its verdict is a mishap.                    *)
LEMMA DagDownNode ==
    ASSUME IInv, NEW list \in SUBSET Jobs, DagDown(list), NEW i \in Jobs
    PROVE  NodeOK(i)'
  <1>1. /\ step'[i] = "none" /\ NodeOK(i)
        /\ mishaps'[i] = IF \/ step[i] \in {"count", "judge"} /\ first[i]
                            \/ phase[i] = "start" /\ deferrals[i] > 0
                         THEN mishaps[i] \cup {"cut"} ELSE mishaps[i]
        /\ UNCHANGED <<phase, ret, retry, retry_info, deferrals, job_out, report, docs, crab_retry, first,
                       number, everOk, lastOk, unsaved>>
    BY DEF DagDown, files, script, IInv
  <1>2. deferrals[i] = 0 <=> ~(deferrals[i] > 0)
    <2>1. deferrals[i] \in Nat
      BY JobNodeAssumption DEF IInv, TypeOK
    <2> QED
      BY <2>1
  <1>3. NodeShape(i)'
    BY <1>1 DEF NodeOK, NodeShape
  <1>4. Judged(i)'
    BY <1>1 DEF NodeOK, Judged
  <1>5. CASE "cut" \in mishaps'[i]
    BY <1>3, <1>4, <1>5 DEF NodeOK
  <1>6. CASE "cut" \notin mishaps'[i]
    <2>1. /\ ~(step[i] \in {"count", "judge"} /\ first[i])
          /\ ~(phase[i] = "start" /\ deferrals[i] > 0)
          /\ mishaps'[i] = mishaps[i]
      BY <1>1, <1>6
    <2>2. Uncounted(i)' <=> Uncounted(i)
      BY <1>1, <2>1 DEF Uncounted
    <2>3. Counting(i) => Counting(i)'
      <3>1. Growing(i) => Growing(i)'
        BY <1>1 DEF Growing, LastNumber
      <3> QED
        BY <3>1, <1>1, <1>2, <2>1, <2>2 DEF Counting
    <2>4. Known(i) => Known(i)'
      BY <1>1, <2>2 DEF Known
    <2>5. LastJudged(i) => LastJudged(i)'
      BY <1>1, <2>1 DEF LastJudged
    <2> QED
      BY <1>1, <1>3, <1>4, <2>1, <2>3, <2>4, <2>5 DEF NodeOK
  <1> QED
    BY <1>5, <1>6

(* A start of DAGMan: a node that is to run again gets a $RETRY of its own.    *)
LEMMA StartDagNode ==
    ASSUME IInv, StartDag, NEW i \in Jobs
    PROVE  NodeOK(i)'
  <1>1. PICK again \in SUBSET Jobs :
          /\ again = {j \in Jobs : Again(j, max_retries'[j])}
          /\ retry' = [j \in Jobs |-> IF j \in again THEN retry[j] + 1 ELSE retry[j]]
          /\ phase' = [j \in Jobs |-> IF j \in again THEN "start" ELSE phase[j]]
          /\ ret' = [j \in Jobs |-> IF j \in again THEN "none" ELSE ret[j]]
          /\ deferrals' = [j \in Jobs |-> IF j \in again THEN 0 ELSE deferrals[j]]
    BY DEF StartDag
  <1>2. /\ step'[i] = CASE phase'[i] = "start" -> "pre"
                        [] phase'[i] = "submitted" -> "queue"
                        [] phase'[i] = "ended" -> "post"
                        [] OTHER -> "none"
        /\ UNCHANGED <<retry_info, job_out, report, docs, crab_retry, first, number, everOk, lastOk, unsaved,
                       mishaps>>
        /\ NodeOK(i) /\ step[i] = "none" /\ phase[i] \in Phases
    <2>1. step[i] = "none"
      BY DEF StartDag, IInv, Halted
    <2> QED
      BY <2>1 DEF StartDag, script, history, IInv, TypeOK, Phases
  <1>3. /\ retry[i] \in Nat /\ retry_info[i].post \in Nat /\ deferrals[i] \in Nat
        /\ \A a \in DOMAIN number[i] : number[i][a] \in Nat
    BY JobNodeAssumption DEF IInv, TypeOK
  <1>4. CASE i \in again
    <2>1. /\ phase[i] \in {"done", "failed"} /\ phase'[i] = "start" /\ retry'[i] = retry[i] + 1
          /\ ret'[i] = "none" /\ deferrals'[i] = 0 /\ step'[i] = "pre"
      BY <1>1, <1>2, <1>4 DEF Again, Adjusted, Ended
    <2>2. NodeShape(i)'
      BY <1>2, <2>1 DEF NodeOK, NodeShape
    <2>3. Counting(i) => Counting(i)'
      <3>1. ASSUME Growing(i) PROVE Growing(i)'
        <4>1. \A a \in DOMAIN number[i] : number[i][a] < retry[i] + 1
          BY <1>3, <3>1 DEF Growing
        <4> QED
          BY <4>1, <3>1, <1>2, <1>3, <2>1 DEF Growing
      <3> QED
        BY <3>1, <1>2, <1>3, <2>1 DEF Counting, Uncounted
    <2>4. Known(i)'
      BY <2>1 DEF Known
    <2>5. Judged(i)'
      BY <1>2, <2>1 DEF NodeOK, Judged
    <2>6. LastJudged(i) => LastJudged(i)'
      BY <1>2, <2>1 DEF LastJudged
    <2> QED
      BY <1>2, <2>2, <2>3, <2>4, <2>5, <2>6 DEF NodeOK
  <1>5. CASE i \notin again
    <2>1. /\ phase'[i] = phase[i] /\ retry'[i] = retry[i] /\ ret'[i] = ret[i] /\ deferrals'[i] = deferrals[i]
      BY <1>1, <1>5
    <2>2. step'[i] \in {"pre", "queue", "post", "none"}
          /\ (step'[i] = "pre" => phase[i] = "start") /\ (step'[i] = "queue" => phase[i] = "submitted")
          /\ (step'[i] = "post" => phase[i] = "ended")
          /\ (step'[i] = "none" => phase[i] \in {"done", "failed"})
      BY <1>2, <2>1 DEF Phases
    <2>3. NodeShape(i)'
      BY <1>2, <2>1, <2>2 DEF NodeOK, NodeShape
    <2>4. Uncounted(i)' <=> Uncounted(i)
      BY <1>2, <2>1, <2>2 DEF Uncounted
    <2>5. Counting(i) => Counting(i)'
      <3>1. Growing(i) => Growing(i)'
        BY <1>2, <2>1 DEF Growing, LastNumber
      <3> QED
        BY <3>1, <1>2, <2>1, <2>2, <2>4 DEF Counting
    <2>6. Known(i) => Known(i)'
      BY <1>2, <2>1, <2>2, <2>4 DEF Known
    <2>7. Judged(i)'
      BY <1>2, <2>1, <2>2 DEF NodeOK, Judged
    <2>8. LastJudged(i) => LastJudged(i)'
      BY <1>2, <2>1, <2>2 DEF LastJudged
    <2> QED
      BY <1>2, <2>3, <2>5, <2>6, <2>7, <2>8 DEF NodeOK
  <1> QED
    BY <1>4, <1>5

-------------------------------------------------------------------------------
(* The theorems.                                                               *)

(* The initial states satisfy the invariant.                                   *)
LEMMA InitInvariant == Init => IInv
  <1> SUFFICES ASSUME Init PROVE IInv
    OBVIOUS
  <1>1. TypeOK
    BY JobNodeAssumption DEF Init, TypeOK, Mishaps, NoDocs
  <1>2. ASSUME NEW j \in Jobs PROVE NodeOK(j)
    <2>1. NodeShape(j)
      BY <1>2 DEF Init, NodeShape
    <2>2. Growing(j)
      BY <1>2 DEF Init, Growing
    <2>3. Counting(j)
      BY <1>2, <2>2 DEF Init, Counting, Uncounted
    <2>4. Known(j) /\ Judged(j) /\ LastJudged(j)
      BY <1>2 DEF Init, Known, Judged, LastJudged
    <2> QED
      BY <2>1, <2>3, <2>4 DEF NodeOK
  <1>3. Halted
    BY DEF Init, Halted
  <1> QED
    BY <1>1, <1>2, <1>3 DEF IInv

(* Every step keeps it.                                                        *)
LEMMA StepInvariant == IInv /\ [Next]_vars => IInv'
  <1> SUFFICES ASSUME IInv, [Next]_vars PROVE IInv'
    OBVIOUS
  <1>1. ASSUME NEW j \in Jobs, PreJob(j) PROVE IInv'
    <2>1. TypeOK' /\ NodeOK(j)' /\ \A i \in Jobs \ {j} : Same(i)
      BY <1>1, PreJobType, PreJobNode
    <2>2. Halted'
      BY <1>1 DEF PreJob, Running, Halted, dagman
    <2> QED
      BY <2>1, <2>2, SameNode DEF IInv
  <1>2. ASSUME NEW j \in Jobs, Submit(j) PROVE IInv'
    <2>1. TypeOK' /\ NodeOK(j)' /\ \A i \in Jobs \ {j} : Same(i)
      BY <1>2, JobType, SubmitNode
    <2>2. Halted'
      BY <1>2 DEF Submit, Running, Halted, dagman
    <2> QED
      BY <2>1, <2>2, SameNode DEF IInv
  <1>3. ASSUME NEW j \in Jobs, JobEnds(j) PROVE IInv'
    <2>1. TypeOK' /\ NodeOK(j)' /\ \A i \in Jobs \ {j} : Same(i)
      BY <1>3, JobType, JobEndsNode
    <2>2. Halted'
      BY <1>3 DEF JobEnds, Halted, IInv, dagman
    <2> QED
      BY <2>1, <2>2, SameNode DEF IInv
  <1>4. ASSUME NEW j \in Jobs, GetDeferNum(j) \/ PostCalculateCrabRetry(j) PROVE IInv'
    <2>1. TypeOK' /\ NodeOK(j)' /\ \A i \in Jobs \ {j} : Same(i)
      BY <1>4, CountType, DeferNumNode, CountNode
    <2>2. Halted'
      BY <1>4 DEF GetDeferNum, PostCalculateCrabRetry, Running, Halted, dagman
    <2> QED
      BY <2>1, <2>2, SameNode DEF IInv
  <1>5. ASSUME NEW j \in Jobs, PostCheckExitCode(j) \/ CondorQFails(j) \/ PostTransfer(j) PROVE IInv'
    <2>1. TypeOK' /\ NodeOK(j)' /\ \A i \in Jobs \ {j} : Same(i)
      BY <1>5, JudgeType, CheckExitCodeNode, CondorQNode, TransferNode
    <2>2. dag' \in {"running", "aborted"}
      BY <1>5, JudgeDag
    <2>3. Halted'
      BY <2>2 DEF Halted
    <2> QED
      BY <2>1, <2>3, SameNode DEF IInv
  <1>6. CASE OtherJudged \/ DagEnds \/ StartFails
    <2>1. \A i \in Jobs : Same(i)
      BY <1>6 DEF OtherJudged, DagEnds, StartFails, Same, node, files, script, history
    <2>2. TypeOK'
      BY <1>6, DagType
    <2>3. Halted'
      <3>1. CASE OtherJudged \/ StartFails
        BY <1>6, <3>1 DEF OtherJudged, StartFails, Halted, IInv, node, dagman
      <3>2. CASE DagEnds
        <4>1. \A j \in Jobs : step[j] \in Steps /\ phase[j] \in {"done", "failed"} /\ NodeShape(j)
          BY <3>2 DEF DagEnds, Ended, IInv, TypeOK, Steps, NodeOK
        <4>2. \A j \in Jobs : step[j] = "none"
          BY <4>1 DEF NodeShape, Steps
        <4>3. step' = step
          BY <3>2 DEF DagEnds, node
        <4> QED
          BY <4>2, <4>3 DEF Halted
      <3> QED
        BY <1>6, <3>1, <3>2
    <2> QED
      BY <2>1, <2>2, <2>3, SameNode DEF IInv
  <1>7. CASE Restart \/ Resubmit
    <2>1. PICK list \in SUBSET Jobs : DagDown(list)
      BY <1>7 DEF Restart, Resubmit, IInv, TypeOK
    <2>2. TypeOK' /\ \A i \in Jobs : NodeOK(i)'
      BY <1>7, <2>1, DagType, DagDownNode
    <2>3. Halted'
      BY <2>1 DEF DagDown, Halted
    <2> QED
      BY <2>2, <2>3 DEF IInv
  <1>8. CASE StartDag
    <2>1. TypeOK' /\ \A i \in Jobs : NodeOK(i)'
      BY <1>8, DagType, StartDagNode
    <2>2. Halted'
      BY <1>8 DEF StartDag, Halted
    <2> QED
      BY <2>1, <2>2 DEF IInv
  <1>9. CASE UNCHANGED vars
    <2>1. TypeOK' /\ Halted' /\ \A i \in Jobs : Same(i)
      BY <1>9 DEF vars, dagman, node, files, stats, script, history, IInv, TypeOK, Halted, Same
    <2> QED
      BY <2>1, SameNode DEF IInv
  <1> QED
    BY <1>1, <1>2, <1>3, <1>4, <1>5, <1>6, <1>7, <1>8, <1>9 DEF Next, Post

(* The invariant holds in every reachable state.                               *)
THEOREM Invariance == Spec => []IInv
  BY InitInvariant, StepInvariant, PTL DEF Spec

(* The state has its type and DAGMan never goes beyond the retries that the    *)
(* DAG file grants a node, as AdjustSites.py adjusts them (adjustMaxRetries).  *)
THEOREM TypeCorrect == Spec => []TypeOK
  <1>1. IInv => TypeOK
    BY DEF IInv
  <1> QED
    BY <1>1, Invariance, PTL

(* No two runs of a job share a CRAB_Retry, and a post-job that was not cut    *)
(* short uses the number of its own run (PreJob.py, PostJob.py:                *)
(* calculate_crab_retry), whatever restarts and resubmissions come between.    *)
THEOREM RunsHaveNumbers == Spec => []RunNumbers
  <1>1. IInv => RunNumbersFresh
    <2> SUFFICES ASSUME IInv, NEW j \in Jobs, "cut" \notin mishaps[j],
                        NEW a \in DOMAIN number[j], NEW b \in DOMAIN number[j], a # b
                 PROVE  number[j][a] # number[j][b]
      BY DEF RunNumbersFresh
    <2>1. Growing(j)
      BY DEF IInv, NodeOK, Counting
    <2>2. a \in Nat /\ b \in Nat /\ number[j][a] \in Nat /\ number[j][b] \in Nat
      BY DEF IInv, TypeOK
    <2>3. a < b \/ b < a
      BY <2>2
    <2>4. number[j][a] < number[j][b] \/ number[j][b] < number[j][a]
      BY <2>1, <2>3 DEF Growing
    <2> QED
      BY <2>2, <2>4
  <1>2. IInv => PostKnowsItsRun
    BY DEF IInv, NodeOK, Counting, Growing, Known, PostKnowsItsRun
  <1> QED
    BY <1>1, <1>2, Invariance, PTL DEF RunNumbers

(* A node is done only if a run of its job was successful, and the last one    *)
(* was, unless the bookkeeping of the job went wrong: RetryJob's verdict is    *)
(* heard by every post-job that ends with code 0.                              *)
THEOREM DoneIsReal == Spec => []SuccessIsReal
  <1>1. IInv => SuccessIsReal
    BY DEF IInv, NodeOK, Judged, LastJudged, SuccessIsReal
  <1> QED
    BY <1>1, Invariance, PTL

-------------------------------------------------------------------------------
(* A node is over in the end.                                                  *)

(* The retries that DAGMan may still make of a node, until it is started again *)
(* for a resubmission.                                                         *)
RetriesLeft(j) == max_retries[j] - retry[j]

(* The steps that may still be taken in this retry, at most: each execution of *)
(* the post-job but the last one uses up a deferral.                           *)
MaxSteps == 4 * MaxDeferrals + 14
DeferralsLeft(j) == MaxDeferrals + 1 - deferrals[j]
MayDefer(j) == first[j] \/ DeferralsLeft(j) > 0
StepsLeft(j) ==
    CASE Ended(j) -> 0
      [] step[j] = "post"     -> 4 * DeferralsLeft(j) + 4
      [] step[j] = "count"    -> IF MayDefer(j) THEN 4 * DeferralsLeft(j) + 7 ELSE 3
      [] step[j] = "judge"    -> 4 * DeferralsLeft(j) + 6
      [] step[j] = "transfer" -> IF MayDefer(j) THEN 4 * DeferralsLeft(j) + 5 ELSE 2
      [] phase[j] = "ended" /\ step[j] \in {"none", "queue"} -> MaxSteps - 3
      [] phase[j] = "submitted" -> MaxSteps - 2
      [] step[j] = "submit" -> MaxSteps - 1
      [] phase[j] = "start" /\ step[j] \in {"none", "pre"} -> MaxSteps

(* A step of the node, and one that takes it nearer to its end.                *)
NodeStep(j) == (PreJob(j) /\ step'[j] # "pre") \/ Submit(j) \/ JobEnds(j) \/ Post(j)
Nearer(j) ==
    \/ RetriesLeft(j)' < RetriesLeft(j)
    \/ RetriesLeft(j)' = RetriesLeft(j) /\ StepsLeft(j)' < StepsLeft(j)
AsNear(j) == RetriesLeft(j)' = RetriesLeft(j) /\ StepsLeft(j)' = StepsLeft(j)

(* What the invariant says of the deferrals and of the place of a node.        *)
LEMMA NodeFacts ==
    ASSUME IInv, NEW j \in Jobs
    PROVE  /\ MaxDeferrals \in Nat /\ DeferralsLeft(j) \in 0..MaxDeferrals + 1
           /\ step[j] \in Steps /\ phase[j] \in Phases /\ NodeShape(j)
           /\ step[j] \in {"count", "judge", "transfer"} => DeferralsLeft(j) <= MaxDeferrals
  <1>1. MaxDeferrals \in Nat /\ deferrals[j] \in 0..MaxDeferrals + 1
    BY JobNodeAssumption DEF IInv, TypeOK
  <1>2. step[j] \in Steps /\ phase[j] \in Phases /\ NodeShape(j)
    BY DEF IInv, TypeOK, NodeOK, Steps, Phases
  <1>3. step[j] \in {"count", "judge", "transfer"} => deferrals[j] > 0
    BY <1>2 DEF NodeShape
  <1> QED
    BY <1>1, <1>2, <1>3 DEF DeferralsLeft

(* The numbers, at a node that is not over.                                    *)
LEMMA StepsAt ==
    ASSUME IInv, NEW j \in Jobs, NEW d \in Nat, d = DeferralsLeft(j)
    PROVE  /\ step[j] = "post" => StepsLeft(j) = 4 * d + 4
           /\ step[j] = "count" => StepsLeft(j) = IF first[j] \/ d > 0 THEN 4 * d + 7 ELSE 3
           /\ step[j] = "judge" => StepsLeft(j) = 4 * d + 6
           /\ step[j] = "transfer" => StepsLeft(j) = IF first[j] \/ d > 0 THEN 4 * d + 5 ELSE 2
           /\ step[j] = "submit" => StepsLeft(j) = MaxSteps - 1
           /\ phase[j] = "submitted" => StepsLeft(j) = MaxSteps - 2
           /\ phase[j] = "ended" /\ step[j] \in {"none", "queue"} => StepsLeft(j) = MaxSteps - 3
           /\ phase[j] = "start" /\ step[j] \in {"none", "pre"} => StepsLeft(j) = MaxSteps
           /\ Ended(j) => StepsLeft(j) = 0
  <1>1. NodeShape(j) /\ step[j] \in Steps /\ phase[j] \in Phases
    BY NodeFacts
  <1>2. CASE step[j] \in {"post", "count", "judge", "transfer"}
    <2>1. ~Ended(j) /\ phase[j] \in {"start", "ended"}
      BY <1>1, <1>2 DEF NodeShape, Ended
    <2> QED
      BY <1>2, <2>1 DEF StepsLeft, MayDefer
  <1>3. CASE step[j] = "submit"
    <2>1. phase[j] = "start"
      BY <1>1, <1>3 DEF NodeShape
    <2> QED
      BY <1>3, <2>1 DEF StepsLeft, Ended
  <1>4. CASE step[j] \in {"none", "pre", "queue"}
    BY <1>4 DEF StepsLeft, Ended
  <1> QED
    BY <1>1, <1>2, <1>3, <1>4 DEF Steps

(* There are never more than four for each deferral, and fourteen; none, only  *)
(* when the node is over.                                                      *)
LEMMA StepsBounded ==
    ASSUME IInv, NEW j \in Jobs
    PROVE  StepsLeft(j) \in 0..MaxSteps /\ (~Ended(j) => StepsLeft(j) >= 2)
  <1>1. PICK m \in Nat, d \in Nat, s \in Nat :
          d <= m + 1 /\ m = MaxDeferrals /\ d = DeferralsLeft(j) /\ s = MaxSteps /\ s = 4 * m + 14
    BY NodeFacts DEF MaxSteps
  <1>2. NodeShape(j) /\ step[j] \in Steps /\ phase[j] \in Phases
    BY NodeFacts
  <1>3. 4 * d + 8 <= s
    BY <1>1
  <1>4. CASE step[j] = "post"
    <2>1. StepsLeft(j) = 4 * d + 4
      BY <1>1, <1>4, StepsAt
    <2> QED
      BY <1>1, <1>3, <2>1
  <1>5. CASE step[j] \in {"count", "judge", "transfer"}
    <2>1. StepsLeft(j) \in {4 * d + 7, 3, 4 * d + 6, 4 * d + 5, 2}
      BY <1>1, <1>5, StepsAt
    <2> QED
      BY <1>1, <1>3, <2>1
  <1>6. CASE step[j] \in {"none", "pre", "submit", "queue"}
    <2>1. StepsLeft(j) \in {0, s, s - 1, s - 2, s - 3} /\ (~Ended(j) => StepsLeft(j) # 0)
      BY <1>1, <1>2, <1>6, StepsAt DEF Phases, NodeShape, Ended
    <2> QED
      BY <1>1, <2>1
  <1> QED
    BY <1>2, <1>4, <1>5, <1>6 DEF Steps

(* A node that is left alone.                                                  *)
LEMMA SameIsAsNear ==
    ASSUME NEW i \in Jobs, Same(i), max_retries'[i] = max_retries[i]
    PROVE  AsNear(i)
  BY DEF AsNear, Same, RetriesLeft, StepsLeft, Ended, MayDefer, DeferralsLeft, MaxSteps

(* A retry, or the end of the node.                                            *)
LEMMA EndIsNearer ==
    ASSUME IInv, NEW j \in Jobs, step[j] \in {"count", "judge", "transfer"}, UNCHANGED max_retries,
           Retried(j) \/ \E p \in {"done", "failed"}, r \in Rets : Over(j, p, r)
    PROVE  Nearer(j)
  <1>1. /\ phase \in [Jobs -> Phases] /\ step \in [Jobs -> Steps]
        /\ retry \in [Jobs -> Nat] /\ max_retries[j] \in Nat
    BY DEF IInv, TypeOK, Phases, Steps
  <1>2. CASE Retried(j)
    <2>1. retry'[j] = retry[j] + 1
      BY <1>1, <1>2 DEF Retried
    <2> QED
      BY <1>1, <2>1 DEF Nearer, RetriesLeft
  <1>3. CASE \E p \in {"done", "failed"}, r \in Rets : Over(j, p, r)
    <2>1. phase'[j] \in {"done", "failed"} /\ step'[j] = "none" /\ retry' = retry
      BY <1>1, <1>3 DEF Over
    <2>2. StepsLeft(j)' = 0
      BY <2>1 DEF StepsLeft, Ended
    <2>3. ~Ended(j)
      BY NodeFacts DEF NodeShape, Ended
    <2>4. StepsLeft(j) >= 2
      BY <2>3, StepsBounded
    <2>5. RetriesLeft(j)' = RetriesLeft(j)
      BY <2>1 DEF RetriesLeft
    <2>6. 0 < StepsLeft(j)
      BY <2>4, StepsBounded DEF MaxSteps
    <2> QED
      BY <2>2, <2>5, <2>6 DEF Nearer
  <1> QED
    BY <1>2, <1>3

(* A later execution of a post-job has one deferral less, the last one none.   *)
LEMMA DeferNumIsNearer ==
    ASSUME IInv, NEW j \in Jobs, GetDeferNum(j)
    PROVE  Nearer(j)
  <1>0. MaxDeferrals \in Nat /\ deferrals[j] \in 0..MaxDeferrals + 1
    BY JobNodeAssumption DEF IInv, TypeOK
  <1>1. PICK m \in Nat, n \in Nat : n <= m + 1 /\ m = MaxDeferrals /\ n = deferrals[j]
    BY <1>0
  <1>2. /\ step[j] = "post" /\ phase[j] \in {"start", "ended"} /\ step'[j] = "count"
        /\ (first'[j] <=> n = 0) /\ deferrals'[j] = (IF n <= m THEN n + 1 ELSE n)
        /\ UNCHANGED <<phase, retry, max_retries>>
    <2>1. step[j] = "post" /\ UNCHANGED <<phase, retry, max_retries>>
      BY DEF GetDeferNum, Running
    <2>2. phase[j] \in {"start", "ended"}
      BY <2>1, NodeFacts DEF NodeShape
    <2>3. step'[j] = "count"
      BY DEF GetDeferNum, IInv, TypeOK
    <2>4. first'[j] <=> n = 0
      BY <1>1 DEF GetDeferNum, IInv, TypeOK
    <2>5. deferrals'[j] = Deferral(n)
      BY <1>1 DEF GetDeferNum, IInv, TypeOK
    <2> QED
      BY <1>1, <2>1, <2>2, <2>3, <2>4, <2>5 DEF Deferral
  <1>3. PICK d \in Nat : d = m + 1 - n /\ d = DeferralsLeft(j)
    BY <1>1 DEF DeferralsLeft
  <1>4. StepsLeft(j) = 4 * d + 4
    BY <1>2, <1>3, StepsAt
  <1>5. StepsLeft(j)' = IF MayDefer(j)' THEN 4 * DeferralsLeft(j)' + 7 ELSE 3
    BY <1>2 DEF StepsLeft, Ended
  <1>6. StepsLeft(j)' < StepsLeft(j)
    <2>1. CASE n <= m
      <3>1. DeferralsLeft(j)' = d - 1 /\ d >= 1
        BY <1>1, <1>2, <1>3, <2>1 DEF DeferralsLeft
      <3>2. StepsLeft(j)' \in {4 * (d - 1) + 7, 3}
        BY <1>5, <3>1
      <3> QED
        BY <1>3, <1>4, <3>1, <3>2
    <2>2. CASE n = m + 1
      <3>1. DeferralsLeft(j)' = 0 /\ ~first'[j] /\ d = 0
        BY <1>1, <1>2, <1>3, <2>2 DEF DeferralsLeft
      <3>2. StepsLeft(j)' = 3
        BY <1>5, <3>1 DEF MayDefer
      <3> QED
        BY <1>4, <3>1, <3>2
    <2> QED
      BY <1>1, <2>1, <2>2
  <1>7. RetriesLeft(j)' = RetriesLeft(j)
    BY <1>2 DEF RetriesLeft
  <1> QED
    BY <1>6, <1>7 DEF Nearer

(* A post-job that goes on to a later step.                                    *)
LEMMA GoesOnIsNearer ==
    ASSUME IInv, NEW j \in Jobs, <<step[j], step'[j]>> \in {<<"count", "judge">>, <<"count", "transfer">>,
                                                            <<"judge", "transfer">>, <<"transfer", "post">>},
           MayDefer(j) \/ step'[j] = "transfer", step[j] = "count" => (first[j] <=> step'[j] = "judge"),
           UNCHANGED <<phase, retry, max_retries, deferrals, first>>
    PROVE  Nearer(j)
  <1>1. PICK d \in Nat : d = DeferralsLeft(j)
    BY NodeFacts
  <1>2. DeferralsLeft(j)' = d /\ (MayDefer(j)' <=> MayDefer(j)) /\ (MayDefer(j) <=> first[j] \/ d > 0)
    BY <1>1 DEF DeferralsLeft, MayDefer
  <1>3. phase[j]' \in {"start", "ended"}
    BY NodeFacts DEF NodeShape
  <1>4. /\ step'[j] = "judge" => StepsLeft(j)' = 4 * d + 6
        /\ step'[j] = "transfer" => StepsLeft(j)' = IF MayDefer(j) THEN 4 * d + 5 ELSE 2
        /\ step'[j] = "post" => StepsLeft(j)' = 4 * d + 4
    BY <1>2, <1>3 DEF StepsLeft, Ended
  <1>5. /\ step[j] = "count" => StepsLeft(j) = IF MayDefer(j) THEN 4 * d + 7 ELSE 3
        /\ step[j] = "judge" => StepsLeft(j) = 4 * d + 6 /\ MayDefer(j)
        /\ step[j] = "transfer" => StepsLeft(j) = IF MayDefer(j) THEN 4 * d + 5 ELSE 2
    <2>1. step[j] = "judge" => first[j]
      BY NodeFacts DEF NodeShape
    <2> QED
      BY <1>1, <1>2, <2>1, StepsAt
  <1>6. StepsLeft(j)' < StepsLeft(j)
    <2>1. CASE step[j] = "count"
      BY <1>2, <1>4, <1>5, <2>1
    <2>2. CASE step[j] = "judge"
      BY <1>4, <1>5, <2>2
    <2>3. CASE step[j] = "transfer"
      BY <1>4, <1>5, <2>3
    <2> QED
      BY <2>1, <2>2, <2>3
  <1>7. RetriesLeft(j)' = RetriesLeft(j)
    BY DEF RetriesLeft
  <1> QED
    BY <1>6, <1>7 DEF Nearer

(* The steps of a post-job.                                                    *)
LEMMA PostIsNearer ==
    ASSUME IInv, NEW j \in Jobs, Post(j)
    PROVE  Nearer(j) /\ UNCHANGED max_retries
  <1> DEFINE Over2 == \E p \in {"done", "failed"}, r \in Rets : Over(j, p, r)
  <1>1. step \in [Jobs -> Steps]
    BY DEF IInv, TypeOK, Steps
  <1>2. CASE GetDeferNum(j)
    BY <1>2, DeferNumIsNearer DEF GetDeferNum
  <1>3. CASE PostCalculateCrabRetry(j)
    <2>1. /\ step[j] = "count" /\ UNCHANGED <<retry, max_retries, deferrals, first>>
          /\ \/ first[j] /\ step' = [step EXCEPT ![j] = "judge"] /\ UNCHANGED phase
             \/ Over(j, "failed", "2")
             \/ ~first[j] /\ step' = [step EXCEPT ![j] = "transfer"] /\ UNCHANGED phase
      BY <1>3 DEF PostCalculateCrabRetry, Running, Over
    <2>2. CASE Over(j, "failed", "2")
      BY <2>1, <2>2, EndIsNearer DEF Rets
    <2>3. CASE ~Over(j, "failed", "2")
      <3>1. /\ \/ first[j] /\ step'[j] = "judge"
               \/ ~first[j] /\ step'[j] = "transfer"
            /\ UNCHANGED phase
        BY <1>1, <2>1, <2>3
      <3> QED
        BY <2>1, <3>1, GoesOnIsNearer DEF MayDefer
    <2> QED
      BY <2>1, <2>2, <2>3
  <1>4. CASE PostCheckExitCode(j)
    <2>1. step[j] = "judge" /\ first[j] /\ UNCHANGED <<max_retries, first>>
      <3>1. step[j] = "judge" /\ first' = first
        BY <1>4 DEF PostCheckExitCode, Running, script
      <3>2. first[j]
        BY <3>1, NodeFacts DEF NodeShape
      <3> QED
        BY <1>4, <3>1, <3>2 DEF PostCheckExitCode, PostEnds
    <2>2. \/ step' = [step EXCEPT ![j] = "transfer"] /\ UNCHANGED <<phase, retry, deferrals>>
          \/ \E v \in {"0", "1", "2"} : PostEnds(j, v)
      <3>1. \A v : AfterVerdict(j, v) \in {"go", "1", "2"}
        BY RetryCountCodes DEF AfterVerdict
      <3> QED
        BY <1>4, <3>1 DEF PostCheckExitCode
    <2>3. CASE step' = [step EXCEPT ![j] = "transfer"] /\ UNCHANGED <<phase, retry, deferrals>>
      <3>1. step'[j] = "transfer"
        BY <1>1, <2>3
      <3> QED
        BY <2>1, <2>3, <3>1, GoesOnIsNearer
    <2>4. CASE \E v \in {"0", "1", "2"} : PostEnds(j, v)
      <3>1. Retried(j) \/ Over2
        BY <2>4, PostEndsForms
      <3> QED
        BY <2>1, <3>1, EndIsNearer
    <2> QED
      BY <2>1, <2>2, <2>3, <2>4
  <1>5. CASE CondorQFails(j)
    <2>1. step[j] = "judge" /\ UNCHANGED max_retries /\ (Retried(j) \/ Over(j, "failed", "1"))
      BY <1>5 DEF CondorQFails, Running, DagmanRetries, Retried, Over
    <2> QED
      BY <2>1, EndIsNearer DEF Rets
  <1>6. CASE PostTransfer(j)
    <2>1. step[j] = "transfer" /\ UNCHANGED first
      BY <1>6 DEF PostTransfer, Running, script
    <2>2. PICK o \in IF report[j] = "none" THEN {"2"} ELSE TransferOutcomes(j) :
            \/ /\ o = "defer" /\ step' = [step EXCEPT ![j] = "post"]
               /\ UNCHANGED <<phase, retry, max_retries, deferrals>>
            \/ /\ o # "defer"
               /\ \E v \in {o, "1"} \cup (IF o = "0" THEN {CheckRetryCount(j)} ELSE {}) : PostEnds(j, v)
      BY <1>6 DEF PostTransfer
    <2>3. CASE o = "defer"
      <3>1. first[j] \/ ~TimedOut(j)
        BY <2>2, <2>3, RetryCountCodes DEF TransferOutcomes
      <3>2. MaxDeferrals \in Nat /\ deferrals[j] \in 0..MaxDeferrals + 1
        BY JobNodeAssumption DEF IInv, TypeOK
      <3>3. MayDefer(j)
        BY <3>1, <3>2 DEF MayDefer, TimedOut, DeferralsLeft
      <3>4. step'[j] = "post"
        BY <1>1, <2>2, <2>3
      <3> QED
        BY <2>1, <2>2, <2>3, <3>3, <3>4, GoesOnIsNearer
    <2>4. CASE o # "defer"
      <3>1. o \in {"0", "1", "2"}
        BY <2>2, <2>4, RetryCountCodes DEF TransferOutcomes
      <3>2. PICK v \in {"0", "1", "2"} : PostEnds(j, v)
        BY <2>2, <2>4, <3>1, RetryCountCodes
      <3>3. (Retried(j) \/ Over2) /\ UNCHANGED max_retries
        BY <3>2, PostEndsForms
      <3> QED
        BY <2>1, <3>3, EndIsNearer
    <2> QED
      BY <2>3, <2>4
  <1> QED
    BY <1>2, <1>3, <1>4, <1>5, <1>6 DEF Post

(* The steps of the pre-job and of the job.                                    *)
LEMMA RunIsNearer ==
    ASSUME IInv, NEW j \in Jobs, (PreJob(j) /\ step'[j] # "pre") \/ Submit(j) \/ JobEnds(j)
    PROVE  Nearer(j) /\ UNCHANGED max_retries
  <1>1. PICK m \in Nat, d \in Nat, s \in Nat :
          d <= m + 1 /\ m = MaxDeferrals /\ d = DeferralsLeft(j) /\ s = MaxSteps /\ s = 4 * m + 14
    BY NodeFacts DEF MaxSteps
  <1>2. 4 * d + 4 < s - 3 /\ MaxSteps' = s
    BY <1>1 DEF MaxSteps
  <1>3. step \in [Jobs -> Steps] /\ phase \in [Jobs -> Phases] /\ NodeShape(j)
    BY NodeFacts DEF IInv, TypeOK, Steps, Phases
  <1>4. CASE PreJob(j) /\ step'[j] # "pre"
    <2>1. /\ step[j] = "pre" /\ step'[j] \in {"post", "submit"}
          /\ UNCHANGED <<phase, retry, max_retries, deferrals>>
      BY <1>3, <1>4 DEF PreJob, Running
    <2>2. phase[j] = "start"
      BY <1>3, <2>1 DEF NodeShape
    <2>3. StepsLeft(j) = s
      BY <1>1, <2>1, <2>2, StepsAt
    <2>4. StepsLeft(j)' \in {4 * d + 4, s - 1}
      BY <1>1, <1>2, <2>1, <2>2 DEF StepsLeft, Ended, DeferralsLeft
    <2> QED
      BY <1>1, <1>2, <2>1, <2>3, <2>4 DEF Nearer, RetriesLeft
  <1>5. CASE Submit(j)
    <2>1. /\ step[j] = "submit" /\ step'[j] = "queue" /\ phase'[j] = "submitted"
          /\ UNCHANGED <<retry, max_retries>>
      BY <1>3, <1>5 DEF Submit, Running
    <2>2. StepsLeft(j) = s - 1
      BY <1>1, <2>1, StepsAt
    <2>3. StepsLeft(j)' = s - 2
      BY <1>2, <2>1 DEF StepsLeft, Ended
    <2> QED
      BY <1>1, <2>1, <2>2, <2>3 DEF Nearer, RetriesLeft
  <1>6. CASE JobEnds(j)
    <2>1. /\ phase[j] = "submitted" /\ phase'[j] = "ended" /\ step'[j] \in {"post", step[j]}
          /\ UNCHANGED <<retry, max_retries, deferrals>>
      BY <1>3, <1>6 DEF JobEnds
    <2>2. step[j] \in {"none", "queue"}
      BY <1>3, <2>1 DEF NodeShape
    <2>3. StepsLeft(j) = s - 2
      BY <1>1, <2>1, StepsAt
    <2>4. StepsLeft(j)' \in {4 * d + 4, s - 3}
      BY <1>1, <1>2, <2>1, <2>2 DEF StepsLeft, Ended, DeferralsLeft
    <2> QED
      BY <1>1, <1>2, <2>1, <2>3, <2>4 DEF Nearer, RetriesLeft
  <1> QED
    BY <1>4, <1>5, <1>6

(* No step but a start of DAGMan takes a node away from its end.               *)
LEMMA NodesAdvance ==
    ASSUME IInv, Next
    PROVE  /\ Restart \/ Resubmit \/ StartDag \/ \A i \in Jobs : AsNear(i) \/ Nearer(i)
           /\ \A j \in Jobs : NodeStep(j) => Nearer(j)
  <1>1. ASSUME NEW j \in Jobs, NodeStep(j) PROVE Nearer(j) /\ UNCHANGED max_retries
    BY <1>1, PostIsNearer, RunIsNearer DEF NodeStep
  <1>2. ASSUME NEW j \in Jobs, PreJob(j) \/ Submit(j) \/ JobEnds(j) \/ Post(j)
        PROVE  \A i \in Jobs : AsNear(i) \/ Nearer(i)
    <2>1. \A i \in Jobs \ {j} : Same(i)
      BY <1>2, PreJobNode, SubmitNode, JobEndsNode, DeferNumNode, CountNode, CheckExitCodeNode, CondorQNode,
         TransferNode DEF Post
    <2>2. CASE NodeStep(j)
      BY <1>1, <2>1, <2>2, SameIsAsNear
    <2>3. CASE ~NodeStep(j)
      <3>1. PreJob(j) /\ step'[j] = "pre"
        BY <1>2, <2>3 DEF NodeStep
      <3>2. step[j] = "pre" /\ UNCHANGED <<phase, retry, max_retries, deferrals, first>>
        BY <3>1 DEF PreJob, Running
      <3>3. AsNear(j)
        BY <3>1, <3>2 DEF AsNear, RetriesLeft, StepsLeft, Ended, MayDefer, DeferralsLeft, MaxSteps
      <3> QED
        BY <2>1, <3>2, <3>3, SameIsAsNear
    <2> QED
      BY <2>2, <2>3
  <1>3. CASE OtherJudged \/ DagEnds \/ StartFails
    <2>1. \A i \in Jobs : Same(i) /\ max_retries'[i] = max_retries[i]
      BY <1>3 DEF OtherJudged, DagEnds, StartFails, Same, node, files, script, history
    <2> QED
      BY <1>1, <2>1, SameIsAsNear
  <1> QED
    BY <1>1, <1>2, <1>3 DEF Next

(* Whatever fails, each node of a DAG comes to its end: a step of it leaves    *)
(* fewer retries (PostJob.check_retry_count), or as many and fewer steps of    *)
(* this one (check_transfers and its timeouts), and the other nodes where they *)
(* are; only a restart of DAGMan or a resubmission takes a node back. What     *)
(* DagFinishes says on top is that the steps are taken.                        *)
THEOREM NodesEnd ==
    Spec => /\ [](\A j \in Jobs : RetriesLeft(j) \in Nat /\ StepsLeft(j) \in 0..MaxSteps)
            /\ [][/\ \A j \in Jobs : NodeStep(j) => Nearer(j)
                  /\ Restart \/ Resubmit \/ StartDag \/ \A i \in Jobs : AsNear(i) \/ Nearer(i)]_vars
  <1>1. IInv => \A j \in Jobs : RetriesLeft(j) \in Nat /\ StepsLeft(j) \in 0..MaxSteps
    <2> SUFFICES ASSUME IInv, NEW j \in Jobs PROVE RetriesLeft(j) \in Nat /\ StepsLeft(j) \in 0..MaxSteps
      OBVIOUS
    <2>1. retry[j] \in Nat /\ max_retries[j] \in Nat /\ retry[j] <= max_retries[j]
      BY DEF IInv, TypeOK
    <2> QED
      BY <2>1, StepsBounded DEF RetriesLeft
  <1>2. IInv => [Next => /\ \A j \in Jobs : NodeStep(j) => Nearer(j)
                         /\ Restart \/ Resubmit \/ StartDag \/ \A i \in Jobs : AsNear(i) \/ Nearer(i)]_vars
    BY NodesAdvance
  <1> QED
    BY <1>1, <1>2, Invariance, PTL DEF Spec
===============================================================================
