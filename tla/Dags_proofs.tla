------------------------------ MODULE Dags_proofs ------------------------------
(* Proofs about the DAGs of a task: the ROOT DAG that DagmanSubmission submits,*)
(* and the tails that it grows by itself (AutoSplitting).                      *)
(*                                                                             *)
(* For any number of schedds and any max_retry, without a bound on failures and*)
(* crashes, one ROOT DAG runs, where the row says: SubmissionInv.              *)
(*                                                                             *)
(* For any number of probes, jobs, tails and restarts each lumi is processed   *)
(* once, and the estimates are found. EachLumiOnce is not inductive. IInv says *)
(* where PreDAG stands (PreDAGOK, Waiting) and relates the tails to the jobs   *)
(* they have dealt with: the tails that were submitted hold what those jobs    *)
(* left, no less and no more, and no two of them the same (Accounted). A job   *)
(* that has ended does not change, so that what is left stays what it was.     *)
(* Nothing is lost in the end because the last tail waits for as many jobs as  *)
(* were submitted, which are all of them (LastWave): that one needs the last   *)
(* trigger to be 100.                                                          *)
EXTENDS DagmanSubmission, AutoSplitting, FiniteSetTheorems, TLAPS

-------------------------------------------------------------------------------
(* The submission of the ROOT DAG.                                             *)

(* Where a handler is at work.                                                 *)
Working == {"execute", "check", "found", "submit", "report", "next"}

(* The handler and the row name the same schedd.                               *)
SameSchedd ==
    /\ pc \in Working => schedd = tm_schedd
    /\ pc \in Working \ {"execute"} => schedd # NoSchedd

(* No DAG runs while a try is going to be made, or has failed.                 *)
NothingRuns == ~blind /\ pc \in {"submit", "next"} => \A s \in Schedds : running[s] = 0

(* What is going to be reported runs.                                          *)
ReportedRuns == ~blind /\ pc \in {"found", "report"} => running[schedd] = 1

(* A handler at work has not reported, to its knowledge.                       *)
NotReported == ~blind /\ pc \in Working => status # "SUBMITTED"

(* What is promised of the DAGs, and what the handler at work knows of them.   *)
Dags == OneDag /\ RunningIsRecorded /\ SubmittedHasDag
Known == SameSchedd /\ NothingRuns /\ ReportedRuns /\ NotReported

(* The inductive invariant: the promises alone are not inductive, since a      *)
(* submission is only harmless if the handler knows that nothing runs.         *)
SubmissionInv == SubmissionTypeOK /\ Dags /\ Known

(* A schedd is only chosen when the row names none, and then nothing runs.     *)
LEMMA ExecuteInv == ASSUME SubmissionInv, Execute PROVE SubmissionInv'
<1>1. SubmissionTypeOK'
  BY DEF SubmissionInv, SubmissionTypeOK, condor, Execute, PickAndSetSchedd, SendScheddToREST, Untried,
         Raise
<1>2. Dags'
  BY SubmissionAssumption DEF SubmissionInv, Dags, Known, OneDag, RunningIsRecorded,
         SubmittedHasDag, SameSchedd, Working, condor, Execute
<1>3. Known'
  BY SubmissionAssumption DEF SubmissionInv, Known, SameSchedd, NothingRuns, ReportedRuns,
         NotReported, Working, Execute, PickAndSetSchedd, SendScheddToREST, Untried,
         Raise
<1> QED
  BY <1>1, <1>2, <1>3 DEF SubmissionInv

(* A submission is tried only if nothing was found on the schedd of the row.   *)
LEMMA DuplicateCheckInv == ASSUME SubmissionInv, DuplicateCheck PROVE SubmissionInv'
<1>1. SubmissionTypeOK'
  BY SubmissionAssumption DEF SubmissionInv, SubmissionTypeOK, row, condor, DuplicateCheck, Raise,
         maxRetries
<1>2. Dags'
  BY DEF SubmissionInv, Dags, OneDag, RunningIsRecorded, SubmittedHasDag, row, condor,
         DuplicateCheck
<1>3. Known'
  BY DEF SubmissionInv, Dags, Known, SubmissionTypeOK, OneDag, RunningIsRecorded, SameSchedd, NothingRuns,
         ReportedRuns, NotReported, Working, row, condor, DuplicateCheck, Found, Raise
<1> QED
  BY <1>1, <1>2, <1>3 DEF SubmissionInv

(* What was found runs where the row says.                                     *)
LEMMA ReportDuplicateInv == ASSUME SubmissionInv, ReportDuplicate PROVE SubmissionInv'
<1>1. SubmissionTypeOK'
  BY DEF SubmissionInv, SubmissionTypeOK, HandlerEnded, condor, ReportDuplicate, Raise
<1>2. Dags'
  BY DEF SubmissionInv, Dags, Known, OneDag, RunningIsRecorded, SubmittedHasDag, SameSchedd,
         ReportedRuns, Working, condor, ReportDuplicate
<1>3. Known'
  BY DEF SubmissionInv, Known, SameSchedd, NothingRuns, ReportedRuns, NotReported, Working,
         ReportDuplicate, Raise
<1> QED
  BY <1>1, <1>2, <1>3 DEF SubmissionInv

(* Nothing runs before; after, the new DAG runs and will be reported, or       *)
(* nothing is left running, or blind.                                          *)
LEMMA SubmitDirectInv == ASSUME SubmissionInv, SubmitDirect PROVE SubmissionInv'
<1>. USE DEF SubmissionInv, SubmitDirect
<1>1. SubmissionTypeOK'
  <2>1. leftover' \in [Schedds -> SUBSET {"held", "removed"}]
    BY DEF SubmissionTypeOK, Queued, Remove, condor
  <2>2. running' \in [Schedds -> 0..2]
    BY DEF SubmissionTypeOK, Queued, Remove, condor
  <2>3. blind' \in BOOLEAN
    BY DEF SubmissionTypeOK, Queued, Remove, condor
  <2> QED
    BY <2>1, <2>2, <2>3 DEF SubmissionTypeOK, HandlerEnded, row, handler, AfterCleanup
<1>2. Dags'
  BY DEF SubmissionTypeOK, Dags, Known, OneDag, RunningIsRecorded, SubmittedHasDag, SameSchedd,
         NothingRuns, Working, row, condor, Queued, Remove
<1>3. Known'
  <2>1. CASE pc' = "report"
    BY <2>1 DEF SubmissionTypeOK, Known, SameSchedd, NothingRuns, ReportedRuns, NotReported, Working,
         row, condor, handler, Queued, Remove, AfterCleanup
  <2>2. CASE pc' = "next"
    BY <2>2 DEF SubmissionTypeOK, Known, SameSchedd, NothingRuns, ReportedRuns, NotReported, Working,
         row, condor, handler, Queued, Remove, AfterCleanup
  <2> QED
    BY <2>1, <2>2 DEF AfterCleanup
<1> QED
  BY <1>1, <1>2, <1>3

(* The reported DAG is the one that runs.                                      *)
LEMMA ReportSuccessInv == ASSUME SubmissionInv, ReportSuccess PROVE SubmissionInv'
<1>1. SubmissionTypeOK'
  BY DEF SubmissionInv, SubmissionTypeOK, HandlerEnded, condor, handler, ReportSuccess
<1>2. Dags'
  BY DEF SubmissionInv, Dags, Known, OneDag, RunningIsRecorded, SubmittedHasDag, SameSchedd,
         ReportedRuns, Working, condor, ReportSuccess
<1>3. Known'
  BY DEF SubmissionInv, Known, SameSchedd, NothingRuns, ReportedRuns, NotReported, Working,
         handler, ReportSuccess
<1> QED
  BY <1>1, <1>2, <1>3 DEF SubmissionInv

(* Another schedd is only recorded after a failed try, when nothing runs.      *)
LEMMA NextTryInv == ASSUME SubmissionInv, NextTry PROVE SubmissionInv'
<1>1. SubmissionTypeOK'
  BY SubmissionAssumption DEF SubmissionInv, Known, SubmissionTypeOK, SameSchedd, Working, condor, NextTry,
         PickAndSetSchedd, SendScheddToREST, Untried, Raise, maxRetries
<1>2. Dags'
  BY DEF SubmissionInv, Dags, Known, SubmissionTypeOK, OneDag, RunningIsRecorded, SubmittedHasDag,
         NothingRuns, condor, NextTry
<1>3. Known'
  BY DEF SubmissionInv, Known, SameSchedd, NothingRuns, ReportedRuns, NotReported, Working,
         condor, NextTry, PickAndSetSchedd, SendScheddToREST, Raise
<1> QED
  BY <1>1, <1>2, <1>3 DEF SubmissionInv

(* A failure moves no DAG.                                                     *)
LEMMA FailTaskInv == ASSUME SubmissionInv, FailTask PROVE SubmissionInv'
<1>1. SubmissionTypeOK'
  BY DEF SubmissionInv, SubmissionTypeOK, HandlerEnded, condor, handler, FailTask
<1>2. Dags'
  BY DEF SubmissionInv, Dags, OneDag, RunningIsRecorded, SubmittedHasDag, condor, FailTask
<1>3. Known'
  BY DEF SubmissionInv, Known, SameSchedd, NothingRuns, ReportedRuns, NotReported, Working,
         FailTask
<1> QED
  BY <1>1, <1>2, <1>3 DEF SubmissionInv

(* A crash forgets the handler, not the row nor the DAG.                       *)
LEMMA CrashInv == ASSUME SubmissionInv, Crash PROVE SubmissionInv'
<1>1. SubmissionTypeOK'
  BY DEF SubmissionInv, SubmissionTypeOK, HandlerEnded, row, condor, handler, Crash
<1>2. Dags'
  BY DEF SubmissionInv, Dags, OneDag, RunningIsRecorded, SubmittedHasDag, row, condor, Crash
<1>3. Known'
  BY DEF SubmissionInv, Known, SameSchedd, NothingRuns, ReportedRuns, NotReported, Working, Crash
<1> QED
  BY <1>1, <1>2, <1>3 DEF SubmissionInv

(* The next handler starts from the row, which is not SUBMITTED.               *)
LEMMA NewHandlerInv == ASSUME SubmissionInv, NewHandler PROVE SubmissionInv'
<1>1. SubmissionTypeOK'
  BY SubmissionAssumption DEF SubmissionInv, SubmissionTypeOK, condor, NewHandler, maxRetries
<1>2. Dags'
  BY DEF SubmissionInv, Dags, OneDag, RunningIsRecorded, SubmittedHasDag, condor, NewHandler
<1>3. Known'
  BY DEF SubmissionInv, Known, SameSchedd, NothingRuns, ReportedRuns, NotReported, NewHandler
<1> QED
  BY <1>1, <1>2, <1>3 DEF SubmissionInv

(* No running DAG is dropped.                                                  *)
LEMMA DropInv == ASSUME SubmissionInv, NEW d \in Schedds, Drop(d) PROVE SubmissionInv'
<1>1. SubmissionTypeOK'
  BY DEF SubmissionInv, SubmissionTypeOK, row, handler, Drop
<1>2. Dags'
  BY DEF SubmissionInv, Dags, OneDag, RunningIsRecorded, SubmittedHasDag, row, Drop
<1>3. Known'
  BY DEF SubmissionInv, Known, SameSchedd, NothingRuns, ReportedRuns, NotReported, row, handler,
         Drop
<1> QED
  BY <1>1, <1>2, <1>3 DEF SubmissionInv

(* The invariant is inductive.                                                *)
LEMMA SubmissionInitInv == ASSUME SubmissionInit PROVE SubmissionInv
<1>1. SubmissionTypeOK
  <2>1. leftover \in [Schedds -> SUBSET {"held", "removed"}]
    BY DEF SubmissionInit
  <2>2. running \in [Schedds -> 0..2]
    BY DEF SubmissionInit
  <2>3. retry \in 0..max_retry /\ retryCount \in 0..(maxRetries - 1)
    BY SubmissionAssumption DEF SubmissionInit, maxRetries
  <2>4. /\ tm_schedd \in Schedds \cup {NoSchedd} /\ schedd \in Schedds \cup {NoSchedd}
        /\ taskErrors \subseteq Schedds
    BY DEF SubmissionInit
  <2> QED
    BY <2>1, <2>2, <2>3, <2>4 DEF SubmissionInit, SubmissionTypeOK, HandlerEnded
<1>2. Dags /\ Known
  BY DEF SubmissionInit, Dags, Known, OneDag, RunningIsRecorded, SubmittedHasDag, SameSchedd,
         NothingRuns, ReportedRuns, NotReported, Working
<1> QED
  BY <1>1, <1>2 DEF SubmissionInv

(* Every step keeps the invariant.                                             *)
LEMMA SubmissionNextInv == ASSUME SubmissionInv, [SubmissionNext]_submissionVars PROVE SubmissionInv'
<1>1. CASE Handler
  BY <1>1, ExecuteInv, DuplicateCheckInv, ReportDuplicateInv, SubmitDirectInv,
     ReportSuccessInv, NextTryInv, FailTaskInv DEF Handler
<1>2. CASE Crash \/ NewHandler
  BY <1>2, CrashInv, NewHandlerInv
<1>3. CASE \E s \in Schedds : Drop(s)
  BY <1>3, DropInv
<1>4. CASE UNCHANGED submissionVars
  BY <1>4 DEF submissionVars, row, condor, handler, SubmissionInv, SubmissionTypeOK, Dags, Known, OneDag,
     RunningIsRecorded, SubmittedHasDag, SameSchedd, NothingRuns, ReportedRuns, NotReported
<1> QED
  BY <1>1, <1>2, <1>3, <1>4 DEF SubmissionNext

(* The inductive invariant holds in every reachable state.                     *)
THEOREM SubmissionInvariance == SubmissionSpec => []SubmissionInv
  BY SubmissionInitInv, SubmissionNextInv, PTL DEF SubmissionSpec

(* The state of a submission has its type: no counter leaves its range.        *)
THEOREM SubmissionTypeCorrect == SubmissionSpec => []SubmissionTypeOK
  BY SubmissionInvariance, PTL DEF SubmissionInv

(* At most one DAG of the task runs, on all schedds together, whatever fails,  *)
(* unless a report got no answer or a cleanup failed.                          *)
THEOREM OneDagRuns == SubmissionSpec => []OneDag
  BY SubmissionInvariance, PTL DEF SubmissionInv, Dags

(* The DAG that runs is on the schedd of the row.                              *)
THEOREM DagIsRecorded == SubmissionSpec => []RunningIsRecorded
  BY SubmissionInvariance, PTL DEF SubmissionInv, Dags

(* A task is only SUBMITTED if its DAG runs on the schedd of the row.          *)
THEOREM SubmittedRuns == SubmissionSpec => []SubmittedHasDag
  BY SubmissionInvariance, PTL DEF SubmissionInv, Dags

-------------------------------------------------------------------------------
(* The submission ends.                                                        *)

(* The steps that a handler may still take, at most: those of the call of      *)
(* execute() it is in, and those of the calls that may follow.                 *)
CallSteps == 3 * max_retry + 6
StepsOfCall ==
    CASE pc = "execute" -> 3 * max_retry + 5
      [] pc = "check"   -> 3 * max_retry + 4
      [] pc = "found"   -> 1
      [] pc = "submit"  -> 3 * (max_retry - retry) + 3
      [] pc = "report"  -> 3 * (max_retry - retry) + 2
      [] pc = "next"    -> 3 * (max_retry - retry) + 1
StepsLeft ==
    IF pc \in HandlerEnded THEN 0
    ELSE IF pc = "fail" THEN 1
    ELSE 2 + (maxRetries - 1 - retryCount) * CallSteps + StepsOfCall

MaxSteps == 15 * max_retry + 31

(* The steps of the calls that may follow, with each number of calls.          *)
LEMMA CallsLeft ==
    ASSUME NEW c \in 0..4
    PROVE  /\ (4 - c) * CallSteps \in 0..(12 * max_retry + 24)
           /\ c < 4 => (4 - c) * CallSteps = (4 - (c + 1)) * CallSteps + CallSteps
  <1>1. max_retry \in Nat /\ CallSteps = 3 * max_retry + 6
    BY SubmissionAssumption DEF CallSteps
  <1>2. CASE c = 0
    BY <1>1, <1>2
  <1>3. CASE c = 1
    BY <1>1, <1>3
  <1>4. CASE c = 2
    BY <1>1, <1>4
  <1>5. CASE c = 3
    BY <1>1, <1>5
  <1>6. CASE c = 4
    BY <1>1, <1>6
  <1> QED
    BY <1>2, <1>3, <1>4, <1>5, <1>6

(* What they are at each place of a handler at work.                           *)
LEMMA StepsAt ==
    ASSUME SubmissionTypeOK
    PROVE  /\ pc \in HandlerEnded => StepsLeft = 0
           /\ pc = "fail" => StepsLeft = 1
           /\ pc \in Working =>
                /\ StepsOfCall \in 1..(3 * max_retry + 5)
                /\ StepsLeft = 2 + (4 - retryCount) * CallSteps + StepsOfCall
                /\ (4 - retryCount) * CallSteps \in 0..(12 * max_retry + 24)
  <1>1. max_retry \in Nat /\ retry \in 0..max_retry /\ retryCount \in 0..4
    BY SubmissionAssumption DEF SubmissionTypeOK, maxRetries
  <1>2. pc \in HandlerEnded => StepsLeft = 0
    BY DEF StepsLeft
  <1>3. pc = "fail" => StepsLeft = 1
    BY DEF StepsLeft, HandlerEnded
  <1>4. ASSUME pc \in Working PROVE StepsOfCall \in 1..(3 * max_retry + 5)
    BY <1>1, <1>4 DEF StepsOfCall, Working
  <1>5. ASSUME pc \in Working PROVE StepsLeft = 2 + (4 - retryCount) * CallSteps + StepsOfCall
    <2>1. pc \notin HandlerEnded /\ pc # "fail"
      BY <1>5 DEF Working, HandlerEnded
    <2>2. maxRetries - 1 = 4
      BY DEF maxRetries
    <2> QED
      BY <2>1, <2>2 DEF StepsLeft
  <1>6. (4 - retryCount) * CallSteps \in 0..(12 * max_retry + 24)
    BY <1>1, CallsLeft
  <1> QED
    BY <1>2, <1>3, <1>4, <1>5, <1>6

(* There are never more than fifteen times max_retry, and thirty-one.          *)
LEMMA StepsBounded == ASSUME SubmissionTypeOK PROVE StepsLeft \in 0..MaxSteps
  <1>1. max_retry \in Nat
    BY SubmissionAssumption
  <1>2. CASE pc \in HandlerEnded \cup {"fail"}
    BY <1>1, <1>2, StepsAt DEF MaxSteps
  <1>3. CASE pc \in Working
    <2>1. PICK a \in 0..(12 * max_retry + 24), b \in 1..(3 * max_retry + 5) : StepsLeft = 2 + a + b
      BY <1>3, StepsAt
    <2> QED
      BY <1>1, <2>1 DEF MaxSteps
  <1> QED
    BY <1>2, <1>3 DEF SubmissionTypeOK, HandlerEnded, Working

(* An exception ends the call: the next one is one less, or none is made.      *)
LEMMA RaiseAdvances ==
    ASSUME SubmissionTypeOK, SubmissionTypeOK', pc \in Working, NEW again, Raise(again)
    PROVE  StepsLeft' < StepsLeft
  <1>1. max_retry \in Nat /\ retryCount \in 0..4
    BY SubmissionAssumption DEF SubmissionTypeOK, maxRetries
  <1>2. PICK a \in 0..(12 * max_retry + 24), b \in 1..(3 * max_retry + 5) :
          a = (4 - retryCount) * CallSteps /\ StepsLeft = 2 + a + b
    BY StepsAt
  <1>3. CASE pc' = "fail"
    <2>1. StepsLeft' = 1
      BY <1>3, StepsAt DEF StepsLeft, HandlerEnded
    <2> QED
      BY <1>1, <1>2, <2>1
  <1>4. CASE pc' = "execute" /\ retryCount' = retryCount + 1 /\ retryCount < 4
    <2>1. StepsOfCall' = 3 * max_retry + 5
      BY <1>4 DEF StepsOfCall
    <2>2. StepsLeft' = 2 + (4 - (retryCount + 1)) * CallSteps + (3 * max_retry + 5)
      <3>1. pc' \notin HandlerEnded /\ pc' # "fail" /\ maxRetries - 1 = 4 /\ CallSteps' = CallSteps
        BY <1>4 DEF HandlerEnded, maxRetries, CallSteps
      <3> QED
        BY <1>4, <2>1, <3>1 DEF StepsLeft
    <2>3. PICK d \in Int : d = (4 - (retryCount + 1)) * CallSteps
      BY <1>1 DEF CallSteps
    <2>4. a = d + 3 * max_retry + 6
      BY <1>1, <1>2, <1>4, <2>3, CallsLeft DEF CallSteps
    <2> QED
      BY <1>1, <1>2, <2>2, <2>3, <2>4
  <1> QED
    BY <1>1, <1>3, <1>4 DEF Raise, maxRetries

(* A step within the call leaves less of it.                                   *)
LEMMA CallAdvances ==
    ASSUME SubmissionTypeOK, pc \in Working, pc' \in Working, UNCHANGED retryCount,
           StepsOfCall' \in Nat, StepsOfCall' < StepsOfCall
    PROVE  StepsLeft' < StepsLeft
  <1>1. PICK a \in 0..(12 * max_retry + 24), b \in 1..(3 * max_retry + 5) :
          a = (4 - retryCount) * CallSteps /\ b = StepsOfCall /\ StepsLeft = 2 + a + b
    BY StepsAt
  <1>2. StepsLeft' = 2 + a + StepsOfCall'
    <2>1. pc' \notin HandlerEnded /\ pc' # "fail" /\ maxRetries - 1 = 4 /\ CallSteps' = CallSteps
      BY DEF HandlerEnded, Working, maxRetries, CallSteps
    <2> QED
      BY <1>1, <2>1 DEF StepsLeft
  <1> QED
    BY <1>1, <1>2, SubmissionAssumption

(* The last step of a handler.                                                 *)
LEMMA EndAdvances ==
    ASSUME SubmissionTypeOK, pc \in Working \cup {"fail"}, pc' \in HandlerEnded
    PROVE  StepsLeft' < StepsLeft
  <1>1. StepsLeft' = 0
    BY DEF StepsLeft
  <1>2. CASE pc = "fail"
    BY <1>1, <1>2, StepsAt
  <1>3. CASE pc \in Working
    <2>1. PICK a \in 0..(12 * max_retry + 24), b \in 1..(3 * max_retry + 5) : StepsLeft = 2 + a + b
      BY <1>3, StepsAt
    <2> QED
      BY <1>1, <2>1, SubmissionAssumption
  <1> QED
    BY <1>2, <1>3

(* Each step of a handler is one less.                                         *)
LEMMA HandlerStep ==
    ASSUME SubmissionInv, SubmissionTypeOK', Handler
    PROVE  StepsLeft' < StepsLeft
  <1>1. SubmissionTypeOK /\ max_retry \in Nat /\ retry \in 0..max_retry
    BY SubmissionAssumption DEF SubmissionInv, SubmissionTypeOK
  <1>2. CASE Execute
    <2>1. pc = "execute" /\ (Raise(FALSE) \/ (pc' = "check" /\ UNCHANGED retryCount))
      BY <1>2 DEF Execute, PickAndSetSchedd, SendScheddToREST
    <2>2. CASE Raise(FALSE)
      BY <1>1, <2>1, <2>2, RaiseAdvances DEF Working
    <2>3. CASE pc' = "check" /\ UNCHANGED retryCount
      <3>1. StepsOfCall = 3 * max_retry + 5 /\ StepsOfCall' = 3 * max_retry + 4
        BY <2>1, <2>3 DEF StepsOfCall
      <3> QED
        BY <1>1, <2>1, <2>3, <3>1, CallAdvances DEF Working
    <2> QED
      BY <2>1, <2>2, <2>3
  <1>3. CASE DuplicateCheck
    <2>1. /\ pc = "check"
          /\ \/ Raise(TRUE) \/ Raise(FALSE)
             \/ pc' = "submit" /\ retry' = 0 /\ UNCHANGED retryCount
             \/ pc' = "found" /\ UNCHANGED retryCount
      BY <1>3 DEF DuplicateCheck
    <2>2. CASE Raise(TRUE) \/ Raise(FALSE)
      BY <1>1, <2>1, <2>2, RaiseAdvances DEF Working
    <2>3. CASE pc' = "submit" /\ retry' = 0 /\ UNCHANGED retryCount
      <3>1. StepsOfCall = 3 * max_retry + 4 /\ StepsOfCall' = 3 * (max_retry - 0) + 3
        BY <2>1, <2>3 DEF StepsOfCall
      <3> QED
        BY <1>1, <2>1, <2>3, <3>1, CallAdvances DEF Working
    <2>4. CASE pc' = "found" /\ UNCHANGED retryCount
      <3>1. StepsOfCall = 3 * max_retry + 4 /\ StepsOfCall' = 1
        BY <2>1, <2>4 DEF StepsOfCall
      <3> QED
        BY <1>1, <2>1, <2>4, <3>1, CallAdvances DEF Working
    <2> QED
      BY <2>1, <2>2, <2>3, <2>4
  <1>4. CASE ReportDuplicate
    <2>1. pc = "found" /\ (pc' = "done" \/ Raise(FALSE))
      BY <1>4 DEF ReportDuplicate
    <2>2. CASE pc' = "done"
      BY <1>1, <2>1, <2>2, EndAdvances DEF Working, HandlerEnded
    <2>3. CASE Raise(FALSE)
      BY <1>1, <2>1, <2>3, RaiseAdvances DEF Working
    <2> QED
      BY <2>1, <2>2, <2>3
  <1>5. CASE SubmitDirect
    <2>1. pc = "submit" /\ pc' \in {"report", "next"} /\ UNCHANGED <<retry, retryCount>>
      BY <1>5 DEF SubmitDirect, AfterCleanup, handler
    <2>2. /\ StepsOfCall = 3 * (max_retry - retry) + 3
          /\ StepsOfCall' \in {3 * (max_retry - retry) + 2, 3 * (max_retry - retry) + 1}
      BY <2>1 DEF StepsOfCall
    <2> QED
      BY <1>1, <2>1, <2>2, CallAdvances DEF Working
  <1>6. CASE ReportSuccess
    <2>1. pc = "report" /\ pc' \in {"done", "next"} /\ UNCHANGED <<retry, retryCount>>
      BY <1>6 DEF ReportSuccess, handler
    <2>2. CASE pc' = "done"
      BY <1>1, <2>1, <2>2, EndAdvances DEF Working, HandlerEnded
    <2>3. CASE pc' = "next"
      <3>1. StepsOfCall = 3 * (max_retry - retry) + 2 /\ StepsOfCall' = 3 * (max_retry - retry) + 1
        BY <2>1, <2>3 DEF StepsOfCall
      <3> QED
        BY <1>1, <2>1, <2>3, <3>1, CallAdvances DEF Working
    <2> QED
      BY <2>1, <2>2, <2>3
  <1>7. CASE NextTry
    <2>1. /\ pc = "next"
          /\ \/ retry < max_retry /\ retry' = retry + 1 /\ pc' = "submit" /\ UNCHANGED retryCount
             \/ Raise(FALSE) \/ Raise(TRUE)
      BY <1>7 DEF NextTry, PickAndSetSchedd, SendScheddToREST
    <2>2. CASE Raise(TRUE) \/ Raise(FALSE)
      BY <1>1, <2>1, <2>2, RaiseAdvances DEF Working
    <2>3. CASE retry < max_retry /\ retry' = retry + 1 /\ pc' = "submit" /\ UNCHANGED retryCount
      <3>1. StepsOfCall = 3 * (max_retry - retry) + 1 /\ StepsOfCall' = 3 * (max_retry - (retry + 1)) + 3
        BY <2>1, <2>3 DEF StepsOfCall
      <3> QED
        BY <1>1, <2>1, <2>3, <3>1, CallAdvances DEF Working
    <2> QED
      BY <2>1, <2>2, <2>3
  <1>8. CASE FailTask
    BY <1>1, <1>8, EndAdvances DEF FailTask, HandlerEnded
  <1> QED
    BY <1>2, <1>3, <1>4, <1>5, <1>6, <1>7, <1>8 DEF Handler

(* Whatever fails, a handler takes no more than MaxSteps steps until it ends:  *)
(* each one leaves fewer (the retries of Handler.actionWork times the tries of *)
(* DagmanSubmitter.execute). That it does take them is its fairness, so that   *)
(* this is the part of SubmissionEnds that is about the code.                  *)
THEOREM HandlerAdvances ==
    SubmissionSpec => [](StepsLeft \in 0..MaxSteps) /\ [][Handler => StepsLeft' < StepsLeft]_submissionVars
  <1>1. SubmissionInv => StepsLeft \in 0..MaxSteps
    BY StepsBounded DEF SubmissionInv
  <1>2. SubmissionInv /\ SubmissionInv' => [Handler => StepsLeft' < StepsLeft]_submissionVars
    BY HandlerStep DEF SubmissionInv
  <1> QED
    BY <1>1, <1>2, SubmissionInvariance, PTL

-------------------------------------------------------------------------------
(* Automatic splitting: what the proofs say of it.                             *)

(* The last tail waits for all jobs. The default, and what the code is meant   *)
(* for: with another configuration what the jobs after it leave is in no tail. *)
LastTrigger == Triggers[Len(Triggers)] = 100

(* The processing jobs of RunJobs0.subdag.                                     *)
Made == {j \in Processing : node[j] # "none"}

(* The jobs that a tail has dealt with, on file or about to be.                *)
Dealt == processed \cup (IF predag.at = "save" THEN predag.unprocessed ELSE {})

(* The post-job of a good run has saved its throughput.                        *)
Saved == \A j \in Jobs : node[j] \in {"post", "finished"} => j \in throughputs

(* A subdag is submitted before its tails are due, and nothing is before that. *)
DagOK ==
    /\ waves = <<>> => /\ Made = {}
                       /\ \A n \in 1..Len(Triggers) : pre[n] = "none" /\ given[n] = {}
    /\ waves # <<>> => LumisOf(Processing) \ LumisOf(Made) \subseteq skipped
    /\ \A n \in 1..Len(Triggers) : pre[n] # "none" => n <= Len(waves)
    /\ pre[0] = "done" => waves # <<>>

(* The PreDAG at work is that of a node that waits, on jobs that have ended.   *)
PreDAGOK ==
    /\ predag.at = "none" => predag = NoPreDAG
    /\ predag.at # "none" => predag.n \in 0..Len(Triggers) /\ pre[predag.n] = "waiting"
    /\ predag.at \in {"submit", "save"} => predag.unprocessed \subseteq cached \cap Stage(predag.n)
    /\ predag.at = "submit" /\ predag.n > 0 =>
        /\ predag.lumis \subseteq AdjustLumisForCompletion(predag.unprocessed)
        /\ predag.unprocessed \cap processed = {}
    /\ predag.at = "save" /\ predag.n = 0 => waves # <<>>

(* The last tail finds all the processing jobs ended, and deals with them.     *)
LastWave ==
    LastTrigger /\ waves # <<>> =>
        /\ waves[Len(waves)] = Cardinality(Made)
        /\ predag.n = Len(waves) /\ predag.at = "plan" => Made \subseteq predag.status
        /\ predag.n = Len(waves) /\ predag.at \in {"submit", "save"} =>
            Made \subseteq processed \cup predag.unprocessed
        /\ pre[Len(waves)] = "done" => Made \subseteq processed

(* Unless a PreDAG was cut after its submission, a node that waits has not     *)
(* submitted anything,                                                         *)
Waiting ==
    ~cut =>
        /\ pre[0] = "waiting" /\ ~(predag.n = 0 /\ predag.at = "save") => waves = <<>>
        /\ \A n \in 1..Len(Triggers) :
            given[n] # {} => pre[n] = "done" \/ (predag.n = n /\ predag.at = "save")

(* and the tails are what the jobs dealt with have left.                       *)
TakenOver == AdjustLumisForCompletion(Dealt)
InputTakenOver == AdjustLumisForCompletion(Dealt \cap Processing)
Accounted ==
    ~cut =>
        /\ \A n \in 1..Len(Triggers) : given[n] \subseteq TakenOver
        /\ InputTakenOver \subseteq Tails \cup skipped
        /\ \A n, m \in 1..Len(Triggers) : n # m => given[n] \cap given[m] = {}

IInv == TypeOK /\ Saved /\ DagOK /\ PreDAGOK /\ LastWave /\ Waiting /\ Accounted

-------------------------------------------------------------------------------
(* Lemmas about the lumis that a tail takes over.                              *)

(* A lumi is taken over from a job that failed, or that had no time for it.    *)
LEMMA AdjustElement ==
    ASSUME NEW U, NEW j, NEW k
    PROVE  <<j, k>> \in AdjustLumisForCompletion(U) <=>
                /\ j \in U
                /\ \/ k = "late" /\ j \in missing
                   \/ k \in {"early", "late"} /\ node[j] = "failed"
  BY DEF AdjustLumisForCompletion, LumisOf, FailedJobs

(* What is taken over are lumis of the jobs dealt with.                        *)
LEMMA AdjustPairs ==
    ASSUME NEW U, NEW x \in AdjustLumisForCompletion(U)
    PROVE  \E j \in U, k \in {"early", "late"} : x = <<j, k>>
  BY DEF AdjustLumisForCompletion, LumisOf, FailedJobs

(* To deal with some jobs and with others is to deal with all of them.         *)
LEMMA AdjustUnion ==
    ASSUME NEW A, NEW B
    PROVE  AdjustLumisForCompletion(A \cup B)
                = AdjustLumisForCompletion(A) \cup AdjustLumisForCompletion(B)
  BY DEF AdjustLumisForCompletion, LumisOf, FailedJobs

(* Two tails that deal with different jobs take over different lumis.          *)
LEMMA AdjustDisjoint ==
    ASSUME NEW A, NEW B, A \cap B = {}
    PROVE  AdjustLumisForCompletion(A) \cap AdjustLumisForCompletion(B) = {}
  <1> SUFFICES ASSUME NEW x \in AdjustLumisForCompletion(A), x \in AdjustLumisForCompletion(B)
               PROVE  FALSE
    OBVIOUS
  <1>1. PICK j \in A, k \in {"early", "late"} : x = <<j, k>>
    BY AdjustPairs
  <1>2. j \in B
    BY <1>1, AdjustElement
  <1> QED
    BY <1>1, <1>2

(* No lumi that is taken over is in the output of its job.                     *)
LEMMA AdjustDelivered ==
    ASSUME NEW U
    PROVE  AdjustLumisForCompletion(U) \cap Delivered = {}
  <1> SUFFICES ASSUME NEW x \in AdjustLumisForCompletion(U), x \in Delivered
               PROVE  FALSE
    OBVIOUS
  <1>1. PICK j \in U, k \in {"early", "late"} : x = <<j, k>>
    BY AdjustPairs
  <1>2. node[j] = "finished" /\ (k = "late" => j \notin missing)
    BY <1>1 DEF Delivered
  <1>3. \/ k = "late" /\ j \in missing
        \/ node[j] = "failed"
    BY <1>1, AdjustElement
  <1> QED
    BY <1>2, <1>3

(* Each lumi of a job that has ended is in its output or is taken over.        *)
LEMMA AdjustComplete ==
    ASSUME NEW U, NEW j \in U, j \in Processing, j \in Ended, NEW k \in {"early", "late"}
    PROVE  <<j, k>> \in Delivered \cup AdjustLumisForCompletion(U)
  <1>1. CASE node[j] = "failed"
    BY <1>1, AdjustElement
  <1>2. CASE node[j] = "finished"
    <2>1. CASE k = "late" /\ j \in missing
      BY <2>1, AdjustElement
    <2>2. CASE ~(k = "late" /\ j \in missing)
      BY <1>2, <2>2 DEF Delivered
    <2> QED
      BY <2>1, <2>2
  <1> QED
    BY <1>1, <1>2 DEF Ended

-------------------------------------------------------------------------------
(* Steps that do not deal with jobs.                                           *)

(* What has been dealt with has ended.                                         *)
LEMMA DealtEnded == IInv => Dealt \subseteq cached /\ cached \subseteq Ended
  BY DEF IInv, TypeOK, PreDAGOK, Dealt

(* What the jobs that have ended leave does not change.                        *)
Stable == \A j \in Ended : node'[j] = node[j] /\ (j \in missing' <=> j \in missing)

(* What is taken over is the same while no job is dealt with,                  *)
LEMMA TakenOverSame ==
    ASSUME IInv, Stable, Dealt' = Dealt
    PROVE  TakenOver' = TakenOver /\ InputTakenOver' = InputTakenOver
  <1>1. Dealt \subseteq Ended
    BY DealtEnded
  <1>2. FailedJobs(Dealt)' = FailedJobs(Dealt)
    BY <1>1 DEF FailedJobs, Stable
  <1>3. missing' \cap Dealt' = missing \cap Dealt
    BY <1>1 DEF Stable
  <1>4. FailedJobs(Dealt \cap Processing)' = FailedJobs(Dealt \cap Processing)
    BY <1>1 DEF FailedJobs, Stable
  <1>5. missing' \cap (Dealt \cap Processing)' = missing \cap (Dealt \cap Processing)
    BY <1>3
  <1> QED
    BY <1>2, <1>3, <1>4, <1>5 DEF TakenOver, InputTakenOver, AdjustLumisForCompletion, LumisOf

(* and so the tails still account for it.                                      *)
LEMMA AccountedSame ==
    ASSUME IInv, Stable, Dealt' = Dealt, UNCHANGED <<given, skipped, cut>>
    PROVE  Accounted'
  <1>1. TakenOver' = TakenOver /\ InputTakenOver' = InputTakenOver
    BY TakenOverSame
  <1> QED
    BY <1>1 DEF IInv, Accounted, Tails

(* A job ends, or its post-job goes on.                                        *)
LEMMA JobStep ==
    ASSUME IInv, NEW j \in Jobs, node[j] \in {"run", "post"}, NEW v \in {"post", "finished", "failed"},
           node' = [node EXCEPT ![j] = v],
           throughputs \subseteq throughputs', throughputs' \subseteq Jobs,
           v # "failed" => j \in throughputs',
           missing' \subseteq Processing, \A i \in Jobs \ {j} : i \in missing' <=> i \in missing,
           UNCHANGED <<cached, dagVars, predag, fileVars, given, history>>
    PROVE  IInv'
  <1>1. /\ node \in [Jobs -> {"none", "run", "post", "finished", "failed"}]
        /\ cached \subseteq Ended
    BY DEF IInv, TypeOK
  <1>2. /\ node' \in [Jobs -> {"none", "run", "post", "finished", "failed"}]
        /\ node'[j] = v /\ \A i \in Jobs \ {j} : node'[i] = node[i]
    BY <1>1
  <1>3. Ended \subseteq Ended' /\ Stable
    BY <1>2 DEF Ended, Stable
  <1>4. Made' = Made
    BY <1>2 DEF Made, Jobs
  <1>5. TypeOK'
    BY <1>1, <1>2, <1>3 DEF IInv, TypeOK, PreDAGType, dagVars, fileVars, history
  <1>6. Saved'
    BY <1>2 DEF IInv, Saved
  <1>7. DagOK' /\ LastWave' /\ Waiting'
    BY <1>4 DEF IInv, DagOK, LastWave, Waiting, dagVars, history, fileVars
  <1>8. PreDAGOK'
    <2>1. predag.at = "submit" =>
            AdjustLumisForCompletion(predag.unprocessed)'
                = AdjustLumisForCompletion(predag.unprocessed)
      <3> SUFFICES ASSUME predag.at = "submit"
                   PROVE  AdjustLumisForCompletion(predag.unprocessed)'
                            = AdjustLumisForCompletion(predag.unprocessed)
        OBVIOUS
      <3>1. predag.unprocessed \subseteq Ended
        BY DEF IInv, TypeOK, PreDAGOK
      <3>2. FailedJobs(predag.unprocessed)' = FailedJobs(predag.unprocessed)
        BY <1>3, <3>1 DEF FailedJobs, Stable
      <3>3. missing' \cap predag.unprocessed' = missing \cap predag.unprocessed
        BY <1>3, <3>1 DEF Stable
      <3> QED
        BY <3>2, <3>3 DEF AdjustLumisForCompletion, LumisOf
    <2> QED
      BY <2>1 DEF IInv, PreDAGOK, dagVars, fileVars, Stage
  <1>9. Accounted'
    BY <1>3, AccountedSame DEF Dealt, fileVars, history
  <1> QED
    BY <1>5, <1>6, <1>7, <1>8, <1>9 DEF IInv
-------------------------------------------------------------------------------
(* The actions keep the inductive invariant.                                   *)

(* Nothing is submitted and nothing is known.                                  *)
LEMMA InvInit == Init => IInv
  <1> SUFFICES ASSUME Init
               PROVE  IInv
    OBVIOUS
  <1> USE SplittingAssumption
  <1>1. predag = NoPreDAG /\ waves = <<>> /\ processed = {} /\ Ended = {} /\ Made = {}
    BY DEF Init, Ended, Made, Jobs
  <1>2. NoPreDAG \in PreDAGType
    BY DEF NoPreDAG, PreDAGType
  <1>3. TypeOK
    <2>1. node \in [Jobs -> {"none", "run", "post", "finished", "failed"}]
      BY DEF Init
    <2>2. waves \in Seq(Nat) /\ Len(waves) <= Len(Triggers)
      BY <1>1
    <2>3. /\ pre \in [0..Len(Triggers) -> {"none", "waiting", "done", "failed"}]
          /\ given \in [1..Len(Triggers) -> SUBSET LumisOf(Processing)]
      BY DEF Init
    <2>4. predag \in PreDAGType /\ predag.status \subseteq cached
      BY <1>1, <1>2 DEF NoPreDAG
    <2>5. throughputs \subseteq Jobs /\ missing \subseteq Processing /\ cached \subseteq Ended
      BY DEF Init
    <2>6. processed \subseteq cached /\ torn \in BOOLEAN /\ skipped \subseteq LumisOf(Processing)
      BY DEF Init
    <2>7. cut = FALSE /\ restarts = 0 /\ 0 \in 0..MaxRestarts
      BY DEF Init
    <2> QED
      BY <2>1, <2>2, <2>3, <2>4, <2>5, <2>6, <2>7 DEF TypeOK
  <1>4. Saved
    BY DEF Init, Saved
  <1>5. DagOK /\ PreDAGOK /\ LastWave /\ Waiting
    BY <1>1 DEF Init, DagOK, PreDAGOK, LastWave, Waiting, NoPreDAG
  <1>6. Dealt = {}
    BY <1>1 DEF Dealt, NoPreDAG
  <1>7. Accounted
    BY <1>6 DEF Init, Accounted, TakenOver, InputTakenOver, AdjustLumisForCompletion, FailedJobs, LumisOf
  <1> QED
    BY <1>3, <1>4, <1>5, <1>7 DEF IInv

(* A job of the DAG, and its post-job.                                         *)
LEMMA InvJob ==
    ASSUME IInv, NEW j \in Jobs, Job(j)
    PROVE  IInv'
  <1>0. throughputs \subseteq Jobs /\ missing \subseteq Processing
    BY DEF IInv, TypeOK
  <1>1. CASE JobFails(j)
    BY <1>0, <1>1, JobStep DEF JobFails
  <1>2. CASE SaveAutomaticSplittingData(j)
    <2>1. missing' \subseteq Processing /\ \A i \in Jobs \ {j} : i \in missing' <=> i \in missing
      BY <1>0, <1>2 DEF SaveAutomaticSplittingData
    <2>2. throughputs' = throughputs \cup {j}
      BY <1>2 DEF SaveAutomaticSplittingData
    <2> QED
      BY <1>0, <1>2, <2>1, <2>2, JobStep DEF SaveAutomaticSplittingData
  <1>3. CASE PostJobEnds(j)
    <2>1. PICK v \in {"finished", "failed"} : node' = [node EXCEPT ![j] = v]
      BY <1>3 DEF PostJobEnds
    <2>2. j \in throughputs
      BY <1>3 DEF PostJobEnds, IInv, Saved
    <2>3. UNCHANGED <<throughputs, missing, cached, dagVars, predag, fileVars, given, history>>
      BY <1>3 DEF PostJobEnds
    <2>4. node[j] = "post"
      BY <1>3 DEF PostJobEnds
    <2> QED
      BY <1>0, <2>1, <2>2, <2>3, <2>4, JobStep
  <1> QED
    BY <1>1, <1>2, <1>3 DEF Job

(* Some jobs become known to have ended.                                       *)
LEMMA InvCacheStatus ==
    ASSUME IInv, CacheStatus
    PROVE  IInv'
  <1>1. /\ UNCHANGED <<node, throughputs, missing, waves, pre, predag, processed, torn, given,
                       skipped, cut, restarts>>
        /\ cached \subseteq cached' /\ cached' \subseteq Ended
    BY DEF CacheStatus, IInv, TypeOK, jobVars, dagVars, fileVars, history
  <1>2. Stable /\ Dealt' = Dealt /\ Made' = Made /\ Ended' = Ended
    BY <1>1 DEF Stable, Dealt, Made, Ended
  <1>3. TypeOK'
    BY <1>1, <1>2 DEF IInv, TypeOK
  <1>4. Saved' /\ DagOK' /\ LastWave' /\ Waiting'
    BY <1>1, <1>2 DEF IInv, Saved, DagOK, LastWave, Waiting
  <1>5. PreDAGOK'
    BY <1>1 DEF IInv, PreDAGOK, AdjustLumisForCompletion, FailedJobs
  <1>6. Accounted'
    BY <1>1, <1>2, AccountedSame
  <1> QED
    BY <1>3, <1>4, <1>5, <1>6 DEF IInv

(* The threshold of the last tail is that all the processing jobs are known.   *)
LEMMA LastThreshold ==
    ASSUME IInv, LastTrigger, waves # <<>>, 
           Cardinality(CompletedJobs(Len(waves), cached)) >= Completion(Len(waves))
    PROVE  Made \subseteq cached
  <1>1. Len(waves) \in Nat \ {0}
    BY DEF IInv, TypeOK
  <1>2. CompletedJobs(Len(waves), cached) = cached \cap Processing
    BY <1>1 DEF CompletedJobs, Stage
  <1>3. Completion(Len(waves)) = Cardinality(Made)
    BY <1>1 DEF Completion, IInv, LastWave
  <1>4. IsFiniteSet(Made)
    BY SplittingAssumption, FS_Subset DEF Made
  <1>5. cached \cap Processing \subseteq Made
    BY DEF IInv, TypeOK, Ended, Made
  <1>6. /\ Cardinality(cached \cap Processing) <= Cardinality(Made)
        /\ Cardinality(cached \cap Processing) = Cardinality(Made) => cached \cap Processing = Made
    BY <1>4, <1>5, FS_Subset
  <1>7. Cardinality(Made) \in Nat /\ Cardinality(cached \cap Processing) \in Nat
    BY <1>4, <1>5, FS_Subset, FS_CardinalityType
  <1>8. Cardinality(cached \cap Processing) >= Cardinality(Made)
    BY <1>2, <1>3
  <1> QED
    BY <1>6, <1>7, <1>8

(* PreDAG takes the lock and reads the status.                                 *)
LEMMA InvEnter ==
    ASSUME IInv, NEW n \in DOMAIN pre, Enter(n)
    PROVE  IInv'
  <1>0. n \in 0..Len(Triggers) /\ pre[n] = "waiting" /\ Len(Triggers) \in Nat
    BY SplittingAssumption DEF Enter, IInv, TypeOK
  <1>1. UNCHANGED <<node, throughputs, missing, cached, waves, pre, processed, torn, given,
                    skipped, cut, restarts>>
    BY DEF Enter, jobVars, dagVars, fileVars, history
  <1>2. /\ predag = NoPreDAG /\ predag.at = "none"
        /\ predag' = [n |-> n, at |-> "plan", status |-> cached, unprocessed |-> {}, lumis |-> {}]
    BY DEF Enter, NoPreDAG
  <1>3. predag'.n = n /\ predag'.at = "plan" /\ predag'.status = cached
    BY <1>2
  <1>4. Stable /\ Dealt' = Dealt /\ Made' = Made /\ Ended' = Ended
    BY <1>1, <1>2, <1>3 DEF Stable, Dealt, Made, Ended
  <1>5. TypeOK'
    <2>1. cached \subseteq Jobs
      BY DEF IInv, TypeOK, Ended
    <2>2. predag' \in PreDAGType
      BY <1>0, <1>2, <2>1 DEF PreDAGType
    <2> QED
      BY <1>1, <1>3, <1>4, <2>2 DEF IInv, TypeOK
  <1>6. Saved' /\ DagOK'
    BY <1>1, <1>4 DEF IInv, Saved, DagOK
  <1>7. PreDAGOK'
    BY <1>0, <1>1, <1>3 DEF PreDAGOK
  <1>8. LastWave'
    <2>1. LastTrigger /\ waves # <<>> /\ n = Len(waves) => Made \subseteq cached
      BY LastThreshold DEF Enter
    <2> QED
      BY <1>1, <1>3, <1>4, <2>1 DEF IInv, LastWave
  <1>9. Waiting'
    BY <1>1, <1>2, <1>3 DEF IInv, Waiting
  <1>10. Accounted'
    BY <1>1, <1>4, AccountedSame
  <1> QED
    BY <1>5, <1>6, <1>7, <1>8, <1>9, <1>10 DEF IInv

(* The script fails before anything is submitted.                              *)
LEMMA FailStep ==
    ASSUME IInv, NEW n \in DOMAIN pre, predag.n = n, predag.at \in {"plan", "submit"},
           Leave(n, "failed"),
           UNCHANGED <<jobVars, cached, waves, fileVars, given, history>>
    PROVE  IInv'
  <1>0. n \in 0..Len(Triggers) /\ pre[n] = "waiting" /\ Len(Triggers) \in Nat
    BY SplittingAssumption DEF IInv, TypeOK, PreDAGOK
  <1>1. UNCHANGED <<node, throughputs, missing, cached, waves, processed, torn, given,
                    skipped, cut, restarts>>
    BY DEF jobVars, fileVars, history
  <1>2. predag' = NoPreDAG /\ pre' = [pre EXCEPT ![n] = "failed"]
    BY DEF Leave
  <1>3. predag'.n = -1 /\ predag'.at = "none" /\ predag'.status = {} /\ predag' \in PreDAGType
    BY <1>0, <1>2 DEF NoPreDAG, PreDAGType
  <1>4. /\ pre' \in [0..Len(Triggers) -> {"none", "waiting", "done", "failed"}]
        /\ pre'[n] = "failed" /\ \A m \in (0..Len(Triggers)) \ {n} : pre'[m] = pre[m]
    BY <1>0, <1>2 DEF IInv, TypeOK
  <1>5. Stable /\ Dealt' = Dealt /\ Made' = Made /\ Ended' = Ended
    BY <1>1, <1>3 DEF Stable, Dealt, Made, Ended
  <1>6. TypeOK'
    BY <1>1, <1>3, <1>4, <1>5 DEF IInv, TypeOK
  <1>7. Saved'
    BY <1>1 DEF IInv, Saved
  <1>8. DagOK'
    BY <1>0, <1>1, <1>4, <1>5 DEF IInv, DagOK
  <1>9. PreDAGOK'
    BY <1>2, <1>3 DEF PreDAGOK
  <1>10. LastWave'
    <2>1. waves # <<>> => Len(waves) \in 0..Len(Triggers) /\ Len(waves) # -1
      BY DEF IInv, TypeOK
    <2> QED
      BY <1>1, <1>3, <1>4, <1>5, <2>1 DEF IInv, LastWave
  <1>11. Waiting'
    <2>1. 0 \in 0..Len(Triggers)
      BY <1>0
    <2>2. ~cut /\ pre'[0] = "waiting" => waves = <<>>
      BY <1>4, <2>1 DEF IInv, Waiting
    <2>3. ~cut => \A m \in 1..Len(Triggers) : given[m] # {} => pre'[m] = "done"
      BY <1>0, <1>4 DEF IInv, Waiting
    <2> QED
      BY <1>1, <2>2, <2>3 DEF Waiting
  <1>12. Accounted'
    BY <1>1, <1>5, AccountedSame
  <1> QED
    BY <1>6, <1>7, <1>8, <1>9, <1>10, <1>11, <1>12 DEF IInv

(* What a tail has not dealt with before, and for the last tail, all the rest. *)
LEMMA UnprocessedOK ==
    ASSUME IInv, predag.at = "plan", NEW n, predag.n = n, NEW U, U = Unprocessed(n, predag.status)
    PROVE  /\ U \subseteq cached \cap Stage(n) /\ U \cap processed = {}
           /\ LastTrigger /\ waves # <<>> /\ n = Len(waves) => Made \subseteq processed \cup U
  <1>1. U = (predag.status \cap Stage(n)) \ processed
    BY DEF Unprocessed, CompletedJobs
  <1>2. predag.status \subseteq cached
    BY DEF IInv, TypeOK
  <1>3. ASSUME LastTrigger, waves # <<>>, n = Len(waves)
        PROVE  Made \subseteq processed \cup U
    <2>1. Made \subseteq predag.status
      BY <1>3 DEF IInv, LastWave
    <2>2. Stage(n) = Processing
      BY <1>3 DEF Stage, IInv, TypeOK
    <2> QED
      BY <1>1, <2>1, <2>2 DEF Made
  <1> QED
    BY <1>1, <1>2, <1>3

(* The jobs dealt with have left nothing.                                      *)
LEMMA InvNothingToProcess ==
    ASSUME IInv, NEW n \in DOMAIN pre, NothingToProcess(n)
    PROVE  IInv'
  <1> DEFINE U == Unprocessed(n, predag.status)
  <1>0. n \in 1..Len(Triggers) /\ pre[n] = "waiting" /\ Len(Triggers) \in Nat
    BY SplittingAssumption DEF IInv, TypeOK, PreDAGOK, NothingToProcess
  <1>1. UNCHANGED <<node, throughputs, missing, cached, waves, pre, processed, torn, given,
                    skipped, cut, restarts>>
    BY DEF NothingToProcess, jobVars, dagVars, fileVars, history
  <1>2. /\ predag.n = n /\ predag.at = "plan" /\ AdjustLumisForCompletion(U) = {}
        /\ predag' = [predag EXCEPT !.at = "save", !.status = {}, !.unprocessed = U]
        /\ predag \in PreDAGType
    BY DEF NothingToProcess, IInv, TypeOK
  <1>3. /\ U \subseteq cached \cap Stage(n) /\ U \cap processed = {}
        /\ LastTrigger /\ waves # <<>> /\ n = Len(waves) => Made \subseteq processed \cup U
    BY <1>2, UnprocessedOK
  <1>4. cached \subseteq Jobs
    BY DEF IInv, TypeOK, Ended
  <1> HIDE DEF U
  <1>5. /\ predag'.n = n /\ predag'.at = "save" /\ predag'.status = {} /\ predag'.unprocessed = U
        /\ predag' \in PreDAGType
    BY <1>2, <1>3, <1>4 DEF PreDAGType
  <1>6. Stable /\ Made' = Made /\ Ended' = Ended
    BY <1>1 DEF Stable, Made, Ended
  <1>7. TypeOK'
    BY <1>1, <1>5, <1>6 DEF IInv, TypeOK
  <1>8. Saved' /\ DagOK'
    BY <1>1, <1>6 DEF IInv, Saved, DagOK
  <1>9. PreDAGOK'
    BY <1>0, <1>1, <1>3, <1>5 DEF PreDAGOK, Stage
  <1>10. LastWave'
    BY <1>1, <1>3, <1>5, <1>6 DEF IInv, LastWave
  <1>11. Waiting'
    BY <1>0, <1>1, <1>2, <1>5 DEF IInv, Waiting
  <1>12. Accounted'
    <2>1. Dealt = processed /\ Dealt' = Dealt \cup U
      BY <1>1, <1>2, <1>5 DEF Dealt
    <2>3. TakenOver' = AdjustLumisForCompletion(Dealt \cup U)
      BY <1>1, <2>1 DEF TakenOver, AdjustLumisForCompletion, FailedJobs
    <2>4. InputTakenOver' = AdjustLumisForCompletion((Dealt \cap Processing) \cup (U \cap Processing))
      BY <1>1, <2>1 DEF InputTakenOver, AdjustLumisForCompletion, FailedJobs, LumisOf
    <2>5. AdjustLumisForCompletion(U \cap Processing) = {}
      BY <1>2 DEF AdjustLumisForCompletion, FailedJobs, LumisOf
    <2>6. TakenOver \subseteq TakenOver'
      BY <2>3, AdjustUnion DEF TakenOver
    <2>7. InputTakenOver' = InputTakenOver
      BY <2>4, <2>5, AdjustUnion DEF InputTakenOver
    <2> QED
      BY <1>1, <2>6, <2>7 DEF IInv, Accounted, Tails
  <1> QED
    BY <1>7, <1>8, <1>9, <1>10, <1>11, <1>12 DEF IInv

(* What they have left is the input of the tail that is to be submitted.       *)
LEMMA InvCreateSubdag ==
    ASSUME IInv, NEW n \in DOMAIN pre, CreateSubdag(n)
    PROVE  IInv'
  <1> DEFINE U == Unprocessed(n, predag.status)
             wanted == IF n = 0 THEN LumisOf(Processing) ELSE AdjustLumisForCompletion(U)
  <1>0. n \in 0..Len(Triggers) /\ pre[n] = "waiting" /\ Len(Triggers) \in Nat
    BY SplittingAssumption DEF IInv, TypeOK, PreDAGOK, CreateSubdag
  <1>1. UNCHANGED <<node, throughputs, missing, cached, waves, pre, processed, torn, given,
                    skipped, cut, restarts>>
    BY DEF CreateSubdag, jobVars, dagVars, fileVars, history
  <1>2. predag.n = n /\ predag.at = "plan" /\ predag \in PreDAGType
    BY DEF CreateSubdag, IInv, TypeOK
  <1>3. PICK J \in SUBSET Unplaced :
            predag' = [predag EXCEPT !.at = "submit", !.status = {}, !.unprocessed = U,
                                     !.lumis = wanted \ LumisOf(J)]
    BY DEF CreateSubdag
  <1>4. /\ U \subseteq cached \cap Stage(n) /\ U \cap processed = {}
        /\ LastTrigger /\ waves # <<>> /\ n = Len(waves) => Made \subseteq processed \cup U
    BY <1>2, UnprocessedOK
  <1>5. cached \subseteq Jobs
    BY DEF IInv, TypeOK, Ended
  <1>6. wanted \subseteq LumisOf(Processing)
    <2>1. CASE n = 0
      BY <2>1
    <2>2. CASE n # 0
      <3>1. U \subseteq Processing
        BY <1>4, <2>2 DEF Stage
      <3> QED
        BY <2>2, <3>1 DEF AdjustLumisForCompletion, FailedJobs, LumisOf
    <2> QED
      BY <2>1, <2>2
  <1>7. n > 0 => wanted = AdjustLumisForCompletion(U)
    BY <1>0
  <1> HIDE DEF U, wanted
  <1>8. /\ predag'.n = n /\ predag'.at = "submit" /\ predag'.status = {}
        /\ predag'.unprocessed = U /\ predag'.lumis = wanted \ LumisOf(J)
        /\ predag' \in PreDAGType
    BY <1>2, <1>3, <1>4, <1>5, <1>6 DEF PreDAGType
  <1>9. Stable /\ Dealt' = Dealt /\ Made' = Made /\ Ended' = Ended
    BY <1>1, <1>2, <1>8 DEF Stable, Dealt, Made, Ended
  <1>10. TypeOK'
    BY <1>1, <1>8, <1>9 DEF IInv, TypeOK
  <1>11. Saved' /\ DagOK'
    BY <1>1, <1>9 DEF IInv, Saved, DagOK
  <1>12. AdjustLumisForCompletion(predag.unprocessed)' = AdjustLumisForCompletion(U)
    BY <1>1, <1>8 DEF AdjustLumisForCompletion, FailedJobs
  <1>13. PreDAGOK'
    BY <1>0, <1>1, <1>4, <1>7, <1>8, <1>12 DEF PreDAGOK, Stage
  <1>14. LastWave'
    BY <1>1, <1>4, <1>8, <1>9 DEF IInv, LastWave
  <1>15. Waiting'
    BY <1>1, <1>2, <1>8 DEF IInv, Waiting
  <1>16. Accounted'
    BY <1>1, <1>9, AccountedSame
  <1> QED
    BY <1>10, <1>11, <1>13, <1>14, <1>15, <1>16 DEF IInv

(* An element of a sequence is in the set the sequence is over.                *)
LEMMA SeqElement ==
    ASSUME NEW S, NEW s \in Seq(S), NEW i \in 1..Len(s)
    PROVE  s[i] \in S
  OBVIOUS

(* A percentage of a number is a number.                                       *)
LEMMA PercentOf ==
    ASSUME NEW percent \in 1..100, NEW size \in Nat
    PROVE  (size * percent) \div 100 \in Nat
  <1>1. size * percent \in Nat
    OBVIOUS
  <1>2. \A m \in Nat : m \div 100 \in Nat
    OBVIOUS
  <1> QED
    BY <1>1, <1>2

(* The thresholds of the tails of a subdag with so many jobs.                  *)
LEMMA CompletionsType ==
    ASSUME NEW size \in Nat
    PROVE  /\ Completions(size) \in Seq(Nat)
           /\ Len(Completions(size)) \in 1..Len(Triggers)
           /\ LastTrigger => Completions(size)[Len(Completions(size))] = size
  <1> DEFINE percents == IF size > MinTailSize THEN Triggers ELSE <<100>>
  <1>1. /\ percents \in Seq(1..100) /\ Len(percents) \in 1..Len(Triggers)
        /\ LastTrigger => percents[Len(percents)] = 100
    <2>1. Triggers \in Seq(1..100) /\ Len(Triggers) \in Nat \ {0}
      BY SplittingAssumption
    <2>2. <<100>> \in Seq(1..100) /\ Len(<<100>>) = 1 /\ <<100>>[1] = 100
      OBVIOUS
    <2>3. CASE size > MinTailSize
      BY <2>1, <2>3 DEF LastTrigger
    <2>4. CASE ~(size > MinTailSize)
      <3>1. percents = <<100>>
        BY <2>4
      <3> HIDE DEF percents
      <3> QED
        BY <2>1, <2>2, <3>1
    <2> QED
      BY <2>3, <2>4
  <1> HIDE DEF percents
  <1>2. Completions(size) = [i \in 1..Len(percents) |-> (size * percents[i]) \div 100]
    BY DEF Completions, percents
  <1>4. \A i \in 1..Len(percents) : (size * percents[i]) \div 100 \in Nat
    <2>1. \A i \in 1..Len(percents) : percents[i] \in 1..100
      BY <1>1, SeqElement
    <2> QED
      BY <2>1, PercentOf
  <1>5. Completions(size) \in Seq(Nat) /\ Len(Completions(size)) = Len(percents)
    BY <1>1, <1>2, <1>4
  <1>6. (size * 100) \div 100 = size
    OBVIOUS
  <1> QED
    BY <1>1, <1>2, <1>5, <1>6

(* The processing jobs are submitted.                                          *)
LEMMA InvSubmitProcessing ==
    ASSUME IInv, predag.n = 0, predag.at = "submit", waves = <<>>,
           predag' = [predag EXCEPT !.at = "save", !.lumis = {}],
           waves' = Completions(Cardinality(Created)),
           pre' = [k \in DOMAIN pre |-> IF k \in DOMAIN waves' THEN "waiting" ELSE pre[k]],
           node' = [j \in Jobs |-> IF j \in Created THEN "run" ELSE node[j]],
           skipped' = skipped \cup LeftOut(0),
           UNCHANGED <<given, throughputs, missing, cached, processed, torn, cut, restarts>>
    PROVE  IInv'
  <1>1. /\ pre[0] = "waiting" /\ Len(Triggers) \in Nat \ {0} /\ predag \in PreDAGType
        /\ Made = {} /\ \A n \in 1..Len(Triggers) : pre[n] = "none" /\ given[n] = {}
        /\ predag.unprocessed \subseteq cached \cap Probes /\ processed \subseteq cached
        /\ cached \subseteq Ended
    BY SplittingAssumption DEF IInv, TypeOK, PreDAGOK, DagOK, Stage
  <1>2. /\ node \in [Jobs -> {"none", "run", "post", "finished", "failed"}]
        /\ pre \in [0..Len(Triggers) -> {"none", "waiting", "done", "failed"}]
    BY DEF IInv, TypeOK
  <1>3. Created \subseteq Processing /\ IsFiniteSet(Created) /\ Cardinality(Created) \in Nat
    BY SplittingAssumption, FS_Subset, FS_CardinalityType DEF Created
  <1>4. /\ waves' \in Seq(Nat) /\ Len(waves') \in 1..Len(Triggers) /\ waves' # <<>>
        /\ LastTrigger => waves'[Len(waves')] = Cardinality(Created)
    BY <1>3, CompletionsType
  <1>5. DOMAIN waves' = 1..Len(waves')
    BY <1>4
  <1>6. /\ predag'.n = 0 /\ predag'.at = "save" /\ predag'.status = predag.status
        /\ predag'.unprocessed = predag.unprocessed /\ predag' \in PreDAGType
    BY <1>1 DEF PreDAGType
  <1>7. \A j \in Processing : node[j] = "none"
    BY <1>1 DEF Made
  <1>8. /\ node' \in [Jobs -> {"none", "run", "post", "finished", "failed"}]
        /\ \A j \in Created : node'[j] = "run"
        /\ \A j \in Jobs \ Created : node'[j] = node[j]
    BY <1>2, <1>3 DEF Jobs
  <1>9. Ended \cap Created = {}
    BY <1>3, <1>7 DEF Ended
  <1>10. Stable /\ Ended' = Ended
    BY <1>8, <1>9 DEF Stable, Ended
  <1>11. Made' = Created
    BY <1>3, <1>7, <1>8 DEF Made, Jobs
  <1>12. /\ pre' \in [0..Len(Triggers) -> {"none", "waiting", "done", "failed"}]
         /\ pre'[0] = "waiting"
         /\ \A n \in 1..Len(Triggers) : pre'[n] = IF n <= Len(waves') THEN "waiting" ELSE "none"
    BY <1>1, <1>2, <1>4, <1>5
  <1>13. LeftOut(0) = LumisOf(Processing) \ predag.lumis
    BY DEF LeftOut
  <1>14. TypeOK'
    <2>1. skipped' \subseteq LumisOf(Processing)
      BY <1>13 DEF IInv, TypeOK
    <2> QED
      BY <1>4, <1>6, <1>8, <1>10, <1>12, <2>1 DEF IInv, TypeOK
  <1>15. Saved'
    BY <1>8 DEF IInv, Saved
  <1>16. DagOK'
    <2>1. LumisOf(Processing) \ LumisOf(Created) \subseteq LeftOut(0)
      <3> SUFFICES ASSUME NEW lumi \in LumisOf(Processing) \ LumisOf(Created)
                   PROVE  lumi \notin predag.lumis
        BY <1>13
      <3>1. PICK j \in Processing, k \in {"early", "late"} : lumi = <<j, k>>
        BY DEF LumisOf
      <3>2. j \notin Created
        BY <3>1 DEF LumisOf
      <3>3. lumi \in LumisOf({j})
        BY <3>1 DEF LumisOf
      <3> QED
        BY <3>2, <3>3 DEF Created
    <2> QED
      BY <1>4, <1>11, <1>12, <2>1 DEF DagOK
  <1>17. PreDAGOK'
    BY <1>1, <1>4, <1>6, <1>12 DEF PreDAGOK, Stage
  <1>18. LastWave'
    BY <1>4, <1>6, <1>11, <1>12 DEF LastWave
  <1>19. Waiting'
    BY <1>1, <1>6 DEF Waiting
  <1>20. Accounted'
    <2>1. Dealt' \cap Processing = {}
      BY <1>1, <1>6, <1>7, SplittingAssumption DEF Dealt, Ended
    <2>2. InputTakenOver' = {}
      BY <2>1 DEF InputTakenOver, AdjustLumisForCompletion, FailedJobs, LumisOf
    <2> QED
      BY <1>1, <2>2 DEF Accounted
  <1> QED
    BY <1>14, <1>15, <1>16, <1>17, <1>18, <1>19, <1>20 DEF IInv

(* A tail is submitted, or what was submitted before goes on.                  *)
LEMMA InvSubmitTail ==
    ASSUME IInv, NEW n \in DOMAIN pre, predag.n = n, predag.at = "submit",
           predag' = [predag EXCEPT !.at = "save", !.lumis = {}],
           UNCHANGED <<node, waves, pre, throughputs, missing, cached, processed, torn, cut, restarts>>,
           \/ /\ n > 0 /\ given[n] = {}
              /\ given' = [given EXCEPT ![n] = predag.lumis]
              /\ skipped' = skipped \cup LeftOut(n)
           \/ /\ IF n = 0 THEN waves # <<>> ELSE given[n] # {}
              /\ UNCHANGED <<given, skipped>>
    PROVE  IInv'
  <1> DEFINE U == predag.unprocessed
  <1>1. /\ n \in 0..Len(Triggers) /\ pre[n] = "waiting" /\ Len(Triggers) \in Nat \ {0}
        /\ predag \in PreDAGType /\ U \subseteq cached \cap Stage(n)
        /\ given \in [1..Len(Triggers) -> SUBSET LumisOf(Processing)]
        /\ skipped \subseteq LumisOf(Processing)
        /\ n > 0 => predag.lumis \subseteq AdjustLumisForCompletion(U) /\ U \cap processed = {}
    BY SplittingAssumption DEF IInv, TypeOK, PreDAGOK
  <1>2. /\ predag'.n = n /\ predag'.at = "save" /\ predag'.status = predag.status
        /\ predag'.unprocessed = U /\ predag' \in PreDAGType
    BY <1>1 DEF PreDAGType
  <1> HIDE DEF U
  <1>3. Made' = Made /\ Ended' = Ended
    BY DEF Made, Ended
  <1>4. n > 0 => LeftOut(n) = AdjustLumisForCompletion(U) \ predag.lumis
    BY <1>1 DEF LeftOut, U
  <1>5. n > 0 => AdjustLumisForCompletion(U) \subseteq LumisOf(Processing)
    <2> SUFFICES ASSUME n > 0
                 PROVE  AdjustLumisForCompletion(U) \subseteq LumisOf(Processing)
      OBVIOUS
    <2>1. U \subseteq Processing
      BY <1>1 DEF Stage
    <2> QED
      BY <2>1 DEF AdjustLumisForCompletion, FailedJobs, LumisOf
  <1>6. TypeOK'
    <2>1. /\ given' \in [1..Len(Triggers) -> SUBSET LumisOf(Processing)]
          /\ skipped' \subseteq LumisOf(Processing)
      BY <1>1, <1>4, <1>5
    <2> QED
      BY <1>2, <1>3, <2>1 DEF IInv, TypeOK
  <1>7. Saved'
    BY DEF IInv, Saved
  <1>8. DagOK'
    <2>1. skipped \subseteq skipped'
      OBVIOUS
    <2>2. n > 0 => waves # <<>>
      BY <1>1 DEF IInv, DagOK
    <2> QED
      BY <1>3, <2>1, <2>2 DEF IInv, DagOK
  <1>9. PreDAGOK'
    BY <1>1, <1>2 DEF PreDAGOK, Stage, IInv, DagOK
  <1>10. LastWave'
    BY <1>2, <1>3 DEF IInv, LastWave, U
  <1>11. CASE cut
    BY <1>6, <1>7, <1>8, <1>9, <1>10, <1>11 DEF IInv, Waiting, Accounted
  <1>12. CASE ~cut
    <2>1. /\ n > 0 /\ given[n] = {}
          /\ given' = [given EXCEPT ![n] = predag.lumis]
          /\ skipped' = skipped \cup LeftOut(n)
      BY <1>1, <1>12 DEF IInv, Waiting
    <2>2. given'[n] = predag.lumis /\ \A m \in (1..Len(Triggers)) \ {n} : given'[m] = given[m]
      BY <1>1, <2>1
    <2>3. Waiting'
      <3>1. pre[0] = "waiting" => waves = <<>>
        BY <1>1, <1>12, <2>1 DEF IInv, Waiting
      <3>2. \A m \in (1..Len(Triggers)) \ {n} : given[m] # {} => pre[m] = "done"
        BY <1>12 DEF IInv, Waiting
      <3> QED
        BY <1>2, <2>2, <3>1, <3>2 DEF Waiting
    <2>4. Accounted'
      <3>1. Dealt = processed /\ Dealt' = Dealt \cup U
        BY <1>2 DEF Dealt
      <3>2. TakenOver' = TakenOver \cup AdjustLumisForCompletion(U)
        <4>1. TakenOver' = AdjustLumisForCompletion(Dealt \cup U)
          BY <3>1 DEF TakenOver, AdjustLumisForCompletion, FailedJobs
        <4> QED
          BY <4>1, AdjustUnion DEF TakenOver
      <3>3. InputTakenOver' \subseteq InputTakenOver \cup AdjustLumisForCompletion(U)
        <4>1. InputTakenOver'
                = AdjustLumisForCompletion((Dealt \cap Processing) \cup (U \cap Processing))
          BY <3>1 DEF InputTakenOver, AdjustLumisForCompletion, FailedJobs, LumisOf
        <4>2. AdjustLumisForCompletion(U \cap Processing) \subseteq AdjustLumisForCompletion(U)
          BY DEF AdjustLumisForCompletion, FailedJobs, LumisOf
        <4> QED
          BY <4>1, <4>2, AdjustUnion DEF InputTakenOver
      <3>4. /\ \A m \in 1..Len(Triggers) : given[m] \subseteq TakenOver
            /\ InputTakenOver \subseteq Tails \cup skipped
            /\ \A l, m \in 1..Len(Triggers) : l # m => given[l] \cap given[m] = {}
        BY <1>12 DEF IInv, Accounted
      <3>5. TakenOver \cap AdjustLumisForCompletion(U) = {}
        BY <1>1, <2>1, <3>1, AdjustDisjoint DEF TakenOver
      <3>6. predag.lumis \subseteq AdjustLumisForCompletion(U)
        BY <1>1, <2>1
      <3>7. \A m \in 1..Len(Triggers) : given'[m] \subseteq TakenOver'
        BY <2>2, <3>2, <3>4, <3>6
      <3>8. \A l, m \in 1..Len(Triggers) : l # m => given'[l] \cap given'[m] = {}
        BY <2>2, <3>4, <3>5, <3>6
      <3>9. Tails' = Tails \cup predag.lumis
        <4>1. DOMAIN given = 1..Len(Triggers) /\ DOMAIN given' = 1..Len(Triggers)
          BY <1>1, <2>1
        <4>2. n \in 1..Len(Triggers)
          BY <1>1, <2>1
        <4> QED
          BY <2>1, <2>2, <4>1, <4>2 DEF Tails
      <3>10. InputTakenOver' \subseteq Tails' \cup skipped'
        BY <1>4, <2>1, <3>3, <3>4, <3>9
      <3> QED
        BY <3>7, <3>8, <3>10 DEF Accounted
    <2> QED
      BY <1>6, <1>7, <1>8, <1>9, <1>10, <2>3, <2>4 DEF IInv
  <1> QED
    BY <1>11, <1>12

(* condor_submit_dag.                                                          *)
LEMMA InvSubmitSubdag ==
    ASSUME IInv, NEW n \in DOMAIN pre, SubmitSubdag(n)
    PROVE  IInv'
  <1>1. /\ predag.n = n /\ predag.at = "submit"
        /\ predag' = [predag EXCEPT !.at = "save", !.lumis = {}]
        /\ UNCHANGED <<throughputs, missing, cached, processed, torn, cut, restarts>>
    BY DEF SubmitSubdag, fileVars
  <1>2. CASE /\ n = 0 /\ waves = <<>>
             /\ waves' = Completions(Cardinality(Created))
             /\ pre' = [k \in DOMAIN pre |-> IF k \in DOMAIN waves' THEN "waiting" ELSE pre[k]]
             /\ node' = [j \in Jobs |-> IF j \in Created THEN "run" ELSE node[j]]
             /\ skipped' = skipped \cup LeftOut(n)
             /\ UNCHANGED given
    BY <1>1, <1>2, InvSubmitProcessing
  <1>3. CASE UNCHANGED <<node, waves, pre>> /\ n > 0 /\ given[n] = {}
             /\ given' = [given EXCEPT ![n] = predag.lumis]
             /\ skipped' = skipped \cup LeftOut(n)
    BY <1>1, <1>3, InvSubmitTail
  <1>4. CASE UNCHANGED <<node, waves, pre, given, skipped>>
             /\ IF n = 0 THEN waves # <<>> ELSE given[n] # {}
    BY <1>1, <1>4, InvSubmitTail
  <1> QED
    BY <1>2, <1>3, <1>4 DEF SubmitSubdag

(* The jobs dealt with are on file, and the subdag goes on.                    *)
LEMMA InvSaveProcessedJobs ==
    ASSUME IInv, NEW n \in DOMAIN pre, SaveProcessedJobs(n)
    PROVE  IInv'
  <1> DEFINE U == predag.unprocessed
  <1>0. /\ n \in 0..Len(Triggers) /\ pre[n] = "waiting" /\ Len(Triggers) \in Nat
        /\ predag.n = n /\ predag.at = "save" /\ U \subseteq cached
        /\ n = 0 => waves # <<>>
    BY SplittingAssumption DEF IInv, TypeOK, PreDAGOK, SaveProcessedJobs
  <1>1. UNCHANGED <<node, throughputs, missing, cached, waves, torn, given, skipped, cut, restarts>>
    BY DEF SaveProcessedJobs, jobVars, history
  <1>2. /\ predag' = NoPreDAG /\ pre' = [pre EXCEPT ![n] = "done"]
        /\ processed' = processed \cup U
    BY DEF SaveProcessedJobs, Leave
  <1>3. predag'.n = -1 /\ predag'.at = "none" /\ predag'.status = {} /\ predag' \in PreDAGType
    BY <1>0, <1>2 DEF NoPreDAG, PreDAGType
  <1>4. /\ pre' \in [0..Len(Triggers) -> {"none", "waiting", "done", "failed"}]
        /\ pre'[n] = "done" /\ \A m \in (0..Len(Triggers)) \ {n} : pre'[m] = pre[m]
    BY <1>0, <1>2 DEF IInv, TypeOK
  <1>5. Stable /\ Dealt' = Dealt /\ Made' = Made /\ Ended' = Ended
    BY <1>0, <1>1, <1>2, <1>3 DEF Stable, Dealt, Made, Ended
  <1>6. TypeOK'
    BY <1>0, <1>1, <1>2, <1>3, <1>4, <1>5 DEF IInv, TypeOK
  <1>7. Saved'
    BY <1>1 DEF IInv, Saved
  <1>8. DagOK'
    BY <1>0, <1>1, <1>4, <1>5 DEF IInv, DagOK
  <1>9. PreDAGOK'
    BY <1>2, <1>3 DEF PreDAGOK
  <1>10. LastWave'
    <2>1. waves # <<>> => Len(waves) \in 0..Len(Triggers) /\ Len(waves) # -1
      BY DEF IInv, TypeOK
    <2> QED
      BY <1>0, <1>1, <1>2, <1>3, <1>4, <1>5, <2>1 DEF IInv, LastWave
  <1>11. Waiting'
    <2>1. ~cut /\ pre'[0] = "waiting" => waves = <<>>
      BY <1>0, <1>4 DEF IInv, Waiting
    <2>2. ~cut => \A m \in 1..Len(Triggers) : given[m] # {} => pre'[m] = "done"
      BY <1>0, <1>4 DEF IInv, Waiting
    <2> QED
      BY <1>1, <2>1, <2>2 DEF Waiting
  <1>12. Accounted'
    BY <1>1, <1>5, AccountedSame
  <1> QED
    BY <1>6, <1>7, <1>8, <1>9, <1>10, <1>11, <1>12 DEF IInv

(* A PreDAG that is cut is to start again.                                     *)
LEMMA InvRestart ==
    ASSUME IInv, Restart
    PROVE  IInv'
  <1>1. UNCHANGED <<node, throughputs, missing, cached, waves, pre, given, skipped>>
    BY DEF Restart, jobVars, dagVars
  <1>2. /\ predag' = NoPreDAG /\ cut' = (cut \/ predag.at = "save")
        /\ restarts' = restarts + 1 /\ restarts < MaxRestarts
    BY DEF Restart
  <1>3. /\ processed \subseteq processed' /\ processed' \subseteq cached /\ torn' \in BOOLEAN
        /\ predag.at # "save" => UNCHANGED <<processed, torn>>
    BY DEF Restart, fileVars, IInv, TypeOK, PreDAGOK
  <1>4. predag'.n = -1 /\ predag'.at = "none" /\ predag'.status = {} /\ predag' \in PreDAGType
    BY <1>2, SplittingAssumption DEF NoPreDAG, PreDAGType
  <1>5. Stable /\ Made' = Made /\ Ended' = Ended
    BY <1>1 DEF Stable, Made, Ended
  <1>6. TypeOK'
    <2>1. restarts' \in 0..MaxRestarts
      BY <1>2, SplittingAssumption DEF IInv, TypeOK
    <2>2. cut' \in BOOLEAN
      BY <1>2
    <2> QED
      BY <1>1, <1>3, <1>4, <1>5, <2>1, <2>2 DEF IInv, TypeOK
  <1>7. Saved' /\ DagOK'
    BY <1>1, <1>5 DEF IInv, Saved, DagOK
  <1>8. PreDAGOK'
    BY <1>2, <1>4 DEF PreDAGOK
  <1>9. LastWave'
    <2>1. waves # <<>> => Len(waves) \in 0..Len(Triggers) /\ Len(waves) # -1
      BY DEF IInv, TypeOK
    <2> QED
      BY <1>1, <1>3, <1>4, <1>5, <2>1 DEF IInv, LastWave
  <1>10. CASE predag.at = "save"
    BY <1>2, <1>6, <1>7, <1>8, <1>9, <1>10 DEF IInv, Waiting, Accounted
  <1>11. CASE predag.at # "save"
    <2>1. cut' = cut /\ Dealt' = Dealt
      BY <1>2, <1>3, <1>4, <1>11 DEF Dealt, IInv, TypeOK
    <2>2. Waiting'
      BY <1>1, <1>4, <1>11, <2>1 DEF IInv, Waiting
    <2>3. Accounted'
      BY <1>1, <1>5, <2>1, AccountedSame
    <2> QED
      BY <1>6, <1>7, <1>8, <1>9, <2>2, <2>3 DEF IInv
  <1> QED
    BY <1>10, <1>11

(* A step of PreDAG keeps the invariant.                                       *)
LEMMA InvPreDAG ==
    ASSUME IInv, NEW n \in DOMAIN pre, PreDAG(n)
    PROVE  IInv'
  <1>1. CASE Raises(n)
    BY <1>1, FailStep DEF Raises
  <1>2. CASE GiveUp(n)
    BY <1>2, FailStep DEF GiveUp
  <1>3. CASE SubmissionFails(n)
    BY <1>3, FailStep DEF SubmissionFails
  <1> QED
    BY <1>1, <1>2, <1>3, InvEnter, InvNothingToProcess, InvCreateSubdag, InvSubmitSubdag,
       InvSaveProcessedJobs DEF PreDAG

(* Every reachable state has the invariant.                                    *)
THEOREM Invariance == Spec => []IInv
  <1>1. IInv /\ [Next]_vars => IInv'
    <2> SUFFICES ASSUME IInv, [Next]_vars
                 PROVE  IInv'
      OBVIOUS
    <2>1. CASE UNCHANGED vars
      <3>1. UNCHANGED <<node, throughputs, missing, cached, waves, pre, predag, processed, torn,
                        given, skipped, cut, restarts>>
        BY <2>1 DEF vars, jobVars, dagVars, fileVars, history
      <3>2. Stable /\ Dealt' = Dealt
        BY <3>1 DEF Stable, Dealt
      <3>3. Accounted'
        BY <3>1, <3>2, AccountedSame
      <3>4. PreDAGOK'
        BY <3>1 DEF IInv, PreDAGOK, AdjustLumisForCompletion, FailedJobs
      <3> QED
        BY <3>1, <3>3, <3>4 DEF IInv, TypeOK, Ended, Saved, DagOK, Made, LastWave, Waiting
    <2> QED
      BY <2>1, InvJob, InvCacheStatus, InvPreDAG, InvRestart DEF Next
  <1> QED
    BY <1>1, InvInit, PTL DEF Spec

-------------------------------------------------------------------------------
(* The properties.                                                             *)

(* The state has its type, and PreDAG deals only with jobs that have ended.    *)
THEOREM TypeCorrect == Spec => []TypeOK
  <1>1. IInv => TypeOK
    BY DEF IInv
  <1> QED
    BY <1>1, Invariance, PTL

(* Whatever the triggers, no lumi is processed twice unless a PreDAG was cut.  *)
LEMMA NotTwice ==
    ASSUME IInv, ~cut
    PROVE  NoLumiTwice
  <1>1. DOMAIN given = 1..Len(Triggers)
    BY DEF IInv, TypeOK
  <1>2. Tails \subseteq TakenOver
    BY <1>1 DEF IInv, Accounted, Tails
  <1>3. TakenOver \cap Delivered = {}
    BY AdjustDelivered DEF TakenOver
  <1> QED
    BY <1>1, <1>2, <1>3 DEF IInv, Accounted, NoLumiTwice

(* With a last trigger of 100, each lumi is in an output, a tail or skipped.   *)
LEMMA NotLost ==
    ASSUME IInv, ~cut, LastTrigger
    PROVE  NoLumiLost
  <1> SUFFICES ASSUME pre[0] = "done", \A n \in DOMAIN waves : pre[n] = "done",
                      NEW lumi \in LumisOf(Processing)
               PROVE  lumi \in Delivered \cup Tails \cup skipped
    BY DEF NoLumiLost
  <1>0. PICK j \in Processing, k \in {"early", "late"} : lumi = <<j, k>>
    BY DEF LumisOf
  <1>1. waves # <<>> /\ LumisOf(Processing) \ LumisOf(Made) \subseteq skipped
    BY DEF IInv, DagOK
  <1>2. CASE j \notin Made
    BY <1>0, <1>1, <1>2 DEF LumisOf
  <1>3. CASE j \in Made
    <2>1. Len(waves) \in DOMAIN waves
      BY <1>1 DEF IInv, TypeOK
    <2>2. Made \subseteq processed
      BY <1>1, <2>1 DEF IInv, LastWave
    <2>3. j \in Dealt \cap Processing /\ j \in Ended
      BY <1>3, <2>2, DealtEnded DEF Dealt
    <2>4. <<j, k>> \in Delivered \cup InputTakenOver
      BY <2>3, AdjustComplete DEF InputTakenOver
    <2> QED
      BY <1>0, <2>4 DEF IInv, Accounted
  <1> QED
    BY <1>2, <1>3

(* No lumi is in two tails, or in a tail and in the output of its job, unless  *)
(* a PreDAG was cut after its submission: whatever the triggers.               *)
THEOREM LumisOnceAtMost == Spec => [](~cut => NoLumiTwice)
  <1>1. IInv => (~cut => NoLumiTwice)
    BY NotTwice
  <1> QED
    BY <1>1, Invariance, PTL

(* Every lumi is processed once, or its block was left out for want of a site, *)
(* unless a PreDAG was cut after its submission.                               *)
THEOREM LumisOnce ==
    ASSUME LastTrigger
    PROVE  Spec => []EachLumiOnce
  <1>1. IInv => EachLumiOnce
    BY NotTwice, NotLost DEF EachLumiOnce
  <1> QED
    BY <1>1, Invariance, PTL

(* A PreDAG that raises in its plan finds a broken file, or is that of a tail  *)
(* and a probe has failed.                                                     *)
THEOREM EstimatesFound == Spec => EstimatesAreThere
  <1>1. ASSUME IInv, [Next]_vars
        PROVE  [\A n \in DOMAIN pre : Raises(n) => torn \/ (n > 0 /\ FailedJobs(Probes) # {})]_vars
    <2> SUFFICES ASSUME NEW n \in DOMAIN pre, Raises(n), ~torn,
                        ~(n > 0 /\ FailedJobs(Probes) # {})
                 PROVE  FALSE
      OBVIOUS
    <2> DEFINE read == predag.status
    <2>1. read \subseteq Ended /\ Ended \subseteq Jobs
      BY <1>1 DEF IInv, TypeOK, Ended
    <2>2. \A j \in Ended : j \notin FailedJobs(Ended) => j \in throughputs
      BY <1>1 DEF IInv, Saved, Ended, FailedJobs
    <2>3. ~(Estimates(n, read) \subseteq throughputs)
      BY DEF Raises
    <2>4. CASE n > 0 /\ Unprocessed(n, read) \subseteq FailedJobs(CompletedJobs(n, read))
      <3>1. Estimates(n, read) = read \cap Probes
        BY <2>4 DEF Estimates, CompletedJobs, Stage
      <3>2. FailedJobs(Probes) = {}
        BY <2>4
      <3> QED
        BY <2>1, <2>2, <2>3, <3>1, <3>2 DEF FailedJobs
    <2>5. CASE ~(n > 0 /\ Unprocessed(n, read) \subseteq FailedJobs(CompletedJobs(n, read)))
      <3>1. Estimates(n, read)
                = Unprocessed(n, read) \ FailedJobs(CompletedJobs(n, read))
        BY <2>5 DEF Estimates
      <3> QED
        BY <2>1, <2>2, <2>3, <3>1 DEF Unprocessed, CompletedJobs, FailedJobs
    <2> QED
      BY <2>4, <2>5
  <1> QED
    BY <1>1, Invariance, PTL DEF Spec, EstimatesAreThere

===============================================================================
