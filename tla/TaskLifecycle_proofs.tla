------------------------- MODULE TaskLifecycle_proofs -------------------------
(* Proofs about TaskLifecycle, in layers, each of which uses those before it:  *)
(*   LocalInv        what each process holds is what its code can have put     *)
(*                   there: types, batches, requests, handlers;                *)
(*   ClaimInv        whoever works on a row that is not raced knows it, is its *)
(*                   TaskWorker, and is alone;                                 *)
(*   TasksAccounted  a QUEUED row has somebody to work on it;                  *)
(*   DagsOK          the row and the handlers tell what the DAG may be.        *)
(* The steps of the diagram of TaskStatus follow from the first two.           *)
EXTENDS TaskLifecycle, FiniteSetTheorems, TLAPS

-------------------------------------------------------------------------------
(* The inductive invariant.                                                    *)

(* A row that is to be worked on names its command.                            *)
RowsNameCommand ==
    \A t \in Tasks : status[t] \in {"NEW", "HOLDING", "QUEUED"} => command[t] \in Commands

(* The second write of proceed comes after an UPLOADED row was read.           *)
RequestsOK == \A c \in Clients : req[c].op = "proceed2" => req[c].row.status = "UPLOADED"

(* What the manager of tape recalls knows of a row in phase p: what it read, or*)
(* what it wrote with no answer.                                               *)
RecallOK(p, row) ==
    \/ p = "TAPERECALL" /\ row.status \in {"TAPERECALL", "FAILED"}
    \/ p = "TAPERECALL" /\ row = [status |-> "NEW", command |-> "SUBMIT"]
    \/ p = "KILLRECALL" /\ row.status = "KILLRECALL"
    \/ p = "KILLRECALL" /\ row = [status |-> "KILLED", command |-> "KILL"]

RecallsOK == \A w \in TWs : \A x \in recall[w] : RecallOK(phase[w], x.row)

(* A row of a batch as it was read or as this TaskWorker has written it.       *)
BatchRow(pc, x) ==
    /\ x.command \in Commands /\ x.row.command = x.command
    /\ pc = "restart" => x.row.status \in {"QUEUED", "NEW"}
    /\ pc = "ack" => x.row.status \in {"HOLDING", IF Refused(x) THEN RefusedStatus(x) ELSE "QUEUED"}

(* Where the master process is tells what the TaskWorker has.                  *)
MastersOK ==
    \A w \in TWs :
        /\ mpc[w] \in {"restart", "down"} => \A s \in Slots : job[w][s] = NoJob
        /\ mpc[w] \in {"top", "get", "down"} => batch[w] = {}
        /\ mpc[w] # "ack" => acked[w] = {}
        /\ \A x \in batch[w] : BatchRow(mpc[w], x)
        /\ \A x, y \in batch[w] : x.task = y.task => x = y
        /\ \A x \in acked[w] : x.command \in Commands

(* What a handler that has begun may report, and what it has reported.         *)
Success == [SUBMIT |-> {"SUBMITTED", "TAPERECALL", "UPLOADED"}, KILL |-> {"KILLED"},
            RESUBMIT |-> {"SUBMITTED"}]

(* The outcome of the handler j fits its command and its place, and so does    *)
(* what it knows of the row: QUEUED, or what it has reported with no answer.   *)
JobOK(j) ==
    /\ j.pc = "run" => \/ j.out = "NONE"
                       \/ j.command = "SUBMIT" /\ j.out \in {"TAPERECALL", "SUBMITTED"}
    /\ j.pc = "run" /\ j.command # "SUBMIT" => j.row.status = "QUEUED"
    /\ j.pc = "post" => j.out \in Success[j.command]
    /\ j.pc = "fail" => j.out = FailStatus(j.command)
    /\ j.out = "SUBMITTED" /\ j.command = "SUBMIT" => ~j.dry
    /\ j.row.status = "QUEUED" => j.row.command = j.command
    /\ j.row.status \in {"QUEUED", FailStatus(j.command)} \cup Success[j.command]
    /\ j.row.status = FailStatus(j.command) => j.pc = "fail"
    /\ j.command = "SUBMIT" /\ j.row.status \in {"SUBMITTED", "UPLOADED"} =>
        j.pc = "fail" \/ j.out = j.row.status
    /\ j.command = "SUBMIT" /\ j.row.status = "SUBMITTED" => ~j.dry

JobsOK == \A w \in TWs, s \in Slots : job[w][s] # NoJob => JobOK(job[w][s])

(* The command in the row, as the handler knows it, if no write was raced.     *)
ReportOK(j) ==
    /\ j.row.command \in {j.command, "NULL"}
    /\ j.command = "SUBMIT" /\ j.row.status \in {"SUBMITTED", "TAPERECALL"} =>
        j.row.command = "SUBMIT"

ReportsOK ==
    \A w \in TWs, s \in Slots :
        job[w][s] # NoJob /\ ~stale[job[w][s].task] => ReportOK(job[w][s])

(* A handler that has not reported yet.                                        *)
Working(w, s, t) == job[w][s].task = t /\ job[w][s].row.status = "QUEUED"

(* Whoever has a task to itself knows its row, is the TaskWorker of the row,   *)
(* and is alone: it is the row of a batch,                                     *)
BatchClaim(t) ==
    \A w \in TWs : \A x \in batch[w] :
        x.task = t /\ x.row.status \in {"HOLDING", "QUEUED"} =>
            /\ Row(t) = x.row /\ twname[t] = w
            /\ \A y \in acked[w] : y.task # t
            /\ \A s \in Slots : ~Working(w, s, t)

(* a task to be injected,                                                      *)
AckedClaim(t) ==
    \A w \in TWs : \A x \in acked[w] :
        x.task = t =>
            /\ Row(t) = [status |-> "QUEUED", command |-> x.command] /\ twname[t] = w
            /\ \A y \in acked[w] : y.task = t => y = x
            /\ \A s \in Slots : ~Working(w, s, t)

(* or a handler.                                                               *)
JobClaim(t) ==
    \A w \in TWs, s \in Slots :
        Working(w, s, t) =>
            /\ Row(t) = job[w][s].row /\ twname[t] = w
            /\ \A r \in Slots : Working(w, r, t) => r = s

Claims(t) == ~stale[t] => BatchClaim(t) /\ AckedClaim(t) /\ JobClaim(t)
TasksClaimed == \A t \in Tasks : Claims(t)

(* Rows whose task cannot have its DAG on hold,                                *)
HeldFree(row) == \/ row.command = "SUBMIT"
                 \/ row.status \in {"NONE", "UPLOADED", "TAPERECALL", "KILLRECALL", "SUBMITFAILED"}

(* and rows whose task has no DAG that runs.                                   *)
RunFree(row) ==
    \/ row.status \in {"NONE", "UPLOADED", "TAPERECALL", "KILLRECALL", "SUBMITFAILED", "KILLED"}
    \/ row.status \in {"NEW", "HOLDING", "QUEUED"} /\ row.command = "SUBMIT"

(* A handler that has ended and reports for the first time.                    *)
Reporting(w, s, t, cmd) ==
    Working(w, s, t) /\ job[w][s].pc = "post" /\ job[w][s].command = cmd

(* rejectedCommands leaves KILL and RESUBMIT alone: skipRejectedCommand makes  *)
(* their tasks SUBMITTED whatever their DAG is.                                *)
OnlySubmitRejected == Rejected \subseteq {"SUBMIT"}

(* A handler that is to report KILLED has seen to it that nothing runs, and    *)
(* one that is to report the end of a resubmission that nothing is held.       *)
DagOK(t) ==
    ~stale[t] =>
        /\ HeldFree(Row(t)) => dag[t] # "held"
        /\ OnlySubmitRejected /\ status[t] = "SUBMITTED" => dag[t] # "held"
        /\ \A w \in TWs, s \in Slots : Reporting(w, s, t, "RESUBMIT") => dag[t] # "held"
        /\ ~unreported[t] =>
            /\ RunFree(Row(t)) => dag[t] # "running"
            /\ \A w \in TWs, s \in Slots : Reporting(w, s, t, "KILL") => dag[t] # "running"

DagsOK == \A t \in Tasks : DagOK(t)

(* Somebody has the task t, QUEUED.                                            *)
Held(t) == \/ \E w \in TWs : \E y \in acked[w] : y.task = t
           \/ \E w \in TWs, s \in Slots : Working(w, s, t)

(* A row is HOLDING or QUEUED in the name of a TaskWorker, and without a lost  *)
(* answer each QUEUED row is worked on, or found at a restart.                 *)
Accounted(t) ==
    ~stale[t] =>
        /\ status[t] \in {"HOLDING", "QUEUED"} => twname[t] \in TWs
        /\ status[t] = "QUEUED" /\ faults = 0 => Held(t) \/ mpc[twname[t]] \in {"down", "restart"}

TasksAccounted == \A t \in Tasks : Accounted(t)

LocalInv == TypeOK /\ RowsNameCommand /\ RequestsOK /\ RecallsOK /\ MastersOK /\ JobsOK
ClaimInv == ReportsOK /\ TasksClaimed

-------------------------------------------------------------------------------
(* Lemmas about values.                                                        *)

(* The commands and statuses, spelled out for the provers.                     *)
LEMMA TypesOfConstants ==
    /\ Commands = {"SUBMIT", "KILL", "RESUBMIT"} /\ "NULL" \notin Commands
    /\ \A c \in Commands : FailStatus(c) \in FailureStatuses
    /\ Commands \subseteq {"SUBMIT", "KILL", "RESUBMIT"}
    /\ FailStatus("SUBMIT") = "SUBMITFAILED" /\ FailStatus("KILL") = "KILLFAILED"
    /\ FailStatus("RESUBMIT") = "RESUBMITFAILED"
    /\ Statuses = {"NEW", "HOLDING", "QUEUED", "TAPERECALL", "KILLRECALL", "UPLOADED", "SUBMITTED",
                   "KILLED", "SUBMITFAILED", "KILLFAILED", "RESUBMITFAILED", "FAILED", "NONE"}
  BY DEF Commands, FailStatus, Statuses, FinalStatuses, FailureStatuses, TmpStatuses

(* A write to the row of a task changes that row only; it is raced if it was   *)
(* before, or if its writer did not know the row.                              *)
LEMMA WriteEffect ==
    ASSUME TypeOK, NEW t \in Tasks, NEW st \in Statuses, NEW c \in Commands \cup {"NULL"}, NEW row,
           Write(t, st, c, row)
    PROVE  /\ status' \in [Tasks -> Statuses] /\ command' \in [Tasks -> Commands \cup {"NULL"}]
           /\ stale' \in [Tasks -> BOOLEAN]
           /\ status'[t] = st /\ command'[t] = c
           /\ ~stale'[t] => ~stale[t] /\ Row(t) = row
           /\ stale[t] => stale'[t]
           /\ \A u \in Tasks \ {t} : /\ status'[u] = status[u] /\ command'[u] = command[u]
                                     /\ stale'[u] = stale[u]
  <1>1. /\ status \in [Tasks -> Statuses] /\ command \in [Tasks -> Commands \cup {"NULL"}]
        /\ stale \in [Tasks -> BOOLEAN]
    BY DEF TypeOK
  <1>2. /\ status' = [status EXCEPT ![t] = st] /\ command' = [command EXCEPT ![t] = c]
        /\ stale' = [stale EXCEPT ![t] = @ \/ Row(t) # row]
    BY DEF Write, SetStatusTask
  <1>3. status' \in [Tasks -> Statuses] /\ status'[t] = st /\ \A u \in Tasks \ {t} : status'[u] = status[u]
    BY <1>1, <1>2
  <1>4. /\ command' \in [Tasks -> Commands \cup {"NULL"}] /\ command'[t] = c
        /\ \A u \in Tasks \ {t} : command'[u] = command[u]
    BY <1>1, <1>2
  <1>5. /\ stale' \in [Tasks -> BOOLEAN] /\ stale'[t] = (stale[t] \/ Row(t) # row)
        /\ \A u \in Tasks \ {t} : stale'[u] = stale[u]
    BY <1>1, <1>2
  <1> QED
    BY <1>3, <1>4, <1>5

-------------------------------------------------------------------------------
(* The clients, the DAG and the input.                                         *)

(* Submission keeps LocalInv: the row names its command.                       *)
LEMMA LocalSubmit ==
    ASSUME LocalInv, NEW t \in Tasks, Submit(t)
    PROVE  LocalInv'
  <1>1. /\ UNCHANGED <<twname, dryrun, schedd, dag, ontape, req, mpc, batch, acked, job, phase, recall,
                       requests, faults, crashes, stale, unreported>>
        /\ status' = [status EXCEPT ![t] = "NEW"] /\ command' = [command EXCEPT ![t] = "SUBMIT"]
    BY DEF Submit, SetStatusTask, twVars, recallVars, counters
  <1>2. /\ status' \in [Tasks -> Statuses] /\ command' \in [Tasks -> Commands \cup {"NULL"}]
    BY <1>1, TypesOfConstants DEF LocalInv, TypeOK
  <1>3. TypeOK'
    BY <1>1, <1>2 DEF LocalInv, TypeOK
  <1>4. RowsNameCommand'
    BY <1>1, <1>2, TypesOfConstants DEF LocalInv, TypeOK, RowsNameCommand
  <1> QED
    BY <1>1, <1>3, <1>4 DEF LocalInv, RequestsOK, RecallsOK, MastersOK, JobsOK

(* A request that reads a row keeps LocalInv.                                  *)
LEMMA LocalReadRow ==
    ASSUME LocalInv, NEW c \in Clients, NEW op \in {"kill", "resubmit", "proceed"}, NEW t \in Tasks,
           ReadRow(c, op, t)
    PROVE  LocalInv'
  <1>1. /\ UNCHANGED <<status, command, twname, dryrun, schedd, dag, ontape, mpc, batch, acked, job,
                       phase, recall, faults, crashes, stale, unreported>>
        /\ requests < MaxRequests /\ requests' = requests + 1
        /\ req' = [req EXCEPT ![c] = [op |-> op, task |-> t, row |-> Row(t)]]
    BY DEF ReadRow, dbVars, twVars, recallVars
  <1>2. requests' \in 0..MaxRequests
    BY <1>1, LifecycleAssumption DEF LocalInv, TypeOK
  <1>3. Row(t) \in RowType
    BY DEF Row, RowType, LocalInv, TypeOK
  <1>4. /\ req' \in [Clients -> ReqType] /\ req'[c].op = op
        /\ \A d \in Clients \ {c} : req'[d] = req[d]
    BY <1>1, <1>3 DEF LocalInv, TypeOK, ReqType
  <1>5. TypeOK'
    BY <1>1, <1>2, <1>4 DEF LocalInv, TypeOK
  <1>6. RequestsOK'
    BY <1>4 DEF LocalInv, RequestsOK
  <1> QED
    BY <1>1, <1>5, <1>6 DEF LocalInv, RowsNameCommand, RecallsOK, MastersOK, JobsOK

(* A request that ends without a write keeps LocalInv.                         *)
LEMMA LocalRefuse ==
    ASSUME LocalInv, NEW c \in Clients, Refuse(c)
    PROVE  LocalInv'
  <1>1. /\ UNCHANGED <<status, command, twname, dryrun, schedd, dag, ontape, mpc, batch, acked, job,
                       phase, recall, requests, faults, crashes, stale, unreported>>
        /\ req' = [req EXCEPT ![c] = NoReq]
    BY DEF Refuse, dbVars, twVars, recallVars, counters
  <1>2. NoReq \in ReqType /\ NoReq.op = "none"
    BY DEF NoReq, ReqType
  <1>3. /\ req' \in [Clients -> ReqType] /\ req'[c].op = "none"
        /\ \A d \in Clients \ {c} : req'[d] = req[d]
    BY <1>1, <1>2 DEF LocalInv, TypeOK
  <1>4. TypeOK'
    BY <1>1, <1>3 DEF LocalInv, TypeOK
  <1>5. RequestsOK'
    BY <1>3 DEF LocalInv, RequestsOK
  <1> QED
    BY <1>1, <1>4, <1>5 DEF LocalInv, RowsNameCommand, RecallsOK, MastersOK, JobsOK

(* The writes of the clients, as the diagram of TaskStatus has them.           *)
LEMMA ClientWrites ==
    ASSUME LocalInv, NEW c \in Clients, Kill(c) \/ Resubmit(c) \/ Proceed(c)
    PROVE  /\ req[c] \in [op : {"kill", "resubmit", "proceed", "proceed2"}, task : Tasks, row : RowType]
           /\ \E st \in {"NEW", "KILLRECALL", "KILLED"}, cmd \in Commands :
                /\ Diagram!User(req[c].row, [status |-> st, command |-> cmd])
                /\ req[c].row.status # "NONE"
                /\ Write(req[c].task, st, cmd, req[c].row)
           /\ req' = [req EXCEPT ![c] = NoReq]
           /\ UNCHANGED <<twname, dryrun, schedd, dag, ontape, mpc, batch, acked, job, phase, recall,
                          requests, faults, crashes, unreported>>
  <1>0. /\ req[c] \in ReqType /\ {"SUBMIT", "KILL", "RESUBMIT"} = Commands
    BY TypesOfConstants DEF LocalInv, TypeOK
  <1>1. req[c].op \in {"kill", "resubmit", "proceed2"}
    BY DEF Kill, Resubmit, Proceed, WriteRow
  <1>2. req[c] \in [op : {"kill", "resubmit", "proceed", "proceed2"}, task : Tasks, row : RowType]
    BY <1>0, <1>1 DEF ReqType, NoReq
  <1>3. /\ req' = [req EXCEPT ![c] = NoReq]
        /\ UNCHANGED <<twname, dryrun, schedd, dag, ontape, mpc, batch, acked, job, phase, recall,
                          requests, faults, crashes, unreported>>
    BY DEF Kill, Resubmit, Proceed, WriteRow, twVars, recallVars, counters
  <1>4. \E st \in {"NEW", "KILLRECALL", "KILLED"}, cmd \in Commands :
                /\ Diagram!User(req[c].row, [status |-> st, command |-> cmd])
                /\ req[c].row.status # "NONE"
                /\ Write(req[c].task, st, cmd, req[c].row)
    <2>1. CASE Kill(c)
      <3>1. CASE req[c].row.status \in KillableStatuses /\ Write(req[c].task, "NEW", "KILL", req[c].row)
        <4>1. Diagram!User(req[c].row, [status |-> "NEW", command |-> "KILL"])
          BY <3>1 DEF KillableStatuses, Diagram!User
        <4> QED
          BY <1>0, <3>1, <4>1 DEF KillableStatuses
      <3>2. CASE req[c].row.status = "TAPERECALL" /\ Write(req[c].task, "KILLRECALL", "KILL", req[c].row)
        <4>1. Diagram!User(req[c].row, [status |-> "KILLRECALL", command |-> "KILL"])
          BY <3>2 DEF Diagram!User
        <4> QED
          BY <1>0, <3>2, <4>1
      <3>3. CASE /\ req[c].row = [status |-> "NEW", command |-> "SUBMIT"]
                 /\ Write(req[c].task, "KILLED", "KILL", req[c].row)
        <4>1. Diagram!User(req[c].row, [status |-> "KILLED", command |-> "KILL"])
          BY <3>3 DEF Diagram!User
        <4>2. req[c].row.status = "NEW"
          BY <3>3
        <4> QED
          BY <1>0, <3>3, <4>1, <4>2
      <3> QED
        BY <2>1, <3>1, <3>2, <3>3 DEF Kill, WriteRow
    <2>2. CASE Resubmit(c)
      <3>1. CASE req[c].row.status = "SUBMITFAILED" /\ Write(req[c].task, "NEW", "SUBMIT", req[c].row)
        <4>1. Diagram!User(req[c].row, [status |-> "NEW", command |-> "SUBMIT"])
          BY <3>1 DEF Diagram!User
        <4> QED
          BY <1>0, <3>1, <4>1
      <3>2. CASE /\ req[c].row.status \in ResubmittableStatuses
                 /\ Write(req[c].task, "NEW", "RESUBMIT", req[c].row)
        <4>1. Diagram!User(req[c].row, [status |-> "NEW", command |-> "RESUBMIT"])
          BY <3>2 DEF ResubmittableStatuses, Diagram!User
        <4> QED
          BY <1>0, <3>2, <4>1 DEF ResubmittableStatuses
      <3> QED
        BY <2>2, <3>1, <3>2 DEF Resubmit, WriteRow
    <2>3. CASE Proceed(c)
      <3>1. req[c].row.status = "UPLOADED" /\ Write(req[c].task, "NEW", "SUBMIT", req[c].row)
        BY <2>3 DEF Proceed, WriteRow, LocalInv, RequestsOK
      <3>2. Diagram!User(req[c].row, [status |-> "NEW", command |-> "SUBMIT"])
        BY <3>1 DEF Diagram!User
      <3> QED
        BY <1>0, <3>1, <3>2
    <2> QED
      BY <2>1, <2>2, <2>3
  <1> QED
    BY <1>2, <1>3, <1>4

(* The write of a request keeps LocalInv.                                      *)
LEMMA LocalClientWrites ==
    ASSUME LocalInv, NEW c \in Clients, Kill(c) \/ Resubmit(c) \/ Proceed(c)
    PROVE  LocalInv'
  <1>1. PICK t \in Tasks : t = req[c].task
    BY ClientWrites
  <1>2. PICK row : row = req[c].row
    OBVIOUS
  <1>3. PICK st \in {"NEW", "KILLRECALL", "KILLED"}, cmd \in Commands : Write(t, st, cmd, row)
    BY <1>1, <1>2, ClientWrites
  <1>4. /\ req' = [req EXCEPT ![c] = NoReq]
        /\ UNCHANGED <<twname, dryrun, schedd, dag, ontape, mpc, batch, acked, job, phase, recall,
                       requests, faults, crashes, unreported>>
    BY ClientWrites
  <1>5. NoReq \in ReqType /\ NoReq.op = "none"
    BY DEF NoReq, ReqType
  <1>6. /\ req' \in [Clients -> ReqType] /\ req'[c].op = "none"
        /\ \A d \in Clients \ {c} : req'[d] = req[d]
    BY <1>4, <1>5 DEF LocalInv, TypeOK
  <1>7. /\ status' \in [Tasks -> Statuses] /\ command' \in [Tasks -> Commands \cup {"NULL"}]
        /\ stale' \in [Tasks -> BOOLEAN] /\ status'[t] = st /\ command'[t] = cmd
        /\ \A u \in Tasks \ {t} : status'[u] = status[u] /\ command'[u] = command[u]
    <2>1. TypeOK /\ st \in Statuses
      BY TypesOfConstants DEF LocalInv
    <2> QED
      BY <1>3, <2>1, WriteEffect
  <1>8. TypeOK'
    BY <1>4, <1>6, <1>7 DEF LocalInv, TypeOK
  <1>9. RowsNameCommand'
    BY <1>7 DEF LocalInv, RowsNameCommand
  <1>10. RequestsOK'
    BY <1>6 DEF LocalInv, RequestsOK
  <1> QED
    BY <1>4, <1>8, <1>9, <1>10 DEF LocalInv, RecallsOK, MastersOK, JobsOK

(* proceed goes from its first write to the second with an UPLOADED row in     *)
(* mind.                                                                       *)
LEMMA LocalClearDryRun ==
    ASSUME LocalInv, NEW c \in Clients, ClearDryRun(c)
    PROVE  LocalInv'
  <1>1. /\ UNCHANGED <<status, command, twname, schedd, dag, ontape, mpc, batch, acked, job,
                       phase, recall, requests, faults, crashes, stale, unreported>>
        /\ req' = [req EXCEPT ![c].op = "proceed2"]
        /\ dryrun' = [dryrun EXCEPT ![req[c].task] = FALSE]
        /\ req[c].op = "proceed" /\ req[c].row.status = "UPLOADED"
    BY DEF ClearDryRun, twVars, recallVars, counters
  <1>2. /\ req[c] \in [op : {"kill", "resubmit", "proceed", "proceed2"}, task : Tasks, row : RowType]
        /\ req \in [Clients -> ReqType]
    BY <1>1 DEF LocalInv, TypeOK, ReqType, NoReq
  <1>3. PICK r : r = [req[c] EXCEPT !.op = "proceed2"]
    OBVIOUS
  <1>4. r \in ReqType /\ r.row = req[c].row
    BY <1>2, <1>3 DEF ReqType
  <1>5. /\ req' \in [Clients -> ReqType] /\ req'[c] = r
        /\ \A d \in Clients \ {c} : req'[d] = req[d]
    BY <1>1, <1>2, <1>3, <1>4
  <1>6. dryrun' \in [Tasks -> BOOLEAN]
    BY <1>1, <1>2 DEF LocalInv, TypeOK
  <1>7. TypeOK'
    BY <1>1, <1>5, <1>6 DEF LocalInv, TypeOK
  <1>8. RequestsOK'
    BY <1>1, <1>4, <1>5 DEF LocalInv, RequestsOK
  <1> QED
    BY <1>1, <1>7, <1>8 DEF LocalInv, RowsNameCommand, RecallsOK, MastersOK, JobsOK

(* The end of a DAG and the stage-in keep LocalInv.                            *)
LEMMA LocalEnvironment ==
    ASSUME LocalInv, NEW t \in Tasks, DagLeaves(t) \/ StageIn(t)
    PROVE  LocalInv'
  <1>1. /\ UNCHANGED <<status, command, twname, dryrun, schedd, req, mpc, batch, acked, job,
                       phase, recall, requests, faults, crashes, stale>>
        /\ \/ /\ dag' = [dag EXCEPT ![t] = "none"] /\ unreported' = [unreported EXCEPT ![t] = FALSE]
              /\ ontape' = ontape
           \/ ontape' = [ontape EXCEPT ![t] = FALSE] /\ dag' = dag /\ unreported' = unreported
    BY DEF DagLeaves, StageIn, dbVars, twVars, recallVars, counters
  <1>2. /\ dag' \in [Tasks -> {"none", "running", "held"}] /\ ontape' \in [Tasks -> BOOLEAN]
        /\ unreported' \in [Tasks -> BOOLEAN]
    BY <1>1 DEF LocalInv, TypeOK
  <1>3. TypeOK'
    BY <1>1, <1>2 DEF LocalInv, TypeOK
  <1> QED
    BY <1>1, <1>3 DEF LocalInv, RowsNameCommand, RequestsOK, RecallsOK, MastersOK, JobsOK

(* The failure written by the PreDAG keeps LocalInv.                           *)
LEMMA LocalDagFails ==
    ASSUME LocalInv, NEW t \in Tasks, DagFails(t)
    PROVE  LocalInv'
  <1>1. /\ UNCHANGED <<twname, dryrun, schedd, dag, ontape, req, mpc, batch, acked, job, phase, recall,
                       requests, faults, crashes, unreported>>
        /\ Write(t, "FAILED", command[t], [status |-> "SUBMITTED", command |-> command[t]])
    BY DEF DagFails, twVars, recallVars, counters
  <1>2. PICK cmd \in Commands \cup {"NULL"} : cmd = command[t]
    BY DEF LocalInv, TypeOK
  <1>3. /\ status' \in [Tasks -> Statuses] /\ command' \in [Tasks -> Commands \cup {"NULL"}]
        /\ stale' \in [Tasks -> BOOLEAN] /\ status'[t] = "FAILED"
        /\ \A u \in Tasks \ {t} : status'[u] = status[u] /\ command'[u] = command[u]
    <2>1. TypeOK /\ "FAILED" \in Statuses
      BY TypesOfConstants DEF LocalInv
    <2> QED
      BY <1>1, <1>2, <2>1, WriteEffect
  <1>4. TypeOK'
    BY <1>1, <1>3 DEF LocalInv, TypeOK
  <1>5. RowsNameCommand'
    BY <1>3 DEF LocalInv, RowsNameCommand
  <1> QED
    BY <1>1, <1>4, <1>5 DEF LocalInv, RequestsOK, RecallsOK, MastersOK, JobsOK
-------------------------------------------------------------------------------
(* The master process.                                                         *)

(* A fault keeps the bound.                                                    *)
LEMMA FaultType ==
    ASSUME TypeOK, Fault \/ UNCHANGED faults
    PROVE  faults' \in 0..MaxFaults
  BY LifecycleAssumption DEF TypeOK, Fault

(* What one TaskWorker has in its batch, and in its list of tasks to inject.   *)
MasterOK(w) ==
    /\ mpc[w] \in {"restart", "down"} => \A s \in Slots : job[w][s] = NoJob
    /\ mpc[w] \in {"top", "get", "down"} => batch[w] = {}
    /\ mpc[w] # "ack" => acked[w] = {}
    /\ \A x \in batch[w] : BatchRow(mpc[w], x)
    /\ \A x, y \in batch[w] : x.task = y.task => x = y
    /\ \A x \in acked[w] : x.command \in Commands

(* MastersOK, by TaskWorker.                                                   *)
LEMMA MastersAre == MastersOK <=> \A w \in TWs : MasterOK(w)
  BY DEF MastersOK, MasterOK

(* A batch of a master that is at p.                                           *)
Batch(p, B) ==
    /\ B \in SUBSET SnapshotType
    /\ p \in {"top", "get", "down"} => B = {}
    /\ \A x \in B : BatchRow(p, x)
    /\ \A x, y \in B : x.task = y.task => x = y

Acked(p, A) ==
    /\ A \in SUBSET SnapshotType
    /\ p # "ack" => A = {}
    /\ \A x \in A : x.command \in Commands

(* A step of the master of w that leaves the other TaskWorkers alone.          *)
Moves(w, p, B, A) ==
    /\ mpc' = [mpc EXCEPT ![w] = p] /\ batch' = [batch EXCEPT ![w] = B]
    /\ acked' = [acked EXCEPT ![w] = A] /\ job' = job
    /\ p \in {"restart", "down"} => mpc[w] \in {"restart", "down"}

(* A step of one master process keeps MastersOK when that process is left as   *)
(* it should be.                                                               *)
LEMMA MasterStep ==
    ASSUME LocalInv, NEW w \in TWs, NEW p \in {"restart", "top", "get", "ack", "down"},
           NEW B, NEW A, Batch(p, B), Acked(p, A), Moves(w, p, B, A)
    PROVE  /\ MastersOK'
           /\ mpc' \in [TWs -> {"restart", "top", "get", "ack", "down"}]
           /\ batch' \in [TWs -> SUBSET SnapshotType] /\ acked' \in [TWs -> SUBSET SnapshotType]
           /\ mpc'[w] = p /\ batch'[w] = B /\ acked'[w] = A
           /\ \A v \in TWs \ {w} : mpc'[v] = mpc[v] /\ batch'[v] = batch[v] /\ acked'[v] = acked[v]
  <1>1. /\ mpc' \in [TWs -> {"restart", "top", "get", "ack", "down"}]
        /\ mpc'[w] = p /\ \A v \in TWs \ {w} : mpc'[v] = mpc[v]
    BY DEF LocalInv, TypeOK, Moves
  <1>2. /\ batch' \in [TWs -> SUBSET SnapshotType]
        /\ batch'[w] = B /\ \A v \in TWs \ {w} : batch'[v] = batch[v]
    BY DEF LocalInv, TypeOK, Moves, Batch
  <1>3. /\ acked' \in [TWs -> SUBSET SnapshotType]
        /\ acked'[w] = A /\ \A v \in TWs \ {w} : acked'[v] = acked[v]
    BY DEF LocalInv, TypeOK, Moves, Acked
  <1>0. job' = job /\ (p \in {"restart", "down"} => mpc[w] \in {"restart", "down"})
    BY DEF Moves
  <1>4. \A v \in TWs \ {w} : MasterOK(v)'
    BY <1>0, <1>1, <1>2, <1>3, MastersAre DEF LocalInv, MasterOK
  <1>5. MasterOK(w)'
    BY <1>0, <1>1, <1>2, <1>3, MastersAre DEF LocalInv, MasterOK, Batch, Acked
  <1>6. MastersOK'
    BY <1>4, <1>5 DEF MastersOK, MasterOK
  <1> QED
    BY <1>1, <1>2, <1>3, <1>6

(* An action of the master that writes no row and starts no handler.           *)
Reads(w, p, B) ==
    /\ mpc' = [mpc EXCEPT ![w] = p] /\ batch' = [batch EXCEPT ![w] = B]
    /\ p \in {"restart", "down"} => mpc[w] \in {"restart", "down"}
    /\ p # "ack" => acked[w] = {}
    /\ UNCHANGED <<status, command, twname, dryrun, schedd, dag, ontape, req, acked, job, phase, recall,
                   requests, crashes, stale, unreported>>
    /\ Fault \/ UNCHANGED faults

(* A step of the master that writes no row keeps LocalInv.                     *)
LEMMA MasterReads ==
    ASSUME LocalInv, NEW w \in TWs, NEW p \in {"restart", "top", "get", "ack", "down"},
           NEW B, Batch(p, B), Reads(w, p, B)
    PROVE  LocalInv'
  <1>1. PICK A \in SUBSET SnapshotType : A = acked[w]
    BY DEF LocalInv, TypeOK
  <1>2. acked' = [acked EXCEPT ![w] = A]
    BY <1>1 DEF LocalInv, TypeOK, Reads
  <1>3. Acked(p, A)
    BY <1>1 DEF LocalInv, MastersOK, Acked, Reads
  <1>4. Moves(w, p, B, A)
    BY <1>2 DEF Moves, Reads
  <1>5. /\ MastersOK'
        /\ mpc' \in [TWs -> {"restart", "top", "get", "ack", "down"}]
        /\ batch' \in [TWs -> SUBSET SnapshotType] /\ acked' \in [TWs -> SUBSET SnapshotType]
    BY <1>3, <1>4, MasterStep
  <1>6. faults' \in 0..MaxFaults
    BY FaultType DEF LocalInv, Reads
  <1>7. TypeOK'
    BY <1>5, <1>6 DEF LocalInv, TypeOK, Reads
  <1> QED
    BY <1>5, <1>7 DEF LocalInv, RowsNameCommand, RequestsOK, RecallsOK, JobsOK, Reads

(* Rows as they are read.                                                      *)
LEMMA SnapshotOK ==
    ASSUME LocalInv, NEW t \in Tasks
    PROVE  /\ Snapshot(t) \in SnapshotType /\ Snapshot(t).task = t
           /\ Snapshot(t).row = Row(t) /\ Snapshot(t).row.status = status[t]
           /\ Snapshot(t).row.command = command[t] /\ Snapshot(t).command = command[t]
           /\ Snapshot(t).dry = dryrun[t]
  BY DEF Snapshot, SnapshotType, RowType, Row, LocalInv, TypeOK

Snapshots(rows) == {Snapshot(t) : t \in rows}

(* GetReadyTasks only gives rows in the status asked for, of the TaskWorker    *)
(* that asks.                                                                  *)
LEMMA ReadyTasks ==
    ASSUME NEW w, NEW n, NEW st, NEW rows \in GetReadyTasks(w, n, st)
    PROVE  rows \subseteq Tasks /\ \A t \in rows : status[t] = st /\ twname[t] = w
  BY DEF GetReadyTasks, Limited

(* A batch that has just been read is as BatchRow says, one row per task.      *)
LEMMA BatchRead ==
    ASSUME LocalInv, NEW st, NEW p, <<p, st>> \in {<<"restart", "QUEUED">>, <<"ack", "HOLDING">>},
           NEW rows \in SUBSET Tasks, \A t \in rows : status[t] = st
    PROVE  Batch(p, Snapshots(rows))
  <1>1. \A t \in rows : command[t] \in Commands
    BY DEF LocalInv, RowsNameCommand
  <1>2. \A t \in rows : BatchRow(p, Snapshot(t))
    BY <1>1, SnapshotOK DEF BatchRow
  <1>3. \A t \in rows : Snapshot(t) \in SnapshotType /\ Snapshot(t).task = t
    BY SnapshotOK
  <1> QED
    BY <1>2, <1>3 DEF Batch, Snapshots

(* restartQueuedTasks reads a chunk.                                           *)
LEMMA LocalRestartGet ==
    ASSUME LocalInv, NEW w \in TWs, RestartGet(w)
    PROVE  LocalInv'
  <1>1. PICK rows \in GetReadyTasks(w, Cardinality(Slots), "QUEUED") :
            batch' = [batch EXCEPT ![w] = Snapshots(rows)]
    BY DEF RestartGet, Snapshots
  <1>2. PICK B : B = Snapshots(rows)
    OBVIOUS
  <1>3. Batch("restart", B)
    BY <1>2, ReadyTasks, BatchRead
  <1>4. mpc[w] = "restart" /\ mpc' = [mpc EXCEPT ![w] = "restart"] /\ acked[w] = {}
    <2>1. mpc[w] = "restart" /\ mpc' = mpc
      BY DEF RestartGet
    <2>2. mpc = [mpc EXCEPT ![w] = mpc[w]]
      BY DEF LocalInv, TypeOK
    <2>3. acked[w] = {}
      BY <2>1 DEF LocalInv, MastersOK
    <2> QED
      BY <2>1, <2>2, <2>3
  <1>5. Reads(w, "restart", B)
    BY <1>1, <1>2, <1>4 DEF RestartGet, dbVars, recallVars, counters, Reads
  <1> QED
    BY <1>3, <1>5, MasterReads

(* getWork reads the HOLDING rows.                                             *)
LEMMA LocalGetWork ==
    ASSUME LocalInv, NEW w \in TWs, GetWork(w)
    PROVE  LocalInv'
  <1>1. mpc[w] = "get" /\ batch[w] = {} /\ acked[w] = {}
    BY DEF GetWork, LocalInv, MastersOK
  <1>2. \E B : batch' = [batch EXCEPT ![w] = B] /\ Batch("ack", B)
    <2>1. CASE UNCHANGED batch
      <3>1. batch' = [batch EXCEPT ![w] = {}]
        BY <1>1, <2>1 DEF LocalInv, TypeOK
      <3>2. Batch("ack", {})
        BY DEF Batch
      <3> QED
        BY <3>1, <3>2
    <2>2. CASE \E rows \in GetReadyTasks(w, Cardinality(Idle(w)), "HOLDING") :
                batch' = [batch EXCEPT ![w] = {Snapshot(t) : t \in rows}]
      <3>1. PICK rows \in GetReadyTasks(w, Cardinality(Idle(w)), "HOLDING") :
                batch' = [batch EXCEPT ![w] = Snapshots(rows)]
        BY <2>2 DEF Snapshots
      <3>2. rows \subseteq Tasks /\ \A t \in rows : status[t] = "HOLDING"
        BY DEF GetReadyTasks, Limited
      <3>3. Batch("ack", Snapshots(rows))
        BY <3>2, BatchRead
      <3> QED
        BY <3>1, <3>3
    <2> QED
      BY <2>1, <2>2 DEF GetWork
  <1>3. PICK B : batch' = [batch EXCEPT ![w] = B] /\ Batch("ack", B)
    BY <1>2
  <1>4. Reads(w, "ack", B)
    BY <1>3 DEF GetWork, dbVars, recallVars, Reads
  <1> QED
    BY <1>3, <1>4, MasterReads

(* A batch of which some rows are left, or none.                               *)
LEMMA SmallerBatch ==
    ASSUME NEW p, NEW B, Batch(p, B), NEW C \in SUBSET B
    PROVE  Batch(p, C) /\ \A q : Batch(q, {})
  BY DEF Batch

(* The batch of a TaskWorker is a set of snapshots of rows that name a         *)
(* command.                                                                    *)
LEMMA BatchIs ==
    ASSUME LocalInv, NEW w \in TWs
    PROVE  Batch(mpc[w], batch[w]) /\ Acked(mpc[w], acked[w])
  BY DEF LocalInv, TypeOK, MastersOK, Batch, Acked

(* The moves of the master that neither read nor write a row keep LocalInv.    *)
LEMMA LocalMasterMoves ==
    ASSUME LocalInv, NEW w \in TWs, RestartDone(w) \/ SkipTask(w) \/ EndOfTurn(w) \/ Start(w)
    PROVE  LocalInv'
  <1>0. UNCHANGED <<status, command, twname, dryrun, schedd, dag, ontape, req, acked, job, phase, recall,
                    requests, crashes, stale, unreported>>
    BY DEF RestartDone, SkipTask, EndOfTurn, Start, dbVars, recallVars, counters
  <1>1. Fault \/ UNCHANGED faults
    BY DEF RestartDone, SkipTask, EndOfTurn, Start, counters
  <1>2. /\ mpc \in [TWs -> {"restart", "top", "get", "ack", "down"}]
        /\ batch \in [TWs -> SUBSET SnapshotType]
        /\ mpc[w] # "ack" => acked[w] = {}
        /\ mpc[w] = "down" => batch[w] = {}
    BY DEF LocalInv, TypeOK, MastersOK
  <1>3. CASE RestartDone(w) \/ EndOfTurn(w)
    <2>1. mpc' = [mpc EXCEPT ![w] = "top"] /\ batch' = batch /\ batch[w] = {} /\ acked[w] = {}
      BY <1>2, <1>3 DEF RestartDone, EndOfTurn
    <2>2. Reads(w, "top", {})
      BY <1>0, <1>1, <1>2, <2>1 DEF Reads
    <2>3. Batch("top", {})
      BY DEF Batch
    <2> QED
      BY <2>2, <2>3, MasterReads
  <1>4. CASE SkipTask(w)
    <2>1. PICK x \in batch[w] : batch' = [batch EXCEPT ![w] = batch[w] \ {x}]
      BY <1>4 DEF SkipTask
    <2>2. mpc[w] = "ack" /\ mpc' = mpc
      BY <1>4 DEF SkipTask
    <2>3. PICK B : B = batch[w] \ {x}
      OBVIOUS
    <2>4. Batch("ack", B)
      BY <2>2, <2>3, BatchIs, SmallerBatch
    <2>5. Reads(w, "ack", B)
      BY <1>0, <1>1, <1>2, <2>1, <2>2, <2>3 DEF Reads
    <2> QED
      BY <2>4, <2>5, MasterReads
  <1>5. CASE Start(w)
    <2>1. mpc' = [mpc EXCEPT ![w] = "restart"] /\ batch' = batch /\ mpc[w] = "down"
      BY <1>5 DEF Start
    <2>2. Reads(w, "restart", {})
      BY <1>0, <1>1, <1>2, <2>1 DEF Reads
    <2>3. Batch("restart", {})
      BY DEF Batch
    <2> QED
      BY <2>2, <2>3, MasterReads
  <1> QED
    BY <1>3, <1>4, <1>5

(* The row that is sent again.                                                 *)
LEMMA ResentOK ==
    ASSUME LocalInv, NEW p \in {"restart", "ack"}, NEW C, Batch(p, C), NEW x \in C, NEW st \in Statuses,
           p = "restart" => st = "NEW",
           p = "ack" => st = IF Refused(x) THEN RefusedStatus(x) ELSE "QUEUED"
    PROVE  Batch(p, Resent(C, x, st, x.command))
  <1>1. x \in SnapshotType /\ x.command \in Commands
    BY DEF Batch, BatchRow
  <1>2. PICK y : y = [x EXCEPT !.row = [status |-> st, command |-> x.command]]
    OBVIOUS
  <1>3. /\ y \in SnapshotType /\ y.task = x.task /\ y.command = x.command
        /\ y.row = [status |-> st, command |-> x.command]
    BY <1>1, <1>2 DEF SnapshotType, RowType
  <1>4. BatchRow(p, y)
    BY <1>1, <1>3 DEF BatchRow, Refused, RefusedStatus
  <1>5. Resent(C, x, st, x.command) = (C \ {x}) \cup {y}
    BY <1>2 DEF Resent
  <1> QED
    BY <1>3, <1>4, <1>5 DEF Batch

(* A write of the master to the row of a task of its batch.                    *)
Writes(w, x, st, B, A) ==
    /\ mpc[w] \in {"restart", "ack"} /\ Write(x.task, st, x.command, x.row)
    /\ mpc[w] = "restart" => st = "NEW"
    /\ mpc[w] = "ack" => st = IF Refused(x) THEN RefusedStatus(x) ELSE "QUEUED"
    /\ B \in {batch[w] \ {x}, Resent(batch[w], x, st, x.command)}
    /\ batch' = [batch EXCEPT ![w] = B]
    /\ \/ A = acked[w]
       \/ mpc[w] = "ack" /\ ~Refused(x) /\ B = batch[w] \ {x} /\ A = acked[w] \cup {x}
    /\ acked' = [acked EXCEPT ![w] = A]
    /\ UNCHANGED <<twname, dryrun, schedd, dag, ontape, req, mpc, job, phase, recall, requests, crashes,
                   unreported>>
    /\ Fault \/ UNCHANGED faults

(* A write of the master keeps LocalInv.                                       *)
LEMMA MasterWrites ==
    ASSUME LocalInv, NEW w \in TWs, NEW x \in batch[w], NEW st \in Statuses, NEW B, NEW A,
           Writes(w, x, st, B, A)
    PROVE  LocalInv'
  <1>1. /\ x.task \in Tasks /\ x.command \in Commands /\ x \in SnapshotType
        /\ acked[w] \in SUBSET SnapshotType /\ TypeOK
    BY DEF LocalInv, TypeOK, MastersOK, BatchRow, SnapshotType
  <1>2. PICK t \in Tasks, cmd \in Commands : t = x.task /\ cmd = x.command
    BY <1>1
  <1>3. Write(t, st, cmd, x.row)
    BY <1>2 DEF Writes
  <1>4. /\ status' \in [Tasks -> Statuses] /\ command' \in [Tasks -> Commands \cup {"NULL"}]
        /\ stale' \in [Tasks -> BOOLEAN] /\ command'[t] = cmd
        /\ \A u \in Tasks \ {t} : status'[u] = status[u] /\ command'[u] = command[u]
    <2>1. cmd \in Commands \cup {"NULL"} /\ TypeOK
      BY <1>1
    <2> QED
      BY <1>3, <2>1, WriteEffect
  <1>5. PICK p \in {"restart", "ack"} : p = mpc[w]
    BY DEF Writes
  <1>6. Batch(p, batch[w]) /\ Acked(p, acked[w])
    BY <1>5, BatchIs
  <1>7. Batch(p, B)
    <2>1. CASE B = batch[w] \ {x}
      BY <1>6, <2>1, SmallerBatch
    <2>2. CASE B = Resent(batch[w], x, st, x.command)
      <3>1. /\ p = "restart" => st = "NEW"
            /\ p = "ack" => st = IF Refused(x) THEN RefusedStatus(x) ELSE "QUEUED"
        BY <1>5 DEF Writes
      <3> QED
        BY <1>6, <2>2, <3>1, ResentOK
    <2> QED
      BY <2>1, <2>2 DEF Writes
  <1>8. Acked(p, A)
    BY <1>1, <1>5, <1>6 DEF Acked, Writes
  <1>9. Moves(w, p, B, A)
    <2>1. mpc' = [mpc EXCEPT ![w] = p]
      BY <1>5 DEF LocalInv, TypeOK, Writes
    <2> QED
      BY <1>5, <2>1 DEF Moves, Writes
  <1>10. /\ MastersOK' /\ batch' \in [TWs -> SUBSET SnapshotType]
         /\ acked' \in [TWs -> SUBSET SnapshotType]
    BY <1>7, <1>8, <1>9, MasterStep
  <1>11. faults' \in 0..MaxFaults
    BY <1>1, FaultType DEF Writes
  <1>12. TypeOK'
    BY <1>4, <1>10, <1>11 DEF LocalInv, TypeOK, Writes
  <1>13. RowsNameCommand'
    BY <1>2, <1>4 DEF LocalInv, RowsNameCommand
  <1> QED
    BY <1>10, <1>12, <1>13 DEF LocalInv, RequestsOK, RecallsOK, JobsOK, Writes

(* RestartTask writes NEW for a row of the batch, or drops it.                 *)
LEMMA RestartWrites ==
    ASSUME LocalInv, NEW w \in TWs, RestartTask(w)
    PROVE  \/ \E x \in batch[w], st \in Statuses : \E B, A : Writes(w, x, st, B, A)
           \/ \E x \in batch[w] : Reads(w, "restart", batch[w] \ {x}) /\ Batch("restart", batch[w] \ {x})
  <1>1. PICK x \in batch[w] :
          \/ /\ Write(x.task, "NEW", x.command, x.row)
             /\ \/ batch' = [batch EXCEPT ![w] = batch[w] \ {x}] /\ UNCHANGED faults
                \/ batch' = [batch EXCEPT ![w] = Resent(batch[w], x, "NEW", x.command)] /\ Fault
          \/ /\ batch' = [batch EXCEPT ![w] = batch[w] \ {x}] /\ Fault
             /\ UNCHANGED <<status, command, stale>>
    BY DEF RestartTask
  <1>2. /\ mpc[w] = "restart" /\ acked[w] = {} /\ mpc' = mpc /\ acked' = acked
        /\ UNCHANGED <<twname, dryrun, schedd, dag, ontape, req, job, phase, recall, requests, crashes,
                       unreported>>
    BY DEF RestartTask, recallVars, LocalInv, MastersOK
  <1>3. acked' = [acked EXCEPT ![w] = acked[w]] /\ mpc' = [mpc EXCEPT ![w] = "restart"]
    BY <1>2 DEF LocalInv, TypeOK
  <1>4. CASE /\ Write(x.task, "NEW", x.command, x.row)
             /\ \/ batch' = [batch EXCEPT ![w] = batch[w] \ {x}] /\ UNCHANGED faults
                \/ batch' = [batch EXCEPT ![w] = Resent(batch[w], x, "NEW", x.command)] /\ Fault
    <2>1. PICK B : /\ B \in {batch[w] \ {x}, Resent(batch[w], x, "NEW", x.command)}
                   /\ batch' = [batch EXCEPT ![w] = B]
                   /\ Fault \/ UNCHANGED faults
      BY <1>4
    <2>2. Writes(w, x, "NEW", B, acked[w])
      BY <1>2, <1>3, <1>4, <2>1 DEF Writes
    <2>3. "NEW" \in Statuses
      BY TypesOfConstants
    <2> QED
      BY <2>2, <2>3
  <1>5. CASE /\ batch' = [batch EXCEPT ![w] = batch[w] \ {x}] /\ Fault
             /\ UNCHANGED <<status, command, stale>>
    <2>1. PICK B : B = batch[w] \ {x}
      OBVIOUS
    <2>2. Batch("restart", B)
      BY <1>2, <2>1, BatchIs, SmallerBatch
    <2>3. Reads(w, "restart", B)
      BY <1>2, <1>3, <1>5, <2>1 DEF Reads
    <2> QED
      BY <2>1, <2>2, <2>3
  <1> QED
    BY <1>1, <1>4, <1>5

(* restartQueuedTasks keeps LocalInv.                                          *)
LEMMA LocalRestartTask ==
    ASSUME LocalInv, NEW w \in TWs, RestartTask(w)
    PROVE  LocalInv'
  <1>1. CASE \E x \in batch[w], st \in Statuses : \E B, A : Writes(w, x, st, B, A)
    BY <1>1, MasterWrites
  <1>2. CASE \E x \in batch[w] : Reads(w, "restart", batch[w] \ {x}) /\ Batch("restart", batch[w] \ {x})
    <2>1. PICK B : Reads(w, "restart", B) /\ Batch("restart", B)
      BY <1>2
    <2> QED
      BY <2>1, MasterReads
  <1> QED
    BY <1>1, <1>2, RestartWrites

(* What every call of updateWork that is not given up does.                    *)
Acks(w, x, st) ==
    /\ mpc[w] = "ack" /\ Write(x.task, st, x.command, x.row)
    /\ \/ batch' = [batch EXCEPT ![w] = batch[w] \ {x}]
       \/ batch' = [batch EXCEPT ![w] = Resent(batch[w], x, st, x.command)]
    /\ UNCHANGED <<twname, dryrun, schedd, dag, ontape, req, mpc, job, phase, recall, requests, crashes,
                   unreported>>

(* What updateWork does to the batch.                                          *)
LEMMA BatchMoves ==
    ASSUME LocalInv, NEW w \in TWs, NEW x, NEW st, Acks(w, x, st)
    PROVE  /\ batch'[w] \in {batch[w] \ {x}, Resent(batch[w], x, st, x.command)}
           /\ batch' = [batch EXCEPT ![w] = batch'[w]]
  BY DEF LocalInv, TypeOK, Acks

(* RefuseTask and QueueTask write the row of a task of the batch.              *)
LEMMA AckWrites ==
    ASSUME LocalInv, NEW w \in TWs, RefuseTask(w) \/ QueueTask(w)
    PROVE  \E x \in batch[w], st \in Statuses : \E B, A : Writes(w, x, st, B, A)
  <1>1. CASE RefuseTask(w)
    <2>1. PICK x \in batch[w] : Refused(x) /\ Ack(w, x, RefusedStatus(x), UNCHANGED acked)
      BY <1>1 DEF RefuseTask
    <2>2. RefusedStatus(x) \in Statuses
      <3>1. x.command \in Commands
        BY DEF LocalInv, MastersOK, BatchRow
      <3> QED
        BY <3>1, TypesOfConstants DEF RefusedStatus, Statuses, FinalStatuses
    <2>3. /\ Acks(w, x, RefusedStatus(x)) /\ acked' = acked
          /\ Fault \/ UNCHANGED faults
      BY <2>1 DEF Ack, Acks, recallVars
    <2>4. acked' = [acked EXCEPT ![w] = acked[w]]
      BY <2>3 DEF LocalInv, TypeOK
    <2>5. Writes(w, x, RefusedStatus(x), batch'[w], acked[w])
      BY <2>1, <2>3, <2>4, BatchMoves DEF Acks, Writes
    <2> QED
      BY <2>2, <2>5
  <1>2. CASE QueueTask(w)
    <2>1. PICK x \in batch[w] :
              ~Refused(x) /\ Ack(w, x, "QUEUED", acked' = [acked EXCEPT ![w] = acked[w] \cup {x}])
      BY <1>2 DEF QueueTask
    <2>2. Acks(w, x, "QUEUED") /\ (Fault \/ UNCHANGED faults)
      BY <2>1 DEF Ack, Acks, recallVars
    <2>3. \/ acked' = acked
          \/ /\ batch' = [batch EXCEPT ![w] = batch[w] \ {x}]
             /\ acked' = [acked EXCEPT ![w] = acked[w] \cup {x}]
      BY <2>1 DEF Ack
    <2>4. "QUEUED" \in Statuses
      BY TypesOfConstants
    <2>5. CASE acked' = acked
      <3>1. acked' = [acked EXCEPT ![w] = acked[w]]
        BY <2>5 DEF LocalInv, TypeOK
      <3>2. Writes(w, x, "QUEUED", batch'[w], acked[w])
        BY <2>1, <2>2, <3>1, BatchMoves DEF Acks, Writes
      <3> QED
        BY <2>4, <3>2
    <2>6. CASE /\ batch' = [batch EXCEPT ![w] = batch[w] \ {x}]
               /\ acked' = [acked EXCEPT ![w] = acked[w] \cup {x}]
      <3>1. Writes(w, x, "QUEUED", batch[w] \ {x}, acked[w] \cup {x})
        BY <2>1, <2>2, <2>6 DEF Acks, Writes
      <3> QED
        BY <2>4, <3>1
    <2> QED
      BY <2>3, <2>5, <2>6
  <1> QED
    BY <1>1, <1>2

(* Both keep LocalInv.                                                         *)
LEMMA LocalAck ==
    ASSUME LocalInv, NEW w \in TWs, RefuseTask(w) \/ QueueTask(w)
    PROVE  LocalInv'
  BY AckWrites, MasterWrites

(* _lockWork keeps LocalInv: NEW rows name their command.                      *)
LEMMA LocalLockWork ==
    ASSUME LocalInv, NEW w \in TWs, LockWork(w)
    PROVE  LocalInv'
  <1>1. /\ mpc[w] = "top"
        /\ UNCHANGED <<command, dryrun, schedd, dag, ontape, req, batch, acked, job, phase, recall,
                       requests, crashes, stale, unreported>>
        /\ Fault \/ UNCHANGED faults
    BY DEF LockWork, recallVars
  <1>2. PICK rows \in SUBSET {t \in Tasks : status[t] = "NEW"} :
            /\ status' = [t \in Tasks |-> IF t \in rows THEN "HOLDING" ELSE status[t]]
            /\ twname' = [t \in Tasks |-> IF t \in rows THEN w ELSE twname[t]]
    BY DEF LockWork, UpdateWorker, Limited
  <1>3. PICK p \in {"top", "get"} : mpc' = [mpc EXCEPT ![w] = p]
    BY <1>1 DEF LockWork, LocalInv, TypeOK
  <1>4. status' \in [Tasks -> Statuses] /\ twname' \in [Tasks -> TWs \cup {NoTW}]
    BY <1>2, TypesOfConstants DEF LocalInv, TypeOK
  <1>5. RowsNameCommand'
    BY <1>1, <1>2 DEF LocalInv, RowsNameCommand
  <1>6. batch[w] = {} /\ acked[w] = {}
    BY <1>1 DEF LocalInv, MastersOK
  <1>7. Batch(p, {}) /\ Acked(p, {})
    BY DEF Batch, Acked
  <1>8. Moves(w, p, {}, {})
    BY <1>1, <1>3, <1>6 DEF Moves, LocalInv, TypeOK
  <1>9. MastersOK' /\ mpc' \in [TWs -> {"restart", "top", "get", "ack", "down"}]
    <2>1. p \in {"restart", "top", "get", "ack", "down"}
      OBVIOUS
    <2> QED
      BY <1>7, <1>8, <2>1, MasterStep
  <1>10. faults' \in 0..MaxFaults
    BY <1>1, FaultType DEF LocalInv
  <1>11. TypeOK'
    BY <1>1, <1>4, <1>9, <1>10 DEF LocalInv, TypeOK
  <1> QED
    BY <1>1, <1>5, <1>9, <1>11 DEF LocalInv, RequestsOK, RecallsOK, JobsOK

(* The handler in a slot of a TaskWorker starts, goes on or ends.              *)
JobBecomes(w, s, j) ==
    /\ j \in JobType /\ job' \in [TWs -> [Slots -> JobType]] /\ job'[w][s] = j
    /\ \A v \in TWs, r \in Slots : v # w \/ r # s => job'[v][r] = job[v][r]

(* A handler that becomes j keeps JobsOK when j is as it should be.            *)
LEMMA JobStep ==
    ASSUME LocalInv, NEW w \in TWs, NEW s \in Slots, mpc[w] \notin {"restart", "down"},
           NEW j, JobBecomes(w, s, j), j # NoJob => JobOK(j)
    PROVE  /\ JobsOK'
           /\ \A v \in TWs : mpc[v] \in {"restart", "down"} => \A r \in Slots : job'[v][r] = NoJob
  <1>1. \A v \in TWs, r \in Slots : job'[v][r] # NoJob => JobOK(job'[v][r])
    BY DEF JobBecomes, LocalInv, JobsOK
  <1>2. \A v \in TWs : mpc[v] \in {"restart", "down"} => \A r \in Slots : job'[v][r] = NoJob
    BY DEF JobBecomes, LocalInv, MastersOK
  <1> QED
    BY <1>1, <1>2 DEF JobsOK

(* An assignment to one slot.                                                  *)
LEMMA JobSet ==
    ASSUME LocalInv, NEW w \in TWs, NEW s \in Slots, NEW j \in JobType,
           job' = [job EXCEPT ![w][s] = j]
    PROVE  JobBecomes(w, s, j)
  <1>1. job \in [TWs -> [Slots -> JobType]]
    BY DEF LocalInv, TypeOK
  <1> QED
    BY <1>1 DEF JobBecomes

(* A task of the list to inject as a handler begins with it.                   *)
Injected(x) == [pc |-> "run", task |-> x.task, command |-> x.command, dry |-> x.dry, out |-> "NONE",
                row |-> [status |-> "QUEUED", command |-> x.command]]

(* injectWorks puts a task of toInject in a free slot.                         *)
LEMMA Injects ==
    ASSUME LocalInv, NEW w \in TWs, InjectWork(w)
    PROVE  /\ mpc[w] = "ack" /\ batch[w] = {} /\ UNCHANGED <<mpc, batch>>
           /\ \E x \in acked[w], s \in Slots :
                /\ x.task \in Tasks
                /\ job[w][s] = NoJob /\ JobBecomes(w, s, Injected(x)) /\ JobOK(Injected(x))
                /\ Injected(x) # NoJob
                /\ acked' = [acked EXCEPT ![w] = acked[w] \ {x}]
           /\ UNCHANGED <<status, command, twname, dryrun, schedd, dag, ontape, req, phase, recall,
                          requests, faults, crashes, stale, unreported>>
  <1>1. PICK x \in acked[w], s \in Slots :
          /\ job[w][s] = NoJob /\ job' = [job EXCEPT ![w][s] = Injected(x)]
          /\ acked' = [acked EXCEPT ![w] = acked[w] \ {x}]
    BY DEF InjectWork, Idle, Injected
  <1>2. x \in SnapshotType /\ x.command \in Commands
    BY DEF LocalInv, TypeOK, MastersOK
  <1>3. PICK j : j = Injected(x)
    OBVIOUS
  <1>4. "QUEUED" \in Statuses /\ "NONE" \in Statuses
    BY TypesOfConstants
  <1>5. j \in JobType /\ j # NoJob /\ x.task \in Tasks
    BY <1>2, <1>3, <1>4 DEF Injected, JobType, RowType, SnapshotType, NoJob
  <1>6. JobOK(j)
    BY <1>2, <1>3, TypesOfConstants DEF Injected, JobOK, Success, FailureStatuses
  <1>7. JobBecomes(w, s, j)
    BY <1>1, <1>3, <1>5, JobSet
  <1> QED
    BY <1>1, <1>3, <1>5, <1>6, <1>7 DEF InjectWork, dbVars, recallVars, counters

(* injectWorks keeps LocalInv.                                                 *)
LEMMA LocalInjectWork ==
    ASSUME LocalInv, NEW w \in TWs, InjectWork(w)
    PROVE  LocalInv'
  <1>1. PICK x \in acked[w], s \in Slots :
          /\ JobBecomes(w, s, Injected(x)) /\ JobOK(Injected(x))
          /\ acked' = [acked EXCEPT ![w] = acked[w] \ {x}]
    BY Injects
  <1>2. /\ mpc[w] = "ack" /\ batch[w] = {} /\ UNCHANGED <<mpc, batch>>
        /\ UNCHANGED <<status, command, twname, dryrun, schedd, dag, ontape, req, phase, recall,
                       requests, faults, crashes, stale, unreported>>
    BY Injects
  <1>3. /\ JobsOK'
        /\ \A v \in TWs : mpc[v] \in {"restart", "down"} => \A r \in Slots : job'[v][r] = NoJob
    BY <1>1, <1>2, JobStep
  <1>4. /\ acked' \in [TWs -> SUBSET SnapshotType] /\ acked'[w] \subseteq acked[w]
        /\ \A v \in TWs \ {w} : acked'[v] = acked[v]
    BY <1>1 DEF LocalInv, TypeOK
  <1>5. MastersOK'
    BY <1>2, <1>3, <1>4 DEF LocalInv, MastersOK
  <1>6. TypeOK'
    BY <1>1, <1>2, <1>4 DEF LocalInv, TypeOK, JobBecomes
  <1> QED
    BY <1>2, <1>3, <1>5, <1>6 DEF LocalInv, RowsNameCommand, RequestsOK, RecallsOK

(* A crash keeps LocalInv: nothing is left to say of the TaskWorker.           *)
LEMMA LocalCrash ==
    ASSUME LocalInv, NEW w \in TWs, Crash(w)
    PROVE  LocalInv'
  <1>1. /\ crashes < MaxCrashes /\ crashes' = crashes + 1
        /\ mpc' = [mpc EXCEPT ![w] = "down"] /\ batch' = [batch EXCEPT ![w] = {}]
        /\ acked' = [acked EXCEPT ![w] = {}] /\ job' = [job EXCEPT ![w] = [s \in Slots |-> NoJob]]
        /\ phase' = [phase EXCEPT ![w] = "idle"] /\ recall' = [recall EXCEPT ![w] = {}]
        /\ UNCHANGED <<status, command, twname, dryrun, schedd, dag, ontape, req, requests, faults,
                       stale, unreported>>
    BY DEF Crash, dbVars
  <1>2. crashes' \in 0..MaxCrashes
    BY <1>1, LifecycleAssumption DEF LocalInv, TypeOK
  <1>3. /\ mpc' \in [TWs -> {"restart", "top", "get", "ack", "down"}] /\ mpc'[w] = "down"
        /\ \A v \in TWs \ {w} : mpc'[v] = mpc[v]
    BY <1>1 DEF LocalInv, TypeOK
  <1>4. /\ batch' \in [TWs -> SUBSET SnapshotType] /\ batch'[w] = {}
        /\ \A v \in TWs \ {w} : batch'[v] = batch[v]
    BY <1>1 DEF LocalInv, TypeOK
  <1>5. /\ acked' \in [TWs -> SUBSET SnapshotType] /\ acked'[w] = {}
        /\ \A v \in TWs \ {w} : acked'[v] = acked[v]
    BY <1>1 DEF LocalInv, TypeOK
  <1>6. /\ job' \in [TWs -> [Slots -> JobType]] /\ \A s \in Slots : job'[w][s] = NoJob
        /\ \A v \in TWs \ {w} : job'[v] = job[v]
    <2>1. [s \in Slots |-> NoJob] \in [Slots -> JobType]
      BY DEF JobType
    <2> QED
      BY <1>1, <2>1 DEF LocalInv, TypeOK
  <1>7. /\ phase' \in [TWs -> {"idle", "TAPERECALL", "KILLRECALL"}]
        /\ \A v \in TWs \ {w} : phase'[v] = phase[v]
    BY <1>1 DEF LocalInv, TypeOK
  <1>8. /\ recall' \in [TWs -> SUBSET SnapshotType] /\ recall'[w] = {}
        /\ \A v \in TWs \ {w} : recall'[v] = recall[v]
    BY <1>1 DEF LocalInv, TypeOK
  <1>9. TypeOK'
    BY <1>1, <1>2, <1>3, <1>4, <1>5, <1>6, <1>7, <1>8 DEF LocalInv, TypeOK
  <1>10. MasterOK(w)'
    BY <1>3, <1>4, <1>5, <1>6 DEF MasterOK
  <1>11. \A v \in TWs \ {w} : MasterOK(v)'
    BY <1>3, <1>4, <1>5, <1>6, MastersAre DEF LocalInv, MasterOK
  <1>12. MastersOK'
    BY <1>10, <1>11 DEF MastersOK, MasterOK
  <1>13. JobsOK'
    BY <1>6 DEF LocalInv, JobsOK
  <1>14. RecallsOK'
    BY <1>7, <1>8 DEF LocalInv, RecallsOK
  <1> QED
    BY <1>1, <1>9, <1>12, <1>13, <1>14 DEF LocalInv, RowsNameCommand, RequestsOK

-------------------------------------------------------------------------------
(* The handlers.                                                               *)

(* The job i with another place and outcome.                                   *)
Turned(i, pc, out) ==
    [pc |-> pc, task |-> i.task, command |-> i.command, dry |-> i.dry, out |-> out, row |-> i.row]

(* The handler of a slot that is not idle.                                     *)
LEMMA JobIs ==
    ASSUME LocalInv, NEW w \in TWs, NEW s \in Slots, job[w][s].pc # "idle"
    PROVE  /\ job[w][s] \in [pc : {"run", "post", "fail"}, task : Tasks, command : Commands,
                             dry : BOOLEAN, out : Statuses, row : RowType]
           /\ job[w][s] # NoJob /\ JobOK(job[w][s]) /\ mpc[w] \notin {"restart", "down"}
  <1>1. job[w][s] \in JobType
    BY DEF LocalInv, TypeOK
  <1>2. job[w][s] # NoJob
    BY DEF NoJob
  <1> QED
    BY <1>1, <1>2 DEF JobType, LocalInv, JobsOK, MastersOK

(* A turn of a handler changes its place and its outcome only.                 *)
LEMMA TurnStep ==
    ASSUME LocalInv, NEW w \in TWs, NEW s \in Slots, job[w][s].pc # "idle",
           NEW pc \in {"run", "post", "fail"}, NEW out \in Statuses, Turn(w, s, pc, out)
    PROVE  /\ JobBecomes(w, s, Turned(job[w][s], pc, out))
           /\ Turned(job[w][s], pc, out) # NoJob
  <1>1. PICK i \in [pc : {"run", "post", "fail"}, task : Tasks, command : Commands,
                    dry : BOOLEAN, out : Statuses, row : RowType] : i = job[w][s]
    BY JobIs
  <1>2. PICK j : j = [[i EXCEPT !.pc = pc] EXCEPT !.out = out]
    OBVIOUS
  <1>3. j = Turned(i, pc, out)
    BY <1>1, <1>2 DEF Turned
  <1>4. j \in JobType /\ j # NoJob
    BY <1>3 DEF Turned, JobType, NoJob
  <1>5. job \in [TWs -> [Slots -> JobType]]
    BY DEF LocalInv, TypeOK
  <1>6. job' = [job EXCEPT ![w][s].pc = pc, ![w][s].out = out]
    BY DEF Turn
  <1>7. /\ job' \in [TWs -> [Slots -> JobType]] /\ job'[w][s] = j
        /\ \A v \in TWs, r \in Slots : v # w \/ r # s => job'[v][r] = job[v][r]
    BY <1>1, <1>2, <1>4, <1>5, <1>6
  <1> QED
    BY <1>1, <1>3, <1>4, <1>7 DEF JobBecomes

(* A job as a handler, with what may be said of its next turn.                 *)
JobRecord == [pc : {"run", "post", "fail"}, task : Tasks, command : Commands, dry : BOOLEAN,
              out : Statuses, row : RowType]

(* failTask reports the failure of the command of the handler.                 *)
LEMMA FailOK ==
    ASSUME NEW i \in JobRecord, JobOK(i)
    PROVE  FailStatus(i.command) \in Statuses /\ JobOK(Turned(i, "fail", FailStatus(i.command)))
  <1>1. i.command \in {"SUBMIT", "KILL", "RESUBMIT"}
    BY TypesOfConstants DEF JobRecord
  <1>2. /\ FailStatus(i.command) \in {"SUBMITFAILED", "KILLFAILED", "RESUBMITFAILED"}
        /\ FailStatus(i.command) \in Statuses
    BY <1>1, TypesOfConstants
  <1>3. PICK f : f = FailStatus(i.command)
    OBVIOUS
  <1>4. PICK j : j = Turned(i, "fail", f)
    OBVIOUS
  <1>5. /\ j.pc = "fail" /\ j.out = f /\ j.command = i.command /\ j.dry = i.dry /\ j.row = i.row
    BY <1>4 DEF Turned
  <1>6. JobOK(j)
    BY <1>2, <1>3, <1>5 DEF JobOK
  <1> QED
    BY <1>2, <1>3, <1>4, <1>6

(* The successes, by command.                                                  *)
LEMMA SuccessIs ==
    /\ Success["SUBMIT"] = {"SUBMITTED", "TAPERECALL", "UPLOADED"}
    /\ Success["KILL"] = {"KILLED"} /\ Success["RESUBMIT"] = {"SUBMITTED"}
  BY DEF Success

(* A handler that has done its work reports a success of its command.          *)
LEMMA PostOK ==
    ASSUME NEW i \in JobRecord, JobOK(i), i.pc = "run", NEW out \in Success[i.command],
           out = "SUBMITTED" /\ i.command = "SUBMIT" => ~i.dry,
           out = "TAPERECALL" => i.out # "SUBMITTED",
           out = "UPLOADED" => i.dry
    PROVE  out \in Statuses /\ JobOK(Turned(i, "post", out))
  <1>1. i.command \in {"SUBMIT", "KILL", "RESUBMIT"}
    BY TypesOfConstants DEF JobRecord
  <1>2. out \in Statuses
    BY <1>1, TypesOfConstants DEF Success
  <1>3. PICK j : j = Turned(i, "post", out)
    OBVIOUS
  <1>4. /\ j.pc = "post" /\ j.out = out /\ j.command = i.command /\ j.dry = i.dry /\ j.row = i.row
    BY <1>3 DEF Turned
  <1>5. /\ i.row.status # FailStatus(i.command)
        /\ i.out = "NONE" \/ (i.command = "SUBMIT" /\ i.out \in {"TAPERECALL", "SUBMITTED"})
    BY DEF JobOK
  <1>6. /\ i.row.status = "QUEUED" => i.row.command = i.command
        /\ i.row.status \in {"QUEUED", FailStatus(i.command)} \cup Success[i.command]
        /\ i.command = "SUBMIT" /\ i.row.status \in {"SUBMITTED", "UPLOADED"} => i.out = i.row.status
        /\ i.command = "SUBMIT" /\ i.row.status = "SUBMITTED" => ~i.dry
    BY DEF JobOK
  <1>7. i.command = "SUBMIT" /\ i.row.status \in {"SUBMITTED", "UPLOADED"} => out = i.row.status
    <2>1. i.command = "SUBMIT" => out \in {"SUBMITTED", "TAPERECALL", "UPLOADED"}
      BY SuccessIs
    <2> QED
      BY <1>5, <1>6, <2>1
  <1>8. JobOK(j)
    BY <1>4, <1>5, <1>6, <1>7 DEF JobOK
  <1> QED
    BY <1>2, <1>3, <1>8

(* A handler that starts its action again may still report what it had to.     *)
LEMMA RetryOK ==
    ASSUME NEW i \in JobRecord, JobOK(i), i.pc = "post", i.command = "SUBMIT",
           i.out \in {"TAPERECALL", "SUBMITTED"}
    PROVE  i.out \in Statuses /\ JobOK(Turned(i, "run", i.out))
  <1>1. PICK j : j = Turned(i, "run", i.out)
    OBVIOUS
  <1>2. /\ j.pc = "run" /\ j.out = i.out /\ j.command = i.command /\ j.dry = i.dry /\ j.row = i.row
    BY <1>1 DEF Turned
  <1> QED
    BY <1>1, <1>2, TypesOfConstants DEF JobOK

(* A handler acts on the scheduler, or gives its report up: it has its task,   *)
(* its command and its knowledge of the row as before.                         *)
Turns(w, s, pc, out) == Turn(w, s, pc, out) /\ JobOK(Turned(job[w][s], pc, out))

(* A failure is a turn that keeps JobOK.                                       *)
LEMMA HandlerFails ==
    ASSUME LocalInv, NEW w \in TWs, NEW s \in Slots, job[w][s].pc # "idle", Fail(w, s)
    PROVE  /\ FailStatus(job[w][s].command) \in Statuses
           /\ Turns(w, s, "fail", FailStatus(job[w][s].command))
  BY JobIs, FailOK DEF Fail, Turns, JobRecord

(* So is everything a handler does on the scheduler.                           *)
LEMMA HandlerActs ==
    ASSUME LocalInv, NEW w \in TWs, NEW s \in Slots,
           Prepare(w, s) \/ SubmitDAG(w, s) \/ KillDAG(w, s) \/ ResubmitDAG(w, s)
    PROVE  /\ job[w][s].pc = "run"
           /\ \E pc \in {"post", "fail"}, out \in Statuses : Turns(w, s, pc, out)
           /\ UNCHANGED <<status, command, twname, dryrun, ontape, req, mpc, batch, acked, phase,
                          recall, requests, faults, crashes, stale>>
  <1>1. job[w][s].pc = "run"
    BY DEF Prepare, SubmitDAG, KillDAG, ResubmitDAG, At
  <1>2. UNCHANGED <<status, command, twname, dryrun, ontape, req, mpc, batch, acked, phase,
                    recall, requests, faults, crashes, stale>>
    BY DEF Prepare, SubmitDAG, KillDAG, ResubmitDAG, dbVars, recallVars, counters
  <1>3. PICK i \in JobRecord : i = job[w][s]
    BY <1>1, JobIs DEF JobRecord
  <1>4. JobOK(i) /\ i.pc = "run"
    BY <1>1, <1>3, JobIs
  <1>5. CASE Fail(w, s)
    BY <1>1, <1>2, <1>5, HandlerFails
  <1>6. CASE ~Fail(w, s)
    <2>1. PICK out \in Success[i.command] :
            /\ Turn(w, s, "post", out)
            /\ out = "SUBMITTED" /\ i.command = "SUBMIT" => ~i.dry
            /\ out = "TAPERECALL" => i.out # "SUBMITTED"
            /\ out = "UPLOADED" => i.dry
      <3>1. CASE Prepare(w, s)
        BY <1>3, <1>6, <3>1 DEF Prepare, At, Success
      <3>2. CASE SubmitDAG(w, s)
        BY <1>3, <1>6, <3>2 DEF SubmitDAG, At, Success
      <3>3. CASE KillDAG(w, s)
        BY <1>3, <1>6, <3>3 DEF KillDAG, At, Success
      <3>4. CASE ResubmitDAG(w, s)
        BY <1>3, <1>6, <3>4 DEF ResubmitDAG, At, Success
      <3> QED
        BY <3>1, <3>2, <3>3, <3>4
    <2>2. out \in Statuses /\ JobOK(Turned(i, "post", out))
      BY <1>4, <2>1, PostOK
    <2> QED
      BY <1>1, <1>2, <1>3, <2>1, <2>2 DEF Turns
  <1> QED
    BY <1>1, <1>2, <1>5, <1>6

(* What a step of a handler does to the slots of the TaskWorkers.              *)
LEMMA LocalJobs ==
    ASSUME LocalInv, NEW w \in TWs, NEW s \in Slots, job[w][s].pc # "idle",
           NEW j, JobBecomes(w, s, j), j # NoJob => JobOK(j), UNCHANGED <<mpc, batch, acked>>
    PROVE  MastersOK' /\ JobsOK' /\ job' \in [TWs -> [Slots -> JobType]]
  <1>1. mpc[w] \notin {"restart", "down"}
    BY JobIs
  <1>2. /\ JobsOK'
        /\ \A v \in TWs : mpc[v] \in {"restart", "down"} => \A r \in Slots : job'[v][r] = NoJob
    BY <1>1, JobStep
  <1>3. MastersOK'
    BY <1>2 DEF LocalInv, MastersOK
  <1> QED
    BY <1>2, <1>3 DEF JobBecomes

(* Such a turn keeps JobsOK.                                                   *)
LEMMA TurnsJobs ==
    ASSUME LocalInv, NEW w \in TWs, NEW s \in Slots, job[w][s].pc # "idle",
           NEW pc \in {"run", "post", "fail"}, NEW out \in Statuses, Turns(w, s, pc, out),
           UNCHANGED <<mpc, batch, acked>>
    PROVE  MastersOK' /\ JobsOK' /\ job' \in [TWs -> [Slots -> JobType]]
  <1>1. PICK j : j = Turned(job[w][s], pc, out)
    OBVIOUS
  <1>2. JobBecomes(w, s, j) /\ JobOK(j)
    BY <1>1, TurnStep DEF Turns
  <1> QED
    BY <1>2, LocalJobs

(* The handlers keep the types of the variables of the scheduler.              *)
LEMMA SchedulerType ==
    ASSUME LocalInv, NEW w \in TWs, NEW s \in Slots,
           Prepare(w, s) \/ SubmitDAG(w, s) \/ KillDAG(w, s) \/ ResubmitDAG(w, s)
    PROVE  /\ dag' \in [Tasks -> {"none", "running", "held"}] /\ schedd' \in [Tasks -> BOOLEAN]
           /\ unreported' \in [Tasks -> BOOLEAN]
  <1>1. PICK t : t = job[w][s].task
    OBVIOUS
  <1>2. /\ dag \in [Tasks -> {"none", "running", "held"}] /\ schedd \in [Tasks -> BOOLEAN]
        /\ unreported \in [Tasks -> BOOLEAN]
    BY DEF LocalInv, TypeOK
  <1>3. CASE Prepare(w, s)
    BY <1>2, <1>3 DEF Prepare, dbVars
  <1>4. CASE SubmitDAG(w, s)
    BY <1>2, <1>4 DEF SubmitDAG
  <1>5. CASE KillDAG(w, s)
    <2>1. /\ dag' = dag \/ dag' = [dag EXCEPT ![t] = IF @ = "running" THEN "held" ELSE @]
          /\ unreported' = unreported \/ unreported' = [unreported EXCEPT ![t] = FALSE]
          /\ schedd' = schedd
      BY <1>1, <1>5 DEF KillDAG, dbVars
    <2> QED
      BY <1>2, <2>1
  <1>6. CASE ResubmitDAG(w, s)
    <2>1. /\ \/ dag' = dag
             \/ dag' = [dag EXCEPT ![t] = IF @ = "running" THEN "held" ELSE @]
             \/ dag' = [dag EXCEPT ![t] = IF @ = "held" THEN "running" ELSE @]
          /\ unreported' = unreported /\ schedd' = schedd
      BY <1>1, <1>6 DEF ResubmitDAG, dbVars
    <2> QED
      BY <1>2, <2>1
  <1> QED
    BY <1>3, <1>4, <1>5, <1>6

(* What a handler does on the scheduler keeps LocalInv.                        *)
LEMMA LocalHandlerActs ==
    ASSUME LocalInv, NEW w \in TWs, NEW s \in Slots,
           Prepare(w, s) \/ SubmitDAG(w, s) \/ KillDAG(w, s) \/ ResubmitDAG(w, s)
    PROVE  LocalInv'
  <1>1. PICK pc \in {"post", "fail"}, out \in Statuses : Turns(w, s, pc, out)
    BY HandlerActs
  <1>2. /\ job[w][s].pc = "run"
        /\ UNCHANGED <<status, command, twname, dryrun, ontape, req, mpc, batch, acked, phase,
                       recall, requests, faults, crashes, stale>>
    BY HandlerActs
  <1>3. MastersOK' /\ JobsOK' /\ job' \in [TWs -> [Slots -> JobType]]
    <2>1. pc \in {"run", "post", "fail"} /\ job[w][s].pc # "idle"
      BY <1>2
    <2> QED
      BY <1>1, <1>2, <2>1, TurnsJobs
  <1>4. TypeOK'
    BY <1>2, <1>3, SchedulerType DEF LocalInv, TypeOK
  <1> QED
    BY <1>2, <1>3, <1>4 DEF LocalInv, RowsNameCommand, RequestsOK, RecallsOK

(* A handler ends.                                                             *)
LEMMA LocalEnds ==
    ASSUME LocalInv, NEW w \in TWs, NEW s \in Slots, job' = [job EXCEPT ![w][s] = NoJob]
    PROVE  JobBecomes(w, s, NoJob)
  <1>1. NoJob \in JobType
    BY DEF JobType
  <1> QED
    BY <1>1, JobSet

(* A report that is given up fails the handler, starts it again, or ends it.   *)
LEMMA GivesUp ==
    ASSUME LocalInv, NEW w \in TWs, NEW s \in Slots, ReportGiveUp(w, s)
    PROVE  /\ job[w][s].pc \in {"post", "fail"}
           /\ \/ Turns(w, s, "fail", FailStatus(job[w][s].command))
              \/ /\ Turns(w, s, "run", job[w][s].out) /\ job[w][s].pc = "post"
                 /\ job[w][s].command = "SUBMIT"
              \/ job[w][s].pc = "fail" /\ job' = [job EXCEPT ![w][s] = NoJob]
           /\ FailStatus(job[w][s].command) \in Statuses /\ job[w][s].out \in Statuses
           /\ UNCHANGED <<status, command, twname, dryrun, schedd, dag, ontape, req, mpc, batch, acked,
                          phase, recall, requests, crashes, stale, unreported>>
           /\ Fault
  <1>1. job[w][s].pc \in {"post", "fail"}
    BY DEF ReportGiveUp
  <1>2. PICK i \in JobRecord : i = job[w][s]
    BY <1>1, JobIs DEF JobRecord
  <1>3. JobOK(i)
    BY <1>1, <1>2, JobIs
  <1>4. FailStatus(job[w][s].command) \in Statuses /\ job[w][s].out \in Statuses
    BY <1>2, <1>3, FailOK DEF JobRecord
  <1>5. \/ Turns(w, s, "fail", FailStatus(job[w][s].command))
        \/ /\ Turns(w, s, "run", job[w][s].out) /\ job[w][s].pc = "post"
           /\ job[w][s].command = "SUBMIT"
        \/ job[w][s].pc = "fail" /\ job' = [job EXCEPT ![w][s] = NoJob]
    <2>1. CASE Fail(w, s)
      BY <1>1, <2>1, HandlerFails
    <2>2. CASE /\ job[w][s].pc = "post" /\ job[w][s].command = "SUBMIT"
               /\ job[w][s].out \in {"TAPERECALL", "SUBMITTED"}
               /\ Turn(w, s, "run", job[w][s].out)
      <3>1. JobOK(Turned(i, "run", i.out))
        BY <1>2, <1>3, <2>2, RetryOK
      <3> QED
        BY <1>2, <2>2, <3>1 DEF Turns
    <2> QED
      BY <2>1, <2>2 DEF ReportGiveUp
  <1> QED
    BY <1>1, <1>4, <1>5 DEF ReportGiveUp, dbVars, recallVars

(* A report that is given up keeps LocalInv.                                   *)
LEMMA LocalGivesUp ==
    ASSUME LocalInv, NEW w \in TWs, NEW s \in Slots, ReportGiveUp(w, s)
    PROVE  LocalInv'
  <1>1. /\ job[w][s].pc \in {"post", "fail"} /\ Fault
        /\ UNCHANGED <<status, command, twname, dryrun, schedd, dag, ontape, req, mpc, batch, acked,
                       phase, recall, requests, crashes, stale, unreported>>
    BY GivesUp
  <1>2. MastersOK' /\ JobsOK' /\ job' \in [TWs -> [Slots -> JobType]]
    <2>1. CASE job' = [job EXCEPT ![w][s] = NoJob]
      <3>1. JobBecomes(w, s, NoJob)
        BY <2>1, LocalEnds
      <3> QED
        BY <1>1, <3>1, LocalJobs
    <2>2. CASE job' # [job EXCEPT ![w][s] = NoJob]
      <3>1. \E pc \in {"run", "post", "fail"}, out \in Statuses : Turns(w, s, pc, out)
        BY <2>2, GivesUp
      <3> QED
        BY <1>1, <3>1, TurnsJobs
    <2> QED
      BY <2>1, <2>2
  <1>3. faults' \in 0..MaxFaults
    BY <1>1, FaultType DEF LocalInv
  <1>4. TypeOK'
    BY <1>1, <1>2, <1>3 DEF LocalInv, TypeOK
  <1> QED
    BY <1>1, <1>2, <1>4 DEF LocalInv, RowsNameCommand, RequestsOK, RecallsOK

(* The job i when its report has landed and it does not know.                  *)
Landed(i, c) ==
    [pc |-> i.pc, task |-> i.task, command |-> i.command, dry |-> i.dry, out |-> i.out,
     row |-> [status |-> i.out, command |-> c]]

(* A handler whose report has landed without its knowing is as it should be.   *)
LEMMA LandedOK ==
    ASSUME NEW i \in JobRecord, JobOK(i), i.pc \in {"post", "fail"}, NEW c \in Commands \cup {"NULL"}
    PROVE  Landed(i, c) \in JobRecord /\ JobOK(Landed(i, c))
  <1>1. PICK j : j = Landed(i, c)
    OBVIOUS
  <1>2. /\ j.pc = i.pc /\ j.out = i.out /\ j.command = i.command /\ j.dry = i.dry
        /\ j.row = [status |-> i.out, command |-> c]
    BY <1>1 DEF Landed
  <1>3. j \in JobRecord
    BY <1>1 DEF Landed, JobRecord, RowType
  <1>4. i.command \in {"SUBMIT", "KILL", "RESUBMIT"}
    BY TypesOfConstants DEF JobRecord
  <1>5. /\ i.out \in {FailStatus(i.command)} \cup Success[i.command] /\ i.out # "QUEUED"
        /\ i.out = FailStatus(i.command) => i.pc = "fail"
    BY <1>4, SuccessIs, TypesOfConstants DEF JobOK
  <1>6. i.command = "SUBMIT" /\ i.out = "SUBMITTED" => ~i.dry
    BY DEF JobOK
  <1>7. /\ j.pc = "post" => j.out \in Success[j.command]
        /\ j.pc = "fail" => j.out = FailStatus(j.command)
    BY <1>2 DEF JobOK
  <1>8. JobOK(j)
    BY <1>2, <1>5, <1>6, <1>7 DEF JobOK
  <1> QED
    BY <1>1, <1>3, <1>8

(* What a report does, with or without an answer.                              *)
LEMMA Reports ==
    ASSUME LocalInv, NEW w \in TWs, NEW s \in Slots, Report(w, s)
    PROVE  /\ job[w][s] \in JobRecord /\ job[w][s].pc \in {"post", "fail"} /\ JobOK(job[w][s])
           /\ \E c \in Commands \cup {"NULL"} :
                /\ c = ReportedCommand(job[w][s])
                /\ Write(job[w][s].task, job[w][s].out, c, job[w][s].row)
                /\ \/ JobBecomes(w, s, NoJob) /\ UNCHANGED faults
                   \/ JobBecomes(w, s, Landed(job[w][s], c)) /\ JobOK(Landed(job[w][s], c)) /\ Fault
           /\ unreported' \in [Tasks -> BOOLEAN]
           /\ UNCHANGED <<twname, dryrun, schedd, dag, ontape, req, mpc, batch, acked, phase,
                          recall, requests, crashes>>
  <1>1. job[w][s].pc \in {"post", "fail"}
    BY DEF Report
  <1>2. PICK i \in JobRecord : i = job[w][s]
    BY <1>1, JobIs DEF JobRecord
  <1>3. JobOK(i)
    BY <1>1, <1>2, JobIs
  <1>4. PICK c \in Commands \cup {"NULL"} : c = ReportedCommand(i)
    BY <1>2 DEF ReportedCommand, JobRecord, LocalInv, TypeOK
  <1>5. Write(job[w][s].task, job[w][s].out, ReportedCommand(job[w][s]), job[w][s].row)
    BY DEF Report, Land
  <1>6. \/ JobBecomes(w, s, NoJob) /\ UNCHANGED faults
        \/ JobBecomes(w, s, Landed(i, c)) /\ JobOK(Landed(i, c)) /\ Fault
    <2>1. CASE job' = [job EXCEPT ![w][s] = NoJob] /\ UNCHANGED faults
      BY <2>1, LocalEnds
    <2>2. CASE /\ job' = [job EXCEPT ![w][s].row = [status |-> i.out, command |-> c]]
               /\ Fault
      <3>1. PICK j : j = [i EXCEPT !.row = [status |-> i.out, command |-> c]]
        OBVIOUS
      <3>2. j = Landed(i, c)
        BY <1>2, <3>1 DEF Landed, JobRecord
      <3>3. j \in JobType /\ JobOK(j)
        BY <1>1, <1>2, <1>3, <3>2, LandedOK DEF JobType, JobRecord
      <3>4. job' = [job EXCEPT ![w][s] = j]
        BY <1>2, <2>2, <3>1 DEF LocalInv, TypeOK
      <3>5. JobBecomes(w, s, j)
        BY <3>3, <3>4, JobSet
      <3> QED
        BY <2>2, <3>2, <3>3, <3>5
    <2> QED
      BY <1>2, <1>4, <2>1, <2>2 DEF Report
  <1>7. unreported' \in [Tasks -> BOOLEAN]
    <2>1. PICK u : unreported' = [unreported EXCEPT ![i.task] = u] /\ u \in BOOLEAN
      <3>1. i.task \in Tasks /\ unreported \in [Tasks -> BOOLEAN]
        BY DEF JobRecord, LocalInv, TypeOK
      <3>2. CASE i.out = "SUBMITTED"
        BY <1>2, <3>1, <3>2 DEF Report, Land
      <3>3. CASE i.out = "SUBMITFAILED"
        BY <1>2, <3>1, <3>3 DEF Report, Land
      <3>4. CASE i.out \notin {"SUBMITTED", "SUBMITFAILED"}
        BY <1>2, <3>1, <3>4 DEF Report, Land
      <3> QED
        BY <3>2, <3>3, <3>4
    <2> QED
      BY <2>1 DEF LocalInv, TypeOK
  <1>8. UNCHANGED <<twname, dryrun, schedd, dag, ontape, req, mpc, batch, acked, phase,
                    recall, requests, crashes>>
    BY DEF Report, recallVars
  <1> QED
    BY <1>1, <1>2, <1>3, <1>4, <1>5, <1>6, <1>7, <1>8

(* A report keeps LocalInv.                                                    *)
LEMMA LocalReport ==
    ASSUME LocalInv, NEW w \in TWs, NEW s \in Slots, Report(w, s)
    PROVE  LocalInv'
  <1>1. PICK i \in JobRecord : i = job[w][s]
    BY Reports
  <1>2. PICK t \in Tasks, st \in Statuses : t = i.task /\ st = i.out
    BY DEF JobRecord
  <1>3. i.pc \in {"post", "fail"} /\ JobOK(i)
    BY <1>1, Reports
  <1>4. PICK c \in Commands \cup {"NULL"} :
          /\ Write(t, st, c, i.row)
          /\ \/ JobBecomes(w, s, NoJob) /\ UNCHANGED faults
             \/ JobBecomes(w, s, Landed(i, c)) /\ JobOK(Landed(i, c)) /\ Fault
    BY <1>1, <1>2, Reports
  <1>5. /\ unreported' \in [Tasks -> BOOLEAN]
        /\ UNCHANGED <<twname, dryrun, schedd, dag, ontape, req, mpc, batch, acked, phase,
                          recall, requests, crashes>>
    BY Reports
  <1>6. /\ status' \in [Tasks -> Statuses] /\ command' \in [Tasks -> Commands \cup {"NULL"}]
        /\ stale' \in [Tasks -> BOOLEAN] /\ status'[t] = st
        /\ \A u \in Tasks \ {t} : status'[u] = status[u] /\ command'[u] = command[u]
    <2>1. TypeOK
      BY DEF LocalInv
    <2> QED
      BY <1>4, <2>1, WriteEffect
  <1>7. st \notin {"NEW", "HOLDING", "QUEUED"}
    <2>1. i.command \in {"SUBMIT", "KILL", "RESUBMIT"}
      BY TypesOfConstants DEF JobRecord
    <2> QED
      BY <1>2, <1>3, <2>1, SuccessIs, TypesOfConstants DEF JobOK
  <1>8. RowsNameCommand'
    BY <1>6, <1>7 DEF LocalInv, RowsNameCommand
  <1>9. MastersOK' /\ JobsOK' /\ job' \in [TWs -> [Slots -> JobType]]
    <2>1. \E j : JobBecomes(w, s, j) /\ (j # NoJob => JobOK(j))
      BY <1>4
    <2> QED
      BY <1>1, <1>3, <1>5, <2>1, LocalJobs
  <1>10. faults' \in 0..MaxFaults
    BY <1>4, FaultType DEF LocalInv
  <1>11. TypeOK'
    BY <1>5, <1>6, <1>9, <1>10 DEF LocalInv, TypeOK
  <1> QED
    BY <1>5, <1>8, <1>9, <1>11 DEF LocalInv, RequestsOK, RecallsOK

-------------------------------------------------------------------------------
(* TapeRecallManager.                                                          *)

(* A step of the manager keeps LocalInv when what it knows of the rows fits    *)
(* its phase.                                                                  *)
LEMMA RecallStep ==
    ASSUME LocalInv, NEW w \in TWs, NEW p \in {"idle", "TAPERECALL", "KILLRECALL"},
           NEW R \in SUBSET SnapshotType, \A x \in R : RecallOK(p, x.row),
           phase' = [phase EXCEPT ![w] = p], recall' = [recall EXCEPT ![w] = R]
    PROVE  /\ RecallsOK' /\ phase' \in [TWs -> {"idle", "TAPERECALL", "KILLRECALL"}]
           /\ recall' \in [TWs -> SUBSET SnapshotType]
  <1>1. /\ phase' \in [TWs -> {"idle", "TAPERECALL", "KILLRECALL"}] /\ phase'[w] = p
        /\ \A v \in TWs \ {w} : phase'[v] = phase[v]
    BY DEF LocalInv, TypeOK
  <1>2. /\ recall' \in [TWs -> SUBSET SnapshotType] /\ recall'[w] = R
        /\ \A v \in TWs \ {w} : recall'[v] = recall[v]
    BY DEF LocalInv, TypeOK
  <1> QED
    BY <1>1, <1>2 DEF LocalInv, RecallsOK

(* A step of the manager that writes no row.                                   *)
LEMMA RecallReads ==
    ASSUME LocalInv, NEW w \in TWs, RecallGet(w) \/ RecallWait(w) \/ RecallAbort(w)
    PROVE  LocalInv'
  <1>1. /\ UNCHANGED <<status, command, twname, dryrun, schedd, dag, ontape, req, mpc, batch, acked, job,
                       requests, crashes, stale, unreported>>
        /\ Fault \/ UNCHANGED faults
    BY DEF RecallGet, RecallWait, RecallAbort, dbVars, counters
  <1>2. /\ phase \in [TWs -> {"idle", "TAPERECALL", "KILLRECALL"}]
        /\ recall \in [TWs -> SUBSET SnapshotType]
        /\ \A x \in recall[w] : RecallOK(phase[w], x.row)
    BY DEF LocalInv, TypeOK, RecallsOK
  <1>3. /\ RecallsOK' /\ phase' \in [TWs -> {"idle", "TAPERECALL", "KILLRECALL"}]
        /\ recall' \in [TWs -> SUBSET SnapshotType]
    <2>1. CASE RecallGet(w)
      <3>1. PICK p \in {"idle", "TAPERECALL", "KILLRECALL"} : p = NextPhase[phase[w]]
        BY <1>2 DEF NextPhase
      <3>2. phase' = [phase EXCEPT ![w] = p] /\ recall[w] = {}
        BY <2>1, <3>1 DEF RecallGet
      <3>3. \/ recall' = [recall EXCEPT ![w] = Snapshots({u \in Tasks : status[u] = p})]
            \/ recall' = recall /\ p # "idle"
        BY <2>1, <3>1 DEF RecallGet, Snapshots
      <3>4. CASE recall' = recall
        <4>1. recall' = [recall EXCEPT ![w] = {}]
          BY <1>2, <3>2, <3>4
        <4> QED
          BY <3>2, <4>1, RecallStep
      <3>5. CASE recall' = [recall EXCEPT ![w] = Snapshots({u \in Tasks : status[u] = p})]
        <4>1. PICK R : R = Snapshots({u \in Tasks : status[u] = p})
          OBVIOUS
        <4>2. \A x \in R : \E u \in Tasks : x = Snapshot(u) /\ status[u] = p
          BY <4>1 DEF Snapshots
        <4>3. status \in [Tasks -> Statuses] /\ "idle" \notin Statuses
          BY TypesOfConstants DEF LocalInv, TypeOK
        <4>4. R \in SUBSET SnapshotType /\ \A x \in R : x.row.status = p /\ p \in Statuses
          BY <4>2, <4>3, SnapshotOK
        <4>5. \A x \in R : RecallOK(p, x.row)
          BY <4>3, <4>4 DEF RecallOK
        <4> QED
          BY <3>2, <3>5, <4>1, <4>4, <4>5, RecallStep
      <3> QED
        BY <3>3, <3>4, <3>5
    <2>2. CASE RecallWait(w)
      <3>1. PICK x \in recall[w] : recall' = [recall EXCEPT ![w] = recall[w] \ {x}]
        BY <2>2 DEF RecallWait
      <3>2. phase' = [phase EXCEPT ![w] = phase[w]]
        BY <1>2, <2>2 DEF RecallWait
      <3>3. PICK R : R = recall[w] \ {x}
        OBVIOUS
      <3>4. R \in SUBSET SnapshotType /\ \A y \in R : RecallOK(phase[w], y.row)
        BY <1>2, <3>3
      <3>5. PICK p \in {"idle", "TAPERECALL", "KILLRECALL"} : p = phase[w]
        BY <1>2
      <3> QED
        BY <3>1, <3>2, <3>3, <3>4, <3>5, RecallStep
    <2>3. CASE RecallAbort(w)
      <3>1. phase' = [phase EXCEPT ![w] = "idle"] /\ recall' = [recall EXCEPT ![w] = {}]
        BY <2>3 DEF RecallAbort
      <3> QED
        BY <3>1, RecallStep
    <2> QED
      BY <2>1, <2>2, <2>3
  <1>4. faults' \in 0..MaxFaults
    BY <1>1, FaultType DEF LocalInv
  <1>5. TypeOK'
    BY <1>1, <1>3, <1>4 DEF LocalInv, TypeOK
  <1> QED
    BY <1>1, <1>3, <1>5 DEF LocalInv, RowsNameCommand, RequestsOK, MastersOK, JobsOK

(* The writes of the manager, from the row they are made on.                   *)
RecallNext(p, row, n) ==
    \/ p = "TAPERECALL" /\ row.status \in {"TAPERECALL", "NEW"} /\ n = [status |-> "NEW", command |-> "SUBMIT"]
    \/ p = "TAPERECALL" /\ row.status \in {"TAPERECALL", "FAILED"} /\ n.status = "FAILED"
    \/ p = "KILLRECALL" /\ n = [status |-> "KILLED", command |-> "KILL"]

(* The writes of the manager, with the row they are made on.                   *)
LEMMA RecallWrites ==
    ASSUME LocalInv, NEW w \in TWs, (\E t \in Tasks : RecallEnd(w, t)) \/ RecallKill(w)
    PROVE  \E x \in recall[w], st \in {"NEW", "FAILED", "KILLED"}, c \in Commands \cup {"NULL"} :
            /\ RecallWrite(w, x, st, c) /\ x \in SnapshotType /\ RecallOK(phase[w], x.row)
            /\ RecallNext(phase[w], x.row, [status |-> st, command |-> c])
            /\ st = "FAILED" => c = command[x.task]
  <1>1. \A x \in recall[w] : x \in SnapshotType /\ RecallOK(phase[w], x.row)
    BY DEF LocalInv, TypeOK, RecallsOK
  <1>2. ASSUME NEW t \in Tasks, RecallEnd(w, t)
        PROVE  \E x \in recall[w], st \in {"NEW", "FAILED", "KILLED"}, c \in Commands \cup {"NULL"} :
                /\ RecallWrite(w, x, st, c)
                /\ RecallNext(phase[w], x.row, [status |-> st, command |-> c])
                /\ st = "FAILED" => c = command[x.task]
    <2>1. PICK x \in recall[w] :
            /\ phase[w] = "TAPERECALL" /\ x.task = t
            /\ \/ x.row.status \in {"TAPERECALL", "NEW"} /\ RecallWrite(w, x, "NEW", "SUBMIT")
               \/ x.row.status \in {"TAPERECALL", "FAILED"} /\ RecallWrite(w, x, "FAILED", command[t])
      BY <1>2 DEF RecallEnd
    <2>2. CASE x.row.status \in {"TAPERECALL", "NEW"} /\ RecallWrite(w, x, "NEW", "SUBMIT")
      <3>1. RecallNext(phase[w], x.row, [status |-> "NEW", command |-> "SUBMIT"])
        BY <2>1, <2>2 DEF RecallNext
      <3> QED
        BY <2>2, <3>1, TypesOfConstants
    <2>3. CASE x.row.status \in {"TAPERECALL", "FAILED"} /\ RecallWrite(w, x, "FAILED", command[t])
      <3>1. RecallNext(phase[w], x.row, [status |-> "FAILED", command |-> command[t]])
        BY <2>1, <2>3 DEF RecallNext
      <3>2. command[t] \in Commands \cup {"NULL"}
        BY DEF LocalInv, TypeOK
      <3> QED
        BY <2>1, <2>3, <3>1, <3>2
    <2> QED
      BY <2>1, <2>2, <2>3
  <1>3. CASE RecallKill(w)
    <2>1. PICK x \in recall[w] : phase[w] = "KILLRECALL" /\ RecallWrite(w, x, "KILLED", "KILL")
      BY <1>3 DEF RecallKill
    <2>2. RecallNext(phase[w], x.row, [status |-> "KILLED", command |-> "KILL"])
      BY <2>1 DEF RecallNext
    <2> QED
      BY <1>1, <2>1, <2>2, TypesOfConstants
  <1> QED
    BY <1>1, <1>2, <1>3

(* They keep LocalInv.                                                         *)
LEMMA LocalRecallWrites ==
    ASSUME LocalInv, NEW w \in TWs, (\E t \in Tasks : RecallEnd(w, t)) \/ RecallKill(w)
    PROVE  LocalInv'
  <1>1. PICK x \in recall[w], st \in {"NEW", "FAILED", "KILLED"}, c \in Commands \cup {"NULL"} :
            /\ RecallWrite(w, x, st, c) /\ x \in SnapshotType /\ RecallOK(phase[w], x.row)
            /\ RecallNext(phase[w], x.row, [status |-> st, command |-> c])
    BY RecallWrites
  <1>2. PICK t \in Tasks, row \in RowType : t = x.task /\ row = x.row
    BY <1>1 DEF SnapshotType
  <1>3. /\ Write(t, st, c, row)
        /\ UNCHANGED <<twname, dryrun, schedd, dag, ontape, req, mpc, batch, acked, job, phase,
                       requests, crashes, unreported>>
        /\ \/ recall' = [recall EXCEPT ![w] = recall[w] \ {x}] /\ UNCHANGED faults
           \/ recall' = [recall EXCEPT ![w] = Resent(recall[w], x, st, c)] /\ Fault
    BY <1>1, <1>2 DEF RecallWrite
  <1>4. TypeOK /\ st \in Statuses
    BY TypesOfConstants DEF LocalInv
  <1>5. /\ status' \in [Tasks -> Statuses] /\ command' \in [Tasks -> Commands \cup {"NULL"}]
        /\ stale' \in [Tasks -> BOOLEAN] /\ status'[t] = st /\ command'[t] = c
        /\ \A u \in Tasks \ {t} : status'[u] = status[u] /\ command'[u] = command[u]
    BY <1>3, <1>4, WriteEffect
  <1>6. st = "NEW" => c = "SUBMIT"
    BY <1>1 DEF RecallNext
  <1>7. RowsNameCommand'
    BY <1>5, <1>6, TypesOfConstants DEF LocalInv, RowsNameCommand
  <1>8. PICK p \in {"idle", "TAPERECALL", "KILLRECALL"} : p = phase[w]
    BY <1>4 DEF TypeOK
  <1>9. phase' = [phase EXCEPT ![w] = p]
    BY <1>3, <1>4, <1>8 DEF TypeOK
  <1>10. recall[w] \in SUBSET SnapshotType /\ \A y \in recall[w] : RecallOK(p, y.row)
    BY <1>8 DEF LocalInv, TypeOK, RecallsOK
  <1>11. PICK y : y = [x EXCEPT !.row = [status |-> st, command |-> c]]
    OBVIOUS
  <1>12. y \in SnapshotType /\ y.row = [status |-> st, command |-> c]
    BY <1>1, <1>4, <1>11 DEF SnapshotType, RowType
  <1>13. RecallOK(p, y.row)
    BY <1>1, <1>8, <1>12 DEF RecallNext, RecallOK
  <1>14. PICK R : /\ recall' = [recall EXCEPT ![w] = R]
                  /\ R \in {recall[w] \ {x}, (recall[w] \ {x}) \cup {y}}
    BY <1>3, <1>11 DEF Resent
  <1>15. R \in SUBSET SnapshotType /\ \A z \in R : RecallOK(p, z.row)
    BY <1>10, <1>12, <1>13, <1>14
  <1>16. RecallsOK' /\ recall' \in [TWs -> SUBSET SnapshotType]
    BY <1>9, <1>14, <1>15, RecallStep
  <1>17. faults' \in 0..MaxFaults
    BY <1>3, <1>4, FaultType
  <1>18. TypeOK'
    BY <1>3, <1>4, <1>5, <1>16, <1>17 DEF TypeOK
  <1> QED
    BY <1>3, <1>7, <1>16, <1>18 DEF LocalInv, RequestsOK, MastersOK, JobsOK

-------------------------------------------------------------------------------
(* All the steps.                                                              *)

(* LocalInv holds at the start.                                                *)
LEMMA LocalInit == Init => LocalInv
  <1> SUFFICES ASSUME Init PROVE LocalInv
    OBVIOUS
  <1>1. /\ NoReq \in ReqType /\ NoReq.op = "none" /\ NoJob \in JobType
        /\ "NONE" \in Statuses /\ 0 \in 0..MaxRequests /\ 0 \in 0..MaxFaults /\ 0 \in 0..MaxCrashes
    BY TypesOfConstants, LifecycleAssumption DEF NoReq, ReqType, JobType
  <1>2. /\ status \in [Tasks -> Statuses] /\ command \in [Tasks -> Commands \cup {"NULL"}]
        /\ twname \in [Tasks -> TWs \cup {NoTW}]
        /\ dryrun \in [Tasks -> BOOLEAN] /\ schedd \in [Tasks -> BOOLEAN]
        /\ dag \in [Tasks -> {"none", "running", "held"}] /\ ontape \in [Tasks -> BOOLEAN]
    BY <1>1 DEF Init
  <1>3. /\ req \in [Clients -> ReqType]
        /\ mpc \in [TWs -> {"restart", "top", "get", "ack", "down"}]
        /\ batch \in [TWs -> SUBSET SnapshotType] /\ acked \in [TWs -> SUBSET SnapshotType]
    BY <1>1 DEF Init
  <1>4. job \in [TWs -> [Slots -> JobType]]
    BY <1>1 DEF Init
  <1>5. /\ phase \in [TWs -> {"idle", "TAPERECALL", "KILLRECALL"}]
        /\ recall \in [TWs -> SUBSET SnapshotType]
        /\ requests \in 0..MaxRequests /\ faults \in 0..MaxFaults /\ crashes \in 0..MaxCrashes
        /\ stale \in [Tasks -> BOOLEAN] /\ unreported \in [Tasks -> BOOLEAN]
    BY <1>1 DEF Init
  <1>6. TypeOK
    BY <1>2, <1>3, <1>4, <1>5 DEF TypeOK
  <1>7. RowsNameCommand /\ RecallsOK
    BY DEF Init, RowsNameCommand, RecallsOK
  <1>8. RequestsOK
    BY <1>1 DEF Init, RequestsOK
  <1>9. MastersOK
    BY DEF Init, MastersOK
  <1>10. JobsOK
    BY DEF Init, JobsOK
  <1> QED
    BY <1>6, <1>7, <1>8, <1>9, <1>10 DEF LocalInv

(* Every step keeps LocalInv.                                                  *)
LEMMA LocalNext == LocalInv /\ [Next]_vars => LocalInv'
  <1> SUFFICES ASSUME LocalInv, [Next]_vars PROVE LocalInv'
    OBVIOUS
  <1>1. CASE UNCHANGED vars
    BY <1>1 DEF vars, dbVars, twVars, recallVars, counters, LocalInv, TypeOK, RowsNameCommand,
                RequestsOK, RecallsOK, MastersOK, JobsOK
  <1>2. ASSUME NEW t \in Tasks, Submit(t) \/ DagLeaves(t) \/ DagFails(t) \/ StageIn(t)
        PROVE  LocalInv'
    BY <1>2, LocalSubmit, LocalEnvironment, LocalDagFails
  <1>3. ASSUME NEW c \in Clients, Client(c)
        PROVE  LocalInv'
    BY <1>3, LocalReadRow, LocalRefuse, LocalClientWrites, LocalClearDryRun DEF Client
  <1>4. ASSUME NEW w \in TWs, TaskWorker(w)
        PROVE  LocalInv'
    <2>1. CASE Master(w)
      BY <2>1, LocalRestartGet, LocalMasterMoves, LocalRestartTask, LocalLockWork, LocalGetWork,
         LocalAck, LocalInjectWork DEF Master
    <2>2. CASE Start(w) \/ Crash(w)
      BY <2>2, LocalMasterMoves, LocalCrash
    <2>3. ASSUME NEW s \in Slots, Handle(w, s)
          PROVE  LocalInv'
      BY <2>3, LocalHandlerActs, LocalReport, LocalGivesUp DEF Handle
    <2>4. CASE Recall(w)
      BY <2>4, RecallReads, LocalRecallWrites DEF Recall
    <2> QED
      BY <1>4, <2>1, <2>2, <2>3, <2>4 DEF TaskWorker
  <1> QED
    BY <1>1, <1>2, <1>3, <1>4 DEF Next

(* LocalInv is an invariant.                                                   *)
THEOREM LocalInvariance == Spec => []LocalInv
  BY LocalInit, LocalNext, PTL DEF Spec

(* The type of the state.                                                      *)
THEOREM TypeCorrect == Spec => []TypeOK
  <1>1. LocalInv => TypeOK
    BY DEF LocalInv
  <1> QED
    BY <1>1, LocalInvariance, PTL

-------------------------------------------------------------------------------
(* Who has a task to itself.                                                   *)

SameRow(t) ==
    status'[t] = status[t] /\ command'[t] = command[t] /\ twname'[t] = twname[t] /\ stale'[t] = stale[t]

(* Nobody claims t who did not claim it before.                                *)
Fewer(t) ==
    /\ \A w \in TWs : \A x \in batch'[w] : x.task = t => x \in batch[w]
    /\ \A w \in TWs : \A x \in acked'[w] : x.task = t => x \in acked[w]
    /\ \A w \in TWs, s \in Slots :
        job'[w][s].task = t /\ job'[w][s].row.status = "QUEUED" =>
            job[w][s].task = t /\ job[w][s].row = job'[w][s].row

(* Claims on a row that does not change survive when nobody claims it anew.    *)
LEMMA FewerClaims ==
    ASSUME NEW t \in Tasks, Claims(t), SameRow(t), Fewer(t)
    PROVE  Claims(t)'
  <1>1. CASE stale[t]
    BY <1>1 DEF Claims, SameRow
  <1>2. CASE ~stale[t]
    <2>1. BatchClaim(t) /\ AckedClaim(t) /\ JobClaim(t) /\ Row(t)' = Row(t) /\ twname'[t] = twname[t]
      BY <1>2 DEF Claims, SameRow, Row
    <2>2. \A w \in TWs, s \in Slots : Working(w, s, t)' => Working(w, s, t) /\ job[w][s].row = job'[w][s].row
      BY DEF Fewer, Working
    <2>3. BatchClaim(t)'
      BY <2>1, <2>2 DEF BatchClaim, Fewer
    <2>4. AckedClaim(t)'
      BY <2>1, <2>2 DEF AckedClaim, Fewer
    <2>5. JobClaim(t)'
      BY <2>1, <2>2 DEF JobClaim
    <2> QED
      BY <2>3, <2>4, <2>5 DEF Claims
  <1> QED
    BY <1>1, <1>2

(* Nobody claims t.                                                            *)
Unclaimed(t) ==
    /\ \A w \in TWs : \A x \in batch[w] : x.task = t => x.row.status \notin {"HOLDING", "QUEUED"}
    /\ \A w \in TWs : \A x \in acked[w] : x.task # t
    /\ \A w \in TWs, s \in Slots : ~Working(w, s, t)

(* A task nobody claims.                                                       *)
LEMMA UnclaimedIs ==
    ASSUME NEW t \in Tasks, Unclaimed(t)
    PROVE  Claims(t)
  BY DEF Unclaimed, Claims, BatchClaim, AckedClaim, JobClaim

(* The same after a step.                                                      *)
LEMMA UnclaimedAfter ==
    ASSUME NEW t \in Tasks, Unclaimed(t)'
    PROVE  Claims(t)'
  BY DEF Unclaimed, Claims, BatchClaim, AckedClaim, JobClaim

(* Nobody claims a row that is neither HOLDING nor QUEUED.                     *)
LEMMA NoClaims ==
    ASSUME NEW t \in Tasks, Claims(t), ~stale[t], status[t] \notin {"HOLDING", "QUEUED"}
    PROVE  Unclaimed(t)
  <1>1. BatchClaim(t) /\ AckedClaim(t) /\ JobClaim(t)
    BY DEF Claims
  <1>2. Row(t).status = status[t]
    BY DEF Row
  <1>3. \A w \in TWs : \A x \in batch[w] : x.task = t => x.row.status \notin {"HOLDING", "QUEUED"}
    BY <1>1, <1>2 DEF BatchClaim
  <1>4. \A w \in TWs : \A x \in acked[w] : x.task # t
    BY <1>1, <1>2 DEF AckedClaim
  <1>5. \A w \in TWs, s \in Slots : ~Working(w, s, t)
    BY <1>1, <1>2 DEF JobClaim, Working
  <1> QED
    BY <1>3, <1>4, <1>5 DEF Unclaimed

(* A claim excludes the others.                                                *)
LEMMA BatchIsSole ==
    ASSUME LocalInv, NEW w \in TWs, NEW x \in batch[w], NEW t \in Tasks, x.task = t, Claims(t),
           ~stale[t], Row(t) = x.row
    PROVE  /\ \A v \in TWs : \A y \in batch[v] :
                y.task = t /\ y.row.status \in {"HOLDING", "QUEUED"} => v = w /\ y = x
           /\ \A v \in TWs : \A y \in acked[v] : y.task # t
           /\ \A v \in TWs, s \in Slots : ~Working(v, s, t)
           /\ x.row.status \in {"HOLDING", "QUEUED"} => twname[t] = w
  <1>1. CASE x.row.status \in {"HOLDING", "QUEUED"}
    <2>1. BatchClaim(t) /\ AckedClaim(t) /\ JobClaim(t)
      BY DEF Claims
    <2>2. /\ twname[t] = w /\ \A y \in acked[w] : y.task # t
          /\ \A s \in Slots : ~Working(w, s, t)
      BY <1>1, <2>1 DEF BatchClaim
    <2>3. \A v \in TWs : \A y \in batch[v] :
            y.task = t /\ y.row.status \in {"HOLDING", "QUEUED"} => v = w
      BY <2>1, <2>2 DEF BatchClaim
    <2>4. \A y \in batch[w] : y.task = t => y = x
      BY DEF LocalInv, MastersOK
    <2>5. \A v \in TWs : \A y \in acked[v] : y.task # t
      BY <2>1, <2>2 DEF AckedClaim
    <2>6. \A v \in TWs, s \in Slots : ~Working(v, s, t)
      BY <2>1, <2>2 DEF JobClaim
    <2> QED
      BY <2>2, <2>3, <2>4, <2>5, <2>6
  <1>2. CASE x.row.status \notin {"HOLDING", "QUEUED"}
    <2>1. status[t] \notin {"HOLDING", "QUEUED"}
      BY <1>2 DEF Row
    <2>2. Unclaimed(t)
      BY <2>1, NoClaims
    <2> QED
      BY <1>2, <2>2 DEF Unclaimed
  <1> QED
    BY <1>1, <1>2

(* A handler that knows the row of its task claims it alone, in all            *)
(* TaskWorkers.                                                                *)
LEMMA JobIsSole ==
    ASSUME LocalInv, NEW w \in TWs, NEW s \in Slots, NEW t \in Tasks, job[w][s].task = t, Claims(t),
           ~stale[t], Row(t) = job[w][s].row, job[w][s].row.status # "HOLDING"
    PROVE  /\ \A v \in TWs : \A y \in batch[v] :
                y.task = t => y.row.status \notin {"HOLDING", "QUEUED"}
           /\ \A v \in TWs : \A y \in acked[v] : y.task # t
           /\ \A v \in TWs, r \in Slots : Working(v, r, t) => v = w /\ r = s
  <1>1. CASE job[w][s].row.status = "QUEUED"
    <2>1. BatchClaim(t) /\ AckedClaim(t) /\ JobClaim(t) /\ Working(w, s, t)
      BY <1>1 DEF Claims, Working
    <2>2. twname[t] = w
      BY <2>1 DEF JobClaim
    <2>3. \A v \in TWs, r \in Slots : Working(v, r, t) => v = w /\ r = s
      BY <2>1, <2>2 DEF JobClaim
    <2>4. \A v \in TWs : \A y \in batch[v] : y.task = t => y.row.status \notin {"HOLDING", "QUEUED"}
      BY <2>1, <2>2 DEF BatchClaim
    <2>5. \A v \in TWs : \A y \in acked[v] : y.task # t
      BY <2>1, <2>2 DEF AckedClaim
    <2> QED
      BY <2>3, <2>4, <2>5
  <1>2. CASE job[w][s].row.status # "QUEUED"
    <2>1. status[t] \notin {"HOLDING", "QUEUED"}
      BY <1>2 DEF Row
    <2>2. Unclaimed(t)
      BY <2>1, NoClaims
    <2> QED
      BY <2>2 DEF Unclaimed
  <1> QED
    BY <1>1, <1>2

-------------------------------------------------------------------------------
(* The steps of those that have no claim.                                      *)

(* A write to the row of t by somebody with no claim on it.                    *)
Foreign(t) ==
    /\ UNCHANGED <<twname, batch, acked, job>>
    /\ \A u \in Tasks \ {t} : status'[u] = status[u] /\ command'[u] = command[u] /\ stale'[u] = stale[u]
    /\ ~stale'[t] => ~stale[t] /\ status[t] \notin {"HOLDING", "QUEUED"}

(* A write to the row of a task that nobody claims, or that is raced, keeps    *)
(* ClaimInv.                                                                   *)
LEMMA ForeignWrite ==
    ASSUME LocalInv, ClaimInv, NEW t \in Tasks, Foreign(t)
    PROVE  ClaimInv'
  <1>1. ASSUME NEW u \in Tasks PROVE Claims(u)'
    <2>1. Claims(u)
      BY DEF ClaimInv, TasksClaimed
    <2>2. CASE u # t
      <3>1. SameRow(u) /\ Fewer(u)
        BY <2>2 DEF Foreign, SameRow, Fewer
      <3> QED
        BY <2>1, <3>1, FewerClaims
    <2>3. CASE u = t /\ stale'[t]
      BY <2>3 DEF Claims
    <2>4. CASE u = t /\ ~stale'[t]
      <3>1. Unclaimed(t)
        BY <2>1, <2>4, NoClaims DEF Foreign
      <3>2. Unclaimed(t)'
        BY <3>1 DEF Unclaimed, Foreign, Working
      <3> QED
        BY <2>4, <3>2, UnclaimedAfter
    <2> QED
      BY <2>2, <2>3, <2>4
  <1>2. ReportsOK'
    <2>1. \A w \in TWs, s \in Slots : job[w][s] # NoJob => job[w][s].task \in Tasks
      BY DEF LocalInv, TypeOK, JobType
    <2>2. \A u \in Tasks : ~stale'[u] => ~stale[u]
      BY DEF Foreign
    <2> QED
      BY <2>1, <2>2 DEF Foreign, ClaimInv, ReportsOK
  <1> QED
    BY <1>1, <1>2 DEF ClaimInv, TasksClaimed

(* No row is written, and what was read or begun is dropped or goes on.        *)
Drops ==
    /\ UNCHANGED <<status, command, twname, stale>>
    /\ \A w \in TWs : batch'[w] \subseteq batch[w] /\ acked'[w] \subseteq acked[w]
    /\ \A w \in TWs, s \in Slots :
        job'[w][s] # NoJob =>
            /\ job[w][s] # NoJob /\ job'[w][s].task = job[w][s].task
            /\ job'[w][s].command = job[w][s].command /\ job'[w][s].row = job[w][s].row

(* A step that writes no row and after which nobody claims more keeps ClaimInv.*)
LEMMA ClaimsDrop ==
    ASSUME ClaimInv, Drops
    PROVE  ClaimInv'
  <1>1. ASSUME NEW u \in Tasks PROVE Claims(u)'
    <2>1. SameRow(u) /\ Claims(u)
      BY DEF Drops, SameRow, ClaimInv, TasksClaimed
    <2>2. NoJob.row.status = "NONE"
      BY DEF NoJob
    <2>3. Fewer(u)
      BY <2>2 DEF Drops, Fewer
    <2> QED
      BY <2>1, <2>3, FewerClaims
  <1>2. ReportsOK'
    BY DEF Drops, ClaimInv, ReportsOK, ReportOK
  <1> QED
    BY <1>1, <1>2 DEF ClaimInv, TasksClaimed

(* A write by somebody that has a row of some other status in mind.            *)
LEMMA WriteIsForeign ==
    ASSUME LocalInv, NEW t \in Tasks, NEW st \in Statuses, NEW c \in Commands \cup {"NULL"},
           NEW row, Write(t, st, c, row), row.status \notin {"HOLDING", "QUEUED"},
           UNCHANGED <<twname, batch, acked, job>>
    PROVE  Foreign(t)
  <1>1. /\ ~stale'[t] => ~stale[t] /\ Row(t) = row
        /\ \A u \in Tasks \ {t} : /\ status'[u] = status[u] /\ command'[u] = command[u]
                                  /\ stale'[u] = stale[u]
    <2>1. TypeOK
      BY DEF LocalInv
    <2> QED
      BY <2>1, WriteEffect
  <1>2. Row(t).status = status[t]
    BY DEF Row
  <1> QED
    BY <1>1, <1>2 DEF Foreign

(* Submission, DAGs and stage-in keep ClaimInv.                                *)
LEMMA ClaimsUsers ==
    ASSUME LocalInv, ClaimInv, NEW t \in Tasks, Submit(t) \/ DagFails(t)
    PROVE  ClaimInv'
  <1>1. Foreign(t)
    <2>1. CASE Submit(t)
      BY <2>1 DEF Submit, SetStatusTask, Foreign, twVars, LocalInv, TypeOK
    <2>2. CASE DagFails(t)
      <3>1. PICK c \in Commands \cup {"NULL"} : c = command[t]
        BY DEF LocalInv, TypeOK
      <3>2. PICK row : row = [status |-> "SUBMITTED", command |-> command[t]]
        OBVIOUS
      <3>3. Write(t, "FAILED", c, row) /\ UNCHANGED <<twname, batch, acked, job>>
        BY <2>2, <3>1, <3>2 DEF DagFails, twVars
      <3>4. "FAILED" \in Statuses /\ row.status \notin {"HOLDING", "QUEUED"}
        BY <3>2, TypesOfConstants
      <3> QED
        BY <3>3, <3>4, WriteIsForeign
    <2> QED
      BY <2>1, <2>2
  <1> QED
    BY <1>1, ForeignWrite

(* Users only change rows that are neither HOLDING nor QUEUED.                 *)
LEMMA UserSees ==
    ASSUME NEW r, NEW n, Diagram!User(r, n), r.status # "NONE"
    PROVE  r.status \notin {"HOLDING", "QUEUED"}
  BY DEF Diagram!User

(* The requests of the users keep ClaimInv.                                    *)
LEMMA ClaimsClient ==
    ASSUME LocalInv, ClaimInv, NEW c \in Clients, Kill(c) \/ Resubmit(c) \/ Proceed(c)
    PROVE  ClaimInv'
  <1>1. PICK t \in Tasks : t = req[c].task
    BY ClientWrites
  <1>2. PICK row : row = req[c].row
    OBVIOUS
  <1>3. PICK st \in {"NEW", "KILLRECALL", "KILLED"}, cmd \in Commands :
            /\ Write(t, st, cmd, row) /\ row.status # "NONE"
            /\ Diagram!User(row, [status |-> st, command |-> cmd])
    BY <1>1, <1>2, ClientWrites
  <1>4. UNCHANGED <<twname, batch, acked, job>>
    BY ClientWrites
  <1>5. row.status \notin {"HOLDING", "QUEUED"}
    BY <1>3, UserSees
  <1>6. st \in Statuses /\ cmd \in Commands \cup {"NULL"}
    BY TypesOfConstants
  <1>7. Foreign(t)
    BY <1>3, <1>4, <1>5, <1>6, WriteIsForeign
  <1> QED
    BY <1>7, ForeignWrite

(* The manager of tape recalls keeps ClaimInv.                                 *)
LEMMA ClaimsRecall ==
    ASSUME LocalInv, ClaimInv, NEW w \in TWs, (\E t \in Tasks : RecallEnd(w, t)) \/ RecallKill(w)
    PROVE  ClaimInv'
  <1>1. PICK x \in recall[w], st \in {"NEW", "FAILED", "KILLED"}, c \in Commands \cup {"NULL"} :
            RecallWrite(w, x, st, c) /\ x \in SnapshotType /\ RecallOK(phase[w], x.row)
    BY RecallWrites
  <1>2. PICK t \in Tasks, row \in RowType : t = x.task /\ row = x.row
    BY <1>1 DEF SnapshotType
  <1>3. Write(t, st, c, row) /\ UNCHANGED <<twname, batch, acked, job>>
    BY <1>1, <1>2 DEF RecallWrite
  <1>4. row.status \notin {"HOLDING", "QUEUED"} /\ st \in Statuses
    BY <1>1, <1>2, TypesOfConstants DEF RecallOK
  <1>5. Foreign(t)
    BY <1>3, <1>4, WriteIsForeign
  <1> QED
    BY <1>5, ForeignWrite

(* A step that touches no row and no claim keeps ClaimInv.                     *)
LEMMA ClaimsUnchanged ==
    ASSUME ClaimInv, UNCHANGED <<status, command, twname, stale, batch, acked, job>>
    PROVE  ClaimInv'
  <1>1. Drops
    BY DEF Drops
  <1> QED
    BY <1>1, ClaimsDrop

-------------------------------------------------------------------------------
(* The steps of the master.                                                    *)

(* A batch is read: rows of this TaskWorker, HOLDING or QUEUED.                *)
ReadsRows(w, rows) ==
    /\ batch' = [batch EXCEPT ![w] = Snapshots(rows)] /\ acked[w] = {}
    /\ rows \subseteq Tasks
    /\ \A t \in rows : twname[t] = w
    /\ \A t \in rows, s \in Slots : ~stale[t] => ~Working(w, s, t)
    /\ UNCHANGED <<status, command, twname, stale, acked, job>>

(* A TaskWorker that reads its rows claims those nobody else can claim.        *)
LEMMA ClaimsRead ==
    ASSUME LocalInv, ClaimInv, NEW w \in TWs, NEW rows, ReadsRows(w, rows)
    PROVE  ClaimInv'
  <1>1. /\ batch'[w] = Snapshots(rows) /\ \A v \in TWs \ {w} : batch'[v] = batch[v]
    BY DEF ReadsRows, LocalInv, TypeOK
  <1>2. \A x \in batch'[w] : /\ x.task \in rows /\ x.task \in Tasks /\ twname[x.task] = w
                             /\ x.row = Row(x.task)
    BY <1>1, SnapshotOK DEF Snapshots, ReadsRows
  <1>3. ASSUME NEW t \in Tasks, ~stale[t] PROVE Claims(t)'
    <2>0. Claims(t) /\ BatchClaim(t) /\ AckedClaim(t) /\ JobClaim(t)
      BY <1>3 DEF ClaimInv, TasksClaimed, Claims
    <2>1. /\ Row(t)' = Row(t) /\ twname' = twname /\ acked' = acked /\ job' = job /\ acked[w] = {}
          /\ \A v \in TWs, s \in Slots : Working(v, s, t)' <=> Working(v, s, t)
      BY DEF Row, ReadsRows, Working
    <2>2. ASSUME NEW v \in TWs, NEW x \in batch'[v], x.task = t, x.row.status \in {"HOLDING", "QUEUED"}
          PROVE  /\ Row(t) = x.row /\ twname[t] = v
                 /\ \A y \in acked[v] : y.task # t
                 /\ \A s \in Slots : ~Working(v, s, t)
      <3>1. CASE v = w
        BY <1>2, <1>3, <2>1, <2>2, <3>1 DEF ReadsRows
      <3>2. CASE v # w
        BY <1>1, <2>0, <2>2, <3>2 DEF BatchClaim
      <3> QED
        BY <3>1, <3>2
    <2>3. BatchClaim(t)'
      BY <2>1, <2>2 DEF BatchClaim
    <2>4. AckedClaim(t)' /\ JobClaim(t)'
      BY <2>0, <2>1 DEF AckedClaim, JobClaim
    <2> QED
      BY <2>3, <2>4 DEF Claims
  <1>4. stale' = stale /\ ReportsOK'
    BY DEF ClaimInv, ReportsOK, ReadsRows
  <1> QED
    BY <1>3, <1>4 DEF ClaimInv, TasksClaimed, Claims

(* The two reads of the master keep ClaimInv.                                  *)
LEMMA ClaimsGet ==
    ASSUME LocalInv, ClaimInv, NEW w \in TWs, RestartGet(w) \/ GetWork(w)
    PROVE  ClaimInv'
  <1>1. UNCHANGED <<status, command, twname, stale, acked, job>> /\ acked[w] = {}
    BY DEF RestartGet, GetWork, dbVars, LocalInv, MastersOK
  <1>2. CASE RestartGet(w)
    <2>1. PICK rows \in GetReadyTasks(w, Cardinality(Slots), "QUEUED") :
            batch' = [batch EXCEPT ![w] = Snapshots(rows)]
      BY <1>2 DEF RestartGet, Snapshots
    <2>2. rows \subseteq Tasks /\ \A t \in rows : twname[t] = w
      BY ReadyTasks
    <2>3. \A t \in rows, s \in Slots : ~Working(w, s, t)
      <3>1. \A s \in Slots : job[w][s] = NoJob
        BY <1>2 DEF RestartGet, LocalInv, MastersOK
      <3> QED
        BY <3>1 DEF Working, NoJob
    <2>4. ReadsRows(w, rows)
      BY <1>1, <2>1, <2>2, <2>3 DEF ReadsRows
    <2> QED
      BY <2>4, ClaimsRead
  <1>3. CASE GetWork(w) /\ UNCHANGED batch
    BY <1>1, <1>3, ClaimsUnchanged
  <1>4. CASE GetWork(w) /\ ~UNCHANGED batch
    <2>1. PICK rows \in GetReadyTasks(w, Cardinality(Idle(w)), "HOLDING") :
            batch' = [batch EXCEPT ![w] = Snapshots(rows)]
      BY <1>4 DEF GetWork, Snapshots
    <2>2. rows \subseteq Tasks /\ \A t \in rows : twname[t] = w /\ status[t] = "HOLDING"
      BY ReadyTasks
    <2>3. ASSUME NEW t \in rows, NEW s \in Slots, ~stale[t] PROVE ~Working(w, s, t)
      <3>1. t \in Tasks /\ JobClaim(t) /\ Row(t).status = "HOLDING"
        BY <2>2, <2>3 DEF ClaimInv, TasksClaimed, Claims, Row
      <3> QED
        BY <3>1 DEF JobClaim, Working
    <2>4. ReadsRows(w, rows)
      BY <1>1, <2>1, <2>2, <2>3 DEF ReadsRows
    <2> QED
      BY <2>4, ClaimsRead
  <1> QED
    BY <1>2, <1>3, <1>4

(* A write of the master: its claim goes, or goes on as QUEUED.                *)
LEMMA WritesStatus ==
    ASSUME LocalInv, NEW w \in TWs, NEW x \in batch[w], NEW st, NEW B, NEW A, Writes(w, x, st, B, A)
    PROVE  /\ st # "HOLDING"
           /\ st = "QUEUED" => x.row.status \in {"HOLDING", "QUEUED"}
           /\ A # acked[w] => st = "QUEUED" /\ A = acked[w] \cup {x} /\ B = batch[w] \ {x}
  <1>1. BatchRow(mpc[w], x) /\ x.command \in {"SUBMIT", "KILL", "RESUBMIT"}
    BY TypesOfConstants DEF LocalInv, MastersOK, BatchRow
  <1>2. RefusedStatus(x) \notin {"HOLDING", "QUEUED"}
    BY <1>1, TypesOfConstants DEF RefusedStatus
  <1>3. st \in {"NEW", RefusedStatus(x), "QUEUED"}
    BY DEF Writes
  <1>4. st = "QUEUED" => mpc[w] = "ack" /\ ~Refused(x)
    BY <1>2 DEF Writes
  <1>5. A # acked[w] => st = "QUEUED" /\ A = acked[w] \cup {x} /\ B = batch[w] \ {x}
    BY DEF Writes
  <1> QED
    BY <1>1, <1>2, <1>3, <1>4, <1>5 DEF BatchRow

(* The writes of the master keep ClaimInv: a claim goes, or becomes a task to  *)
(* inject.                                                                     *)
LEMMA ClaimsMasterWrites ==
    ASSUME LocalInv, ClaimInv, NEW w \in TWs, NEW x \in batch[w], NEW st \in Statuses, NEW B, NEW A,
           Writes(w, x, st, B, A)
    PROVE  ClaimInv'
  <1>1. /\ x.command \in Commands /\ x \in SnapshotType /\ TypeOK
    BY DEF LocalInv, TypeOK, MastersOK, BatchRow
  <1>2. PICK t \in Tasks, cmd \in Commands : t = x.task /\ cmd = x.command
    BY <1>1 DEF SnapshotType
  <1>3. Write(t, st, cmd, x.row)
    BY <1>2 DEF Writes
  <1>4. /\ ~stale'[t] => ~stale[t] /\ Row(t) = x.row
        /\ status'[t] = st /\ command'[t] = cmd
        /\ stale[t] => stale'[t]
        /\ \A u \in Tasks \ {t} : /\ status'[u] = status[u] /\ command'[u] = command[u]
                                  /\ stale'[u] = stale[u]
    <2>1. cmd \in Commands \cup {"NULL"}
      BY <1>1
    <2> QED
      BY <1>1, <1>3, <2>1, WriteEffect
  <1>5. PICK y : y = [x EXCEPT !.row = [status |-> st, command |-> x.command]]
    OBVIOUS
  <1>6. y.task = t /\ y.row = [status |-> st, command |-> cmd] /\ y.command = cmd
    BY <1>1, <1>2, <1>5 DEF SnapshotType
  <1>7. /\ batch'[w] = B /\ \A v \in TWs \ {w} : batch'[v] = batch[v]
        /\ B \in {batch[w] \ {x}, (batch[w] \ {x}) \cup {y}}
    BY <1>5 DEF Writes, Resent, LocalInv, TypeOK
  <1>8. /\ acked'[w] = A /\ \A v \in TWs \ {w} : acked'[v] = acked[v]
        /\ A \in {acked[w], acked[w] \cup {x}}
    BY DEF Writes, LocalInv, TypeOK
  <1>9. job' = job /\ twname' = twname
    BY DEF Writes
  <1>10. ASSUME NEW u \in Tasks, u # t PROVE Claims(u)'
    <2>1. SameRow(u) /\ Claims(u)
      BY <1>4, <1>9, <1>10 DEF SameRow, ClaimInv, TasksClaimed
    <2>2. Fewer(u)
      BY <1>2, <1>6, <1>7, <1>8, <1>9, <1>10 DEF Fewer
    <2> QED
      BY <2>1, <2>2, FewerClaims
  <1>11. ASSUME ~stale'[t] PROVE Claims(t)'
    <2>1. /\ \A v \in TWs : \A z \in batch[v] :
                z.task = t /\ z.row.status \in {"HOLDING", "QUEUED"} => v = w /\ z = x
          /\ \A v \in TWs : \A z \in acked[v] : z.task # t
          /\ \A v \in TWs, s \in Slots : ~Working(v, s, t)
          /\ x.row.status \in {"HOLDING", "QUEUED"} => twname[t] = w
      <3>1. Claims(t) /\ ~stale[t] /\ Row(t) = x.row /\ x.task = t
        BY <1>2, <1>4, <1>11 DEF ClaimInv, TasksClaimed
      <3> QED
        BY <3>1, BatchIsSole
    <2>2. /\ st # "HOLDING"
          /\ st = "QUEUED" => x.row.status \in {"HOLDING", "QUEUED"}
          /\ A # acked[w] => st = "QUEUED" /\ A = acked[w] \cup {x} /\ B = batch[w] \ {x}
      BY WritesStatus
    <2>3. /\ Row(t)' = [status |-> st, command |-> cmd] /\ twname'[t] = twname[t]
          /\ \A v \in TWs, s \in Slots : ~Working(v, s, t)'
      BY <1>4, <1>9, <2>1 DEF Row, Working
    <2>4. ASSUME NEW v \in TWs, NEW z \in batch'[v], z.task = t, z.row.status \in {"HOLDING", "QUEUED"}
          PROVE  v = w /\ z = y /\ st = "QUEUED" /\ A = acked[w]
      <3>1. CASE v = w
        <4>1. z = y
          BY <1>7, <2>1, <2>4, <3>1
        <4>2. st = "QUEUED"
          BY <1>6, <2>2, <2>4, <4>1
        <4>3. A = acked[w]
          BY <1>7, <2>1, <2>2, <2>4, <3>1
        <4> QED
          BY <3>1, <4>1, <4>2, <4>3
      <3>2. CASE v # w
        BY <1>7, <2>1, <2>4, <3>2
      <3> QED
        BY <3>1, <3>2
    <2>5. BatchClaim(t)'
      BY <1>6, <1>8, <2>1, <2>2, <2>3, <2>4 DEF BatchClaim
    <2>6. ASSUME NEW v \in TWs, NEW z \in acked'[v], z.task = t
          PROVE  v = w /\ z = x /\ st = "QUEUED"
      BY <1>8, <2>1, <2>2, <2>6
    <2>7. AckedClaim(t)'
      BY <1>2, <2>1, <2>2, <2>3, <2>6 DEF AckedClaim
    <2>8. JobClaim(t)'
      BY <2>3 DEF JobClaim
    <2> QED
      BY <2>5, <2>7, <2>8 DEF Claims
  <1>12. ReportsOK'
    <2>1. \A v \in TWs, s \in Slots : job[v][s] # NoJob => job[v][s].task \in Tasks
      BY <1>1 DEF TypeOK, JobType
    <2> QED
      BY <1>4, <1>9, <2>1 DEF ClaimInv, ReportsOK
  <1> QED
    BY <1>10, <1>11, <1>12 DEF ClaimInv, TasksClaimed, Claims

(* The master gives up or goes on.                                             *)
LEMMA ClaimsMasterMoves ==
    ASSUME LocalInv, ClaimInv, NEW w \in TWs,
           RestartDone(w) \/ SkipTask(w) \/ EndOfTurn(w) \/ Start(w) \/ Crash(w)
    PROVE  ClaimInv'
  <1>1. UNCHANGED <<status, command, twname, stale>>
    BY DEF RestartDone, SkipTask, EndOfTurn, Start, Crash, dbVars
  <1>2. \A v \in TWs : batch'[v] \subseteq batch[v] /\ acked'[v] \subseteq acked[v]
    <2>1. CASE RestartDone(w) \/ EndOfTurn(w) \/ Start(w)
      BY <2>1 DEF RestartDone, EndOfTurn, Start
    <2>2. CASE SkipTask(w)
      BY <2>2 DEF SkipTask, LocalInv, TypeOK
    <2>3. CASE Crash(w)
      BY <2>3 DEF Crash, LocalInv, TypeOK
    <2> QED
      BY <2>1, <2>2, <2>3
  <1>3. \A v \in TWs, s \in Slots : job'[v][s] # NoJob => job'[v][s] = job[v][s]
    BY DEF RestartDone, SkipTask, EndOfTurn, Start, Crash, LocalInv, TypeOK
  <1>4. Drops
    BY <1>1, <1>2, <1>3 DEF Drops
  <1> QED
    BY <1>4, ClaimsDrop

(* The steps of the master on its batch keep ClaimInv.                         *)
LEMMA ClaimsBatch ==
    ASSUME LocalInv, ClaimInv, NEW w \in TWs, RestartTask(w) \/ RefuseTask(w) \/ QueueTask(w)
    PROVE  ClaimInv'
  <1>1. CASE \E x \in batch[w], st \in Statuses : \E B, A : Writes(w, x, st, B, A)
    BY <1>1, ClaimsMasterWrites
  <1>2. CASE \E x \in batch[w] : Reads(w, "restart", batch[w] \ {x}) /\ Batch("restart", batch[w] \ {x})
    <2>1. PICK x \in batch[w] : Reads(w, "restart", batch[w] \ {x})
      BY <1>2
    <2>2. Drops
      BY <2>1 DEF Reads, Drops, LocalInv, TypeOK
    <2> QED
      BY <2>2, ClaimsDrop
  <1> QED
    BY <1>1, <1>2, RestartWrites, AckWrites

(* NEW rows, which nobody claims, become HOLDING.                              *)
LEMMA ClaimsLockWork ==
    ASSUME LocalInv, ClaimInv, NEW w \in TWs, LockWork(w)
    PROVE  ClaimInv'
  <1>1. UNCHANGED <<command, stale, batch, acked, job>>
    BY DEF LockWork
  <1>2. PICK rows \in SUBSET {t \in Tasks : status[t] = "NEW"} :
            /\ status' = [t \in Tasks |-> IF t \in rows THEN "HOLDING" ELSE status[t]]
            /\ twname' = [t \in Tasks |-> IF t \in rows THEN w ELSE twname[t]]
    BY DEF LockWork, UpdateWorker, Limited
  <1>3. ASSUME NEW t \in Tasks PROVE Claims(t)'
    <2>0. Claims(t)
      BY DEF ClaimInv, TasksClaimed
    <2>1. CASE t \in rows /\ ~stale[t]
      <3>1. Unclaimed(t)
        BY <1>2, <2>0, <2>1, NoClaims
      <3>2. Unclaimed(t)'
        BY <1>1, <3>1 DEF Unclaimed, Working
      <3> QED
        BY <3>2, UnclaimedAfter
    <2>2. CASE stale[t]
      BY <1>1, <2>2 DEF Claims
    <2>3. CASE t \notin rows
      <3>1. SameRow(t) /\ Fewer(t)
        BY <1>1, <1>2, <2>3 DEF SameRow, Fewer
      <3> QED
        BY <2>0, <3>1, FewerClaims
    <2> QED
      BY <2>1, <2>2, <2>3
  <1>4. ReportsOK'
    BY <1>1 DEF ClaimInv, ReportsOK
  <1> QED
    BY <1>3, <1>4 DEF ClaimInv, TasksClaimed

(* A handler takes over the claim of the list of tasks to inject.              *)
LEMMA ClaimsInject ==
    ASSUME LocalInv, ClaimInv, NEW w \in TWs, InjectWork(w)
    PROVE  ClaimInv'
  <1>1. PICK x \in acked[w], s \in Slots :
            /\ x.task \in Tasks /\ job[w][s] = NoJob /\ JobBecomes(w, s, Injected(x))
            /\ acked' = [acked EXCEPT ![w] = acked[w] \ {x}]
    BY Injects
  <1>2. batch[w] = {} /\ UNCHANGED <<status, command, twname, stale, batch>>
    BY Injects
  <1>3. acked'[w] = acked[w] \ {x} /\ \A v \in TWs \ {w} : acked'[v] = acked[v]
    BY <1>1 DEF LocalInv, TypeOK
  <1>4. PICK t \in Tasks, j \in JobType : t = x.task /\ j = Injected(x)
    BY <1>1 DEF JobBecomes
  <1>5. /\ j.task = t /\ j.row = [status |-> "QUEUED", command |-> x.command]
        /\ j.command = x.command
    BY <1>4 DEF Injected
  <1>6. /\ job'[w][s] = j /\ \A v \in TWs, r \in Slots : v # w \/ r # s => job'[v][r] = job[v][r]
    BY <1>1, <1>4 DEF JobBecomes
  <1>7. \A v \in TWs, r \in Slots, u \in Tasks :
            Working(v, r, u)' <=> Working(v, r, u) \/ (v = w /\ r = s /\ u = t)
    BY <1>1, <1>5, <1>6 DEF Working, NoJob
  <1>8. ASSUME NEW u \in Tasks, u # t PROVE Claims(u)'
    <2>1. SameRow(u) /\ Claims(u)
      BY <1>2 DEF SameRow, ClaimInv, TasksClaimed
    <2>2. Fewer(u)
      BY <1>2, <1>3, <1>5, <1>6, <1>8 DEF Fewer
    <2> QED
      BY <2>1, <2>2, FewerClaims
  <1>9. ASSUME ~stale[t] PROVE Claims(t)'
    <2>0. BatchClaim(t) /\ AckedClaim(t) /\ JobClaim(t)
      BY <1>9 DEF ClaimInv, TasksClaimed, Claims
    <2>1. /\ Row(t) = j.row /\ twname[t] = w
          /\ \A y \in acked[w] : y.task = t => y = x
          /\ \A r \in Slots : ~Working(w, r, t)
      BY <1>4, <1>5, <2>0 DEF AckedClaim
    <2>2. Row(t)' = Row(t) /\ twname'[t] = twname[t]
      BY <1>2 DEF Row
    <2>3. \A v \in TWs : \A y \in acked'[v] : y.task # t
      BY <1>3, <2>0, <2>1 DEF AckedClaim
    <2>4. \A v \in TWs : \A z \in batch'[v] : z.task = t => z.row.status \notin {"HOLDING", "QUEUED"}
      BY <1>2, <2>0, <2>1 DEF BatchClaim
    <2>5. \A v \in TWs, r \in Slots : Working(v, r, t)' => v = w /\ r = s
      BY <1>7, <2>0, <2>1 DEF JobClaim
    <2>6. BatchClaim(t)' /\ AckedClaim(t)'
      BY <2>3, <2>4 DEF BatchClaim, AckedClaim
    <2>7. JobClaim(t)'
      BY <1>6, <2>1, <2>2, <2>5 DEF JobClaim
    <2> QED
      BY <2>6, <2>7 DEF Claims
  <1>10. ReportOK(j)
    BY <1>5 DEF ReportOK
  <1>11. ReportsOK'
    BY <1>2, <1>6, <1>10 DEF ClaimInv, ReportsOK
  <1> QED
    BY <1>2, <1>8, <1>9, <1>11 DEF ClaimInv, TasksClaimed, Claims

-------------------------------------------------------------------------------
(* The steps of the handlers.                                                  *)

(* A handler that goes on keeps its claim.                                     *)
LEMMA ClaimsTurn ==
    ASSUME LocalInv, ClaimInv, NEW w \in TWs, NEW s \in Slots, job[w][s].pc # "idle",
           NEW pc \in {"run", "post", "fail"}, NEW out \in Statuses, Turns(w, s, pc, out),
           UNCHANGED <<status, command, twname, stale, batch, acked>>
    PROVE  ClaimInv'
  <1>1. PICK j : j = Turned(job[w][s], pc, out)
    OBVIOUS
  <1>2. JobBecomes(w, s, j) /\ job[w][s] # NoJob
    BY <1>1, TurnStep, JobIs DEF Turns
  <1>3. j.task = job[w][s].task /\ j.command = job[w][s].command /\ j.row = job[w][s].row
    BY <1>1 DEF Turned
  <1>4. Drops
    BY <1>2, <1>3 DEF Drops, JobBecomes
  <1> QED
    BY <1>4, ClaimsDrop

(* The handlers on the scheduler, and those that give up, keep ClaimInv.       *)
LEMMA ClaimsActs ==
    ASSUME LocalInv, ClaimInv, NEW w \in TWs, NEW s \in Slots,
           \/ Prepare(w, s) \/ SubmitDAG(w, s) \/ KillDAG(w, s) \/ ResubmitDAG(w, s)
           \/ ReportGiveUp(w, s)
    PROVE  ClaimInv'
  <1>1. CASE Prepare(w, s) \/ SubmitDAG(w, s) \/ KillDAG(w, s) \/ ResubmitDAG(w, s)
    <2>1. PICK pc \in {"post", "fail"}, out \in Statuses : Turns(w, s, pc, out)
      BY <1>1, HandlerActs
    <2>2. /\ job[w][s].pc # "idle" /\ pc \in {"run", "post", "fail"}
          /\ UNCHANGED <<status, command, twname, stale, batch, acked>>
      BY <1>1, HandlerActs
    <2> QED
      BY <2>1, <2>2, ClaimsTurn
  <1>2. CASE ReportGiveUp(w, s)
    <2>1. /\ job[w][s].pc # "idle" /\ UNCHANGED <<status, command, twname, stale, batch, acked>>
      BY <1>2, GivesUp
    <2>2. CASE job' = [job EXCEPT ![w][s] = NoJob]
      <3>1. Drops
        BY <2>1, <2>2 DEF Drops, LocalInv, TypeOK
      <3> QED
        BY <3>1, ClaimsDrop
    <2>3. CASE job' # [job EXCEPT ![w][s] = NoJob]
      <3>1. \E pc \in {"run", "post", "fail"}, out \in Statuses : Turns(w, s, pc, out)
        BY <1>2, <2>3, GivesUp
      <3> QED
        BY <2>1, <3>1, ClaimsTurn
    <2> QED
      BY <2>2, <2>3
  <1> QED
    BY <1>1, <1>2

(* What is known of the row after a report that gets no answer.                *)
LEMMA LandedKnows ==
    ASSUME LocalInv, NEW i \in JobRecord, JobOK(i), i.pc \in {"post", "fail"}, ReportOK(i),
           Row(i.task) = i.row, NEW c, c = ReportedCommand(i)
    PROVE  ReportOK(Landed(i, c))
  <1>1. PICK j : j = Landed(i, c)
    OBVIOUS
  <1>2. j.command = i.command /\ j.row = [status |-> i.out, command |-> c]
    BY <1>1 DEF Landed
  <1>3. command[i.task] = i.row.command
    BY DEF Row
  <1>4. c \in {i.command, "NULL"}
    BY <1>3 DEF ReportedCommand, ReportOK
  <1>5. ASSUME i.command = "SUBMIT", i.out \in {"SUBMITTED", "TAPERECALL"} PROVE c = "SUBMIT"
    <2>1. i.pc = "post"
      BY <1>5, TypesOfConstants DEF JobOK
    <2>2. c = i.row.command
      BY <1>3, <1>5, <2>1 DEF ReportedCommand
    <2>3. i.row.status \in {"QUEUED", "SUBMITTED", "TAPERECALL"}
      BY <1>5, <2>1, SuccessIs DEF JobOK
    <2> QED
      BY <1>5, <2>2, <2>3 DEF JobOK, ReportOK
  <1> QED
    BY <1>1, <1>2, <1>4, <1>5 DEF ReportOK

(* A report takes the row out of the hands of the TaskWorker.                  *)
LEMMA ReportEnds ==
    ASSUME NEW i \in JobRecord, JobOK(i), i.pc \in {"post", "fail"}
    PROVE  /\ i.out \notin {"NEW", "HOLDING", "QUEUED", "NONE"} /\ i.row.status # "HOLDING"
  <1>1. i.command \in {"SUBMIT", "KILL", "RESUBMIT"}
    BY TypesOfConstants DEF JobRecord
  <1>2. FailStatus(i.command) \in {"SUBMITFAILED", "KILLFAILED", "RESUBMITFAILED"}
    BY <1>1, TypesOfConstants
  <1>3. Success[i.command] \subseteq {"SUBMITTED", "TAPERECALL", "UPLOADED", "KILLED"}
    BY <1>1, SuccessIs
  <1> QED
    BY <1>2, <1>3 DEF JobOK

(* A report keeps ClaimInv.                                                    *)
LEMMA ClaimsReport ==
    ASSUME LocalInv, ClaimInv, NEW w \in TWs, NEW s \in Slots, Report(w, s)
    PROVE  ClaimInv'
  <1>1. PICK i \in JobRecord : i = job[w][s]
    BY Reports
  <1>2. PICK t \in Tasks, st \in Statuses : t = i.task /\ st = i.out
    BY DEF JobRecord
  <1>3. i.pc \in {"post", "fail"} /\ JobOK(i) /\ i # NoJob
    BY <1>1, Reports DEF NoJob
  <1>4. PICK c \in Commands \cup {"NULL"} :
          /\ c = ReportedCommand(i) /\ Write(t, st, c, i.row)
          /\ JobBecomes(w, s, NoJob) \/ JobBecomes(w, s, Landed(i, c))
    BY <1>1, <1>2, Reports
  <1>5. UNCHANGED <<twname, batch, acked>>
    BY Reports
  <1>6. /\ ~stale'[t] => ~stale[t] /\ Row(t) = i.row
        /\ stale[t] => stale'[t]
        /\ \A u \in Tasks \ {t} : /\ status'[u] = status[u] /\ command'[u] = command[u]
                                  /\ stale'[u] = stale[u]
    <2>1. TypeOK
      BY DEF LocalInv
    <2> QED
      BY <1>4, <2>1, WriteEffect
  <1>7. PICK j \in JobType : JobBecomes(w, s, j) /\ j \in {NoJob, Landed(i, c)}
    BY <1>4 DEF JobBecomes
  <1>8. /\ job'[w][s] = j /\ \A v \in TWs, r \in Slots : v # w \/ r # s => job'[v][r] = job[v][r]
    BY <1>7 DEF JobBecomes
  <1>9. j.row.status # "QUEUED"
    BY <1>3, <1>7, ReportEnds DEF NoJob, Landed
  <1>10. ASSUME NEW u \in Tasks, u # t PROVE Claims(u)'
    <2>1. SameRow(u) /\ Claims(u)
      BY <1>5, <1>6, <1>10 DEF SameRow, ClaimInv, TasksClaimed
    <2>2. Fewer(u)
      BY <1>5, <1>8, <1>9 DEF Fewer
    <2> QED
      BY <2>1, <2>2, FewerClaims
  <1>11. ASSUME ~stale'[t] PROVE Claims(t)'
    <2>1. /\ \A v \in TWs : \A y \in batch[v] :
                y.task = t => y.row.status \notin {"HOLDING", "QUEUED"}
          /\ \A v \in TWs : \A y \in acked[v] : y.task # t
          /\ \A v \in TWs, r \in Slots : Working(v, r, t) => v = w /\ r = s
      <3>1. Claims(t) /\ ~stale[t] /\ Row(t) = job[w][s].row /\ job[w][s].task = t
        BY <1>1, <1>2, <1>6, <1>11 DEF ClaimInv, TasksClaimed
      <3>2. job[w][s].row.status # "HOLDING"
        BY <1>1, <1>3, ReportEnds
      <3> QED
        BY <3>1, <3>2, JobIsSole
    <2>2. \A v \in TWs, r \in Slots : ~Working(v, r, t)'
      BY <1>8, <1>9, <2>1 DEF Working
    <2>3. Unclaimed(t)'
      BY <1>5, <2>1, <2>2 DEF Unclaimed
    <2> QED
      BY <2>3, UnclaimedAfter
  <1>12. ReportsOK'
    <2>1. ASSUME NEW v \in TWs, NEW r \in Slots, job'[v][r] # NoJob, ~stale'[job'[v][r].task]
          PROVE  ReportOK(job'[v][r])
      <3>1. CASE v = w /\ r = s
        <4>1. j = Landed(i, c) /\ j.task = t
          BY <1>2, <1>7, <1>8, <2>1, <3>1 DEF Landed
        <4>2. ~stale[t] /\ Row(t) = i.row
          BY <1>6, <1>8, <2>1, <3>1, <4>1
        <4>3. ReportOK(i)
          BY <1>1, <1>2, <1>3, <4>2 DEF ClaimInv, ReportsOK
        <4>4. ReportOK(j)
          BY <1>2, <1>3, <1>4, <4>1, <4>2, <4>3, LandedKnows
        <4> QED
          BY <1>8, <3>1, <4>4
      <3>2. CASE v # w \/ r # s
        <4>1. job'[v][r] = job[v][r] /\ job[v][r] # NoJob /\ job[v][r].task \in Tasks
          BY <1>8, <2>1, <3>2 DEF LocalInv, TypeOK, JobType
        <4>2. ~stale[job[v][r].task]
          BY <1>6, <2>1, <4>1
        <4> QED
          BY <4>1, <4>2 DEF ClaimInv, ReportsOK
      <3> QED
        BY <3>1, <3>2
    <2> QED
      BY <2>1 DEF ReportsOK
  <1> QED
    BY <1>10, <1>11, <1>12 DEF ClaimInv, TasksClaimed, Claims

-------------------------------------------------------------------------------
(* All the steps, and what follows.                                            *)

(* ClaimInv holds at the start.                                                *)
LEMMA ClaimsInit == Init => ClaimInv
  <1> SUFFICES ASSUME Init PROVE ClaimInv
    OBVIOUS
  <1>1. \A w \in TWs : batch[w] = {} /\ acked[w] = {} /\ \A s \in Slots : job[w][s] = NoJob
    BY DEF Init
  <1>2. ReportsOK
    BY <1>1 DEF ReportsOK
  <1>3. \A t \in Tasks : Unclaimed(t)
    BY <1>1 DEF Unclaimed, Working, NoJob
  <1> QED
    BY <1>2, <1>3, UnclaimedIs DEF ClaimInv, TasksClaimed

(* Every step keeps ClaimInv.                                                  *)
LEMMA ClaimsNext == LocalInv /\ ClaimInv /\ [Next]_vars => ClaimInv'
  <1> SUFFICES ASSUME LocalInv, ClaimInv, [Next]_vars PROVE ClaimInv'
    OBVIOUS
  <1>1. CASE UNCHANGED vars
    <2>1. UNCHANGED <<status, command, twname, stale, batch, acked, job>>
      BY <1>1 DEF vars, dbVars, twVars
    <2> QED
      BY <2>1, ClaimsUnchanged
  <1>2. ASSUME NEW t \in Tasks, Submit(t) \/ DagLeaves(t) \/ DagFails(t) \/ StageIn(t)
        PROVE  ClaimInv'
    <2>1. CASE Submit(t) \/ DagFails(t)
      BY <2>1, ClaimsUsers
    <2>2. CASE DagLeaves(t) \/ StageIn(t)
      <3>1. UNCHANGED <<status, command, twname, stale, batch, acked, job>>
        BY <2>2 DEF DagLeaves, StageIn, dbVars, twVars
      <3> QED
        BY <3>1, ClaimsUnchanged
    <2> QED
      BY <1>2, <2>1, <2>2
  <1>3. ASSUME NEW c \in Clients, Client(c)
        PROVE  ClaimInv'
    <2>1. CASE Kill(c) \/ Resubmit(c) \/ Proceed(c)
      BY <2>1, ClaimsClient
    <2>2. CASE (\E t \in Tasks, op \in {"kill", "resubmit", "proceed"} : ReadRow(c, op, t))
               \/ Refuse(c) \/ ClearDryRun(c)
      <3>1. UNCHANGED <<status, command, twname, stale, batch, acked, job>>
        BY <2>2 DEF ReadRow, Refuse, ClearDryRun, dbVars, twVars
      <3> QED
        BY <3>1, ClaimsUnchanged
    <2> QED
      BY <1>3, <2>1, <2>2 DEF Client
  <1>4. ASSUME NEW w \in TWs, TaskWorker(w)
        PROVE  ClaimInv'
    <2>1. CASE Master(w) \/ Start(w) \/ Crash(w)
      BY <2>1, ClaimsGet, ClaimsBatch, ClaimsMasterMoves, ClaimsLockWork, ClaimsInject DEF Master
    <2>2. ASSUME NEW s \in Slots, Handle(w, s)
          PROVE  ClaimInv'
      BY <2>2, ClaimsActs, ClaimsReport DEF Handle
    <2>3. CASE Recall(w)
      <3>1. CASE RecallGet(w) \/ RecallWait(w) \/ RecallAbort(w)
        <4>1. UNCHANGED <<status, command, twname, stale, batch, acked, job>>
          BY <3>1 DEF RecallGet, RecallWait, RecallAbort, dbVars
        <4> QED
          BY <4>1, ClaimsUnchanged
      <3> QED
        BY <2>3, <3>1, ClaimsRecall DEF Recall
    <2> QED
      BY <1>4, <2>1, <2>2, <2>3 DEF TaskWorker
  <1> QED
    BY <1>1, <1>2, <1>3, <1>4 DEF Next

(* Whoever works on a task, or is about to, has it to himself.                 *)
THEOREM ClaimInvariance == Spec => [](LocalInv /\ ClaimInv)
  BY LocalInit, LocalNext, ClaimsInit, ClaimsNext, PTL DEF Spec

(* A task that is not raced has at most one holder.                            *)
LEMMA OneHolder ==
    ASSUME NEW t \in Tasks, Claims(t), ~stale[t]
    PROVE  Cardinality(Holders(t)) <= 1
  <1>1. BatchClaim(t) /\ AckedClaim(t) /\ JobClaim(t)
    BY DEF Claims
  <1>2. \A h \in Handlers(t) : h \in TWs \X Slots /\ Working(h[1], h[2], t) /\ h = <<h[1], h[2]>>
    BY DEF Handlers, Working
  <1>3. \A h \in Holders(t) \ Handlers(t) :
            /\ h \in TWs \X {"acked"} /\ h = <<h[1], "acked">>
            /\ \E y \in acked[h[1]] : y.task = t
    BY DEF Holders
  <1>4. \A h \in Holders(t) : h[1] = twname[t]
    BY <1>1, <1>2, <1>3 DEF AckedClaim, JobClaim
  <1>5. \A h, k \in Handlers(t) : h = k
    <2>1. SUFFICES ASSUME NEW h \in Handlers(t), NEW k \in Handlers(t) PROVE h = k
      OBVIOUS
    <2>2. h[1] = k[1] /\ h[1] \in TWs /\ h[2] \in Slots /\ k[2] \in Slots
      BY <1>2, <1>4 DEF Holders
    <2>3. h[2] = k[2]
      BY <1>1, <1>2, <2>2 DEF JobClaim
    <2> QED
      BY <1>2, <2>2, <2>3
  <1>6. \A h, k \in Holders(t) \ Handlers(t) : h = k
    BY <1>3, <1>4
  <1>7. \A h \in Handlers(t), k \in Holders(t) \ Handlers(t) : FALSE
    BY <1>1, <1>2, <1>3, <1>4 DEF AckedClaim, Holders
  <1>8. \A h, k \in Holders(t) : h = k
    BY <1>5, <1>6, <1>7
  <1>9. CASE Holders(t) = {}
    BY <1>9, FS_EmptySet
  <1>10. CASE Holders(t) # {}
    <2>1. PICK h : Holders(t) = {h}
      BY <1>8, <1>10
    <2> QED
      BY <2>1, FS_Singleton
  <1> QED
    BY <1>9, <1>10

(* No two handlers, of one TaskWorker or of two, work on the same task.        *)
THEOREM WorkIsExclusive == Spec => []NoConcurrentWork
  <1>1. LocalInv /\ ClaimInv => NoConcurrentWork
    BY OneHolder DEF ClaimInv, TasksClaimed, NoConcurrentWork
  <1> QED
    BY <1>1, ClaimInvariance, PTL

-------------------------------------------------------------------------------
(* No task is forgotten.                                                       *)

(* A step that no QUEUED row is concerned by.                                  *)
Quiet ==
    /\ UNCHANGED <<twname, acked, job>> /\ (Fault \/ UNCHANGED faults)
    /\ \A v \in TWs : mpc[v] \in {"down", "restart"} => mpc'[v] \in {"down", "restart"}
    /\ \A t \in Tasks : \/ status'[t] = status[t] /\ stale'[t] = stale[t]
                        \/ status'[t] \notin {"HOLDING", "QUEUED"}

(* Lost answers are counted.                                                   *)
LEMMA FaultsGrow ==
    ASSUME TypeOK, Fault \/ UNCHANGED faults
    PROVE  faults' = 0 => faults = 0 /\ UNCHANGED faults
  BY LifecycleAssumption DEF TypeOK, Fault

(* A quiet step keeps the tasks accounted for.                                 *)
LEMMA QuietKeeps ==
    ASSUME LocalInv, TasksAccounted, Quiet
    PROVE  TasksAccounted'
  <1>1. ASSUME NEW t \in Tasks, ~stale'[t] PROVE Accounted(t)'
    <2>1. faults' = 0 => faults = 0
      BY FaultsGrow DEF LocalInv, Quiet
    <2>2. CASE status'[t] \notin {"HOLDING", "QUEUED"}
      BY <2>2 DEF Accounted
    <2>3. CASE status'[t] = status[t] /\ stale'[t] = stale[t]
      <3>1. Held(t) => Held(t)'
        BY DEF Held, Working, Quiet
      <3>2. Accounted(t) /\ twname'[t] = twname[t]
        BY DEF TasksAccounted, Quiet
      <3> QED
        BY <1>1, <2>1, <2>3, <3>1, <3>2 DEF Accounted, Quiet
    <2> QED
      BY <2>2, <2>3 DEF Quiet
  <1> QED
    BY <1>1 DEF TasksAccounted, Accounted

(* A write that does not leave the row HOLDING or QUEUED is quiet.             *)
LEMMA WriteQuiet ==
    ASSUME LocalInv, NEW t \in Tasks, NEW st \in Statuses \ {"HOLDING", "QUEUED"},
           NEW c \in Commands \cup {"NULL"}, NEW row, Write(t, st, c, row)
    PROVE  \A u \in Tasks : \/ status'[u] = status[u] /\ stale'[u] = stale[u]
                            \/ status'[u] \notin {"HOLDING", "QUEUED"}
  <1>1. TypeOK /\ st \in Statuses
    BY DEF LocalInv
  <1>2. status'[t] = st /\ \A u \in Tasks \ {t} : status'[u] = status[u] /\ stale'[u] = stale[u]
    BY <1>1, WriteEffect
  <1> QED
    BY <1>2

(* The users, the DAGs and the stage-in are quiet.                             *)
LEMMA QuietUsers ==
    ASSUME LocalInv,
           \/ \E t \in Tasks : Submit(t) \/ DagLeaves(t) \/ DagFails(t) \/ StageIn(t)
           \/ \E c \in Clients : Client(c)
    PROVE  Quiet
  <1>1. UNCHANGED <<twname, acked, job, mpc, faults>>
    BY DEF Submit, DagLeaves, DagFails, StageIn, Client, ReadRow, Refuse, Kill, Resubmit, WriteRow,
           ClearDryRun, Proceed, dbVars, twVars, counters
  <1>2. \A u \in Tasks : \/ status'[u] = status[u] /\ stale'[u] = stale[u]
                         \/ status'[u] \notin {"HOLDING", "QUEUED"}
    <2>1. ASSUME NEW t \in Tasks, Submit(t)
          PROVE  \A u \in Tasks : \/ status'[u] = status[u] /\ stale'[u] = stale[u]
                                  \/ status'[u] \notin {"HOLDING", "QUEUED"}
      BY <2>1 DEF Submit, SetStatusTask, LocalInv, TypeOK
    <2>2. ASSUME NEW t \in Tasks, DagFails(t)
          PROVE  \A u \in Tasks : \/ status'[u] = status[u] /\ stale'[u] = stale[u]
                                  \/ status'[u] \notin {"HOLDING", "QUEUED"}
      <3>1. PICK c \in Commands \cup {"NULL"} : c = command[t]
        BY DEF LocalInv, TypeOK
      <3>2. \E row : Write(t, "FAILED", c, row)
        BY <2>2, <3>1 DEF DagFails
      <3>3. "FAILED" \in Statuses \ {"HOLDING", "QUEUED"}
        BY TypesOfConstants
      <3> QED
        BY <3>2, <3>3, WriteQuiet
    <2>3. ASSUME NEW c \in Clients, Kill(c) \/ Resubmit(c) \/ Proceed(c)
          PROVE  \A u \in Tasks : \/ status'[u] = status[u] /\ stale'[u] = stale[u]
                                  \/ status'[u] \notin {"HOLDING", "QUEUED"}
      <3>1. PICK t \in Tasks : t = req[c].task
        BY <2>3, ClientWrites
      <3>2. PICK st \in {"NEW", "KILLRECALL", "KILLED"}, cmd \in Commands :
              \E row : Write(t, st, cmd, row)
        BY <2>3, <3>1, ClientWrites
      <3>3. st \in Statuses \ {"HOLDING", "QUEUED"} /\ cmd \in Commands \cup {"NULL"}
        BY TypesOfConstants
      <3> QED
        BY <3>2, <3>3, WriteQuiet
    <2>4. CASE UNCHANGED <<status, stale>>
      BY <2>4
    <2> QED
      BY <2>1, <2>2, <2>3, <2>4 DEF DagLeaves, StageIn, Client, ReadRow, Refuse, ClearDryRun, dbVars
  <1> QED
    BY <1>1, <1>2 DEF Quiet

(* So is the manager of tape recalls.                                          *)
LEMMA QuietRecall ==
    ASSUME LocalInv, NEW w \in TWs, Recall(w)
    PROVE  Quiet
  <1>1. CASE RecallGet(w) \/ RecallWait(w) \/ RecallAbort(w)
    BY <1>1 DEF RecallGet, RecallWait, RecallAbort, dbVars, counters, Quiet
  <1>2. CASE (\E t \in Tasks : RecallEnd(w, t)) \/ RecallKill(w)
    <2>1. PICK x \in recall[w], st \in {"NEW", "FAILED", "KILLED"}, c \in Commands \cup {"NULL"} :
            RecallWrite(w, x, st, c) /\ x \in SnapshotType
      BY <1>2, RecallWrites
    <2>2. PICK t \in Tasks, row \in RowType : t = x.task /\ row = x.row
      BY <2>1 DEF SnapshotType
    <2>3. /\ Write(t, st, c, row) /\ UNCHANGED <<twname, acked, job, mpc>>
          /\ Fault \/ UNCHANGED faults
      BY <2>1, <2>2 DEF RecallWrite
    <2>4. st \in Statuses \ {"HOLDING", "QUEUED"}
      BY TypesOfConstants
    <2>5. \A u \in Tasks : \/ status'[u] = status[u] /\ stale'[u] = stale[u]
                           \/ status'[u] \notin {"HOLDING", "QUEUED"}
      BY <2>3, <2>4, WriteQuiet
    <2> QED
      BY <2>3, <2>5 DEF Quiet
  <1> QED
    BY <1>1, <1>2 DEF Recall

(* So are the steps of the master that take no row on.                         *)
LEMMA QuietMaster ==
    ASSUME LocalInv, NEW w \in TWs,
           \/ RestartGet(w) \/ RestartTask(w) \/ GetWork(w) \/ RefuseTask(w) \/ SkipTask(w)
           \/ EndOfTurn(w) \/ Start(w)
    PROVE  Quiet
  <1>1. CASE RestartGet(w) \/ SkipTask(w)
    BY <1>1 DEF RestartGet, SkipTask, dbVars, counters, Quiet
  <1>2. CASE GetWork(w) \/ EndOfTurn(w) \/ Start(w)
    <2>1. /\ UNCHANGED <<status, stale, twname, acked, job>>
          /\ Fault \/ UNCHANGED faults
      BY <1>2 DEF GetWork, EndOfTurn, Start, dbVars, counters
    <2>2. \A v \in TWs : mpc[v] \in {"down", "restart"} => mpc'[v] \in {"down", "restart"}
      BY <1>2 DEF GetWork, EndOfTurn, Start, LocalInv, TypeOK
    <2> QED
      BY <2>1, <2>2 DEF Quiet
  <1>3. ASSUME NEW x \in batch[w], NEW st \in Statuses, NEW B, Writes(w, x, st, B, acked[w]),
               st # "QUEUED"
        PROVE  Quiet
    <2>1. /\ x.task \in Tasks /\ x.command \in Commands \cup {"NULL"}
      BY DEF LocalInv, TypeOK, SnapshotType
    <2>2. PICK t \in Tasks, c \in Commands \cup {"NULL"} : t = x.task /\ c = x.command
      BY <2>1
    <2>3. Write(t, st, c, x.row)
      BY <1>3, <2>2 DEF Writes
    <2>4. st \in Statuses \ {"HOLDING", "QUEUED"}
      BY <1>3, WritesStatus
    <2>5. \A u \in Tasks : \/ status'[u] = status[u] /\ stale'[u] = stale[u]
                           \/ status'[u] \notin {"HOLDING", "QUEUED"}
      BY <2>3, <2>4, WriteQuiet
    <2>6. acked' = acked
      BY <1>3 DEF Writes, LocalInv, TypeOK
    <2> QED
      BY <1>3, <2>5, <2>6 DEF Writes, Quiet
  <1>4. CASE RestartTask(w)
    <2>1. mpc[w] = "restart"
      BY <1>4 DEF RestartTask
    <2>2. CASE \E x \in batch[w], st \in Statuses : \E B, A : Writes(w, x, st, B, A)
      <3>1. PICK x \in batch[w], st \in Statuses : \E B, A : Writes(w, x, st, B, A)
        BY <2>2
      <3>2. PICK B, A : Writes(w, x, st, B, A)
        BY <3>1
      <3>3. A = acked[w] /\ st # "QUEUED"
        BY <2>1, <3>2 DEF Writes
      <3> QED
        BY <1>3, <3>2, <3>3
    <2>3. CASE \E x \in batch[w] : Reads(w, "restart", batch[w] \ {x})
      BY <2>1, <2>3 DEF Reads, Quiet, LocalInv, TypeOK
    <2> QED
      BY <1>4, <2>2, <2>3, RestartWrites
  <1>5. CASE RefuseTask(w)
    <2>1. PICK x \in batch[w] : Refused(x) /\ Ack(w, x, RefusedStatus(x), UNCHANGED acked)
      BY <1>5 DEF RefuseTask
    <2>2. PICK t \in Tasks, c \in Commands : t = x.task /\ c = x.command
      BY DEF LocalInv, TypeOK, MastersOK, BatchRow, SnapshotType
    <2>3. PICK st \in Statuses \ {"HOLDING", "QUEUED"} : st = RefusedStatus(x)
      <3>1. RefusedStatus(x) \in {"SUBMITFAILED", "KILLFAILED", "RESUBMITFAILED", "SUBMITTED"}
        BY <2>2, TypesOfConstants DEF RefusedStatus
      <3> QED
        BY <3>1, TypesOfConstants
    <2>4. /\ Write(t, st, c, x.row) /\ UNCHANGED <<twname, acked, job, mpc>>
          /\ Fault \/ UNCHANGED faults
      BY <2>1, <2>2, <2>3 DEF Ack
    <2>5. \A u \in Tasks : \/ status'[u] = status[u] /\ stale'[u] = stale[u]
                           \/ status'[u] \notin {"HOLDING", "QUEUED"}
      BY <2>4, WriteQuiet
    <2> QED
      BY <2>4, <2>5 DEF Quiet
  <1> QED
    BY <1>1, <1>2, <1>4, <1>5

(* A restart ends when no QUEUED row of the TaskWorker is left.                *)
LEMMA NoneReady ==
    ASSUME NEW w, NEW st, GetReadyTasks(w, Cardinality(Slots), st) = {{}}, NEW t \in Tasks,
           status[t] = st, twname[t] = w
    PROVE  FALSE
  <1>1. PICK rows : rows = {u \in Tasks : status[u] = st /\ twname[u] = w}
    OBVIOUS
  <1>2. IsFiniteSet(rows) /\ rows # {}
    BY <1>1, LifecycleAssumption, FS_Subset
  <1>3. Cardinality(rows) \in Nat /\ Cardinality(rows) # 0
    BY <1>2, FS_CardinalityType, FS_EmptySet
  <1>4. Cardinality(Slots) \in Nat /\ Cardinality(Slots) # 0
    BY LifecycleAssumption, FS_CardinalityType, FS_EmptySet
  <1>5. Limited(rows, Cardinality(Slots)) = {{}}
    BY <1>1 DEF GetReadyTasks
  <1>6. Cardinality({}) = Smallest(Cardinality(Slots), Cardinality(rows))
    BY <1>5 DEF Limited
  <1>7. Cardinality({}) = 0
    BY FS_EmptySet
  <1> QED
    BY <1>3, <1>4, <1>6, <1>7 DEF Smallest

(* The TaskWorkers that are down or about to find their QUEUED rows.           *)
LEMMA AccountedRestartDone ==
    ASSUME LocalInv, TasksAccounted, NEW w \in TWs, RestartDone(w)
    PROVE  TasksAccounted'
  <1>1. /\ UNCHANGED <<status, stale, twname, acked, job>> /\ mpc' = [mpc EXCEPT ![w] = "top"]
        /\ Fault \/ UNCHANGED faults
        /\ GetReadyTasks(w, Cardinality(Slots), "QUEUED") = {{}} \/ Fault
    BY DEF RestartDone, dbVars
  <1>2. faults' = 0 => faults = 0 /\ ~Fault
    <2>1. faults' = 0 => faults = 0
      BY <1>1, FaultsGrow DEF LocalInv
    <2>2. Fault => faults' # 0
      BY LifecycleAssumption DEF LocalInv, TypeOK, Fault
    <2> QED
      BY <2>1, <2>2
  <1>3. ASSUME NEW t \in Tasks PROVE Accounted(t)'
    <2>1. Held(t) => Held(t)'
      BY <1>1 DEF Held, Working
    <2>2. Accounted(t)
      BY DEF TasksAccounted
    <2>3. CASE twname[t] = w /\ status[t] = "QUEUED" /\ faults' = 0
      BY <1>1, <1>2, <2>3, NoneReady
    <2>4. CASE twname[t] # w
      <3>1. twname[t] \in TWs => mpc'[twname[t]] = mpc[twname[t]]
        BY <1>1, <2>4 DEF LocalInv, TypeOK
      <3> QED
        BY <1>1, <1>2, <2>1, <2>2, <3>1 DEF Accounted
    <2> QED
      BY <1>1, <2>2, <2>3, <2>4 DEF Accounted
  <1> QED
    BY <1>3 DEF TasksAccounted

(* _lockWork makes rows HOLDING in the name of the TaskWorker.                 *)
LEMMA AccountedLockWork ==
    ASSUME LocalInv, TasksAccounted, NEW w \in TWs, LockWork(w)
    PROVE  TasksAccounted'
  <1>1. UNCHANGED <<stale, acked, job>> /\ (Fault \/ UNCHANGED faults) /\ mpc[w] = "top"
    BY DEF LockWork
  <1>2. PICK rows \in SUBSET {t \in Tasks : status[t] = "NEW"} :
            /\ status' = [t \in Tasks |-> IF t \in rows THEN "HOLDING" ELSE status[t]]
            /\ twname' = [t \in Tasks |-> IF t \in rows THEN w ELSE twname[t]]
    BY DEF LockWork, UpdateWorker, Limited
  <1>3. \A v \in TWs : mpc[v] \in {"down", "restart"} => mpc'[v] = mpc[v]
    BY <1>1 DEF LockWork, LocalInv, TypeOK
  <1>4. faults' = 0 => faults = 0
    BY <1>1, FaultsGrow DEF LocalInv
  <1>5. ASSUME NEW t \in Tasks PROVE Accounted(t)'
    <2>1. CASE t \in rows
      BY <1>2, <2>1 DEF Accounted
    <2>2. CASE t \notin rows
      <3>1. Held(t) => Held(t)'
        BY <1>1 DEF Held, Working
      <3>2. Accounted(t) /\ status'[t] = status[t] /\ twname'[t] = twname[t] /\ stale' = stale
        BY <1>1, <1>2, <2>2 DEF TasksAccounted
      <3> QED
        BY <1>3, <1>4, <3>1, <3>2 DEF Accounted
    <2> QED
      BY <2>1, <2>2
  <1> QED
    BY <1>5 DEF TasksAccounted

(* A row becomes QUEUED as its task is put in toInject.                        *)
LEMMA AccountedQueueTask ==
    ASSUME LocalInv, TasksAccounted, NEW w \in TWs, QueueTask(w)
    PROVE  TasksAccounted'
  <1>1. PICK x \in batch[w] :
            ~Refused(x) /\ Ack(w, x, "QUEUED", acked' = [acked EXCEPT ![w] = acked[w] \cup {x}])
    BY DEF QueueTask
  <1>2. PICK t \in Tasks, c \in Commands : t = x.task /\ c = x.command
    BY DEF LocalInv, TypeOK, MastersOK, BatchRow, SnapshotType
  <1>3. /\ Write(t, "QUEUED", c, x.row) /\ mpc[w] = "ack" /\ UNCHANGED <<twname, job, mpc>>
        /\ \/ acked' = [acked EXCEPT ![w] = acked[w] \cup {x}] /\ UNCHANGED faults
           \/ acked' = acked /\ Fault
    BY <1>1, <1>2 DEF Ack
  <1>4. /\ ~stale'[t] => ~stale[t] /\ Row(t) = x.row
        /\ status'[t] = "QUEUED"
        /\ \A u \in Tasks \ {t} : status'[u] = status[u] /\ stale'[u] = stale[u]
    <2>1. "QUEUED" \in Statuses /\ c \in Commands \cup {"NULL"} /\ TypeOK
      BY TypesOfConstants DEF LocalInv
    <2> QED
      BY <1>3, <2>1, WriteEffect
  <1>5. x.row.status \in {"HOLDING", "QUEUED"}
    BY <1>1, <1>3 DEF LocalInv, MastersOK, BatchRow
  <1>6. \A v \in TWs : acked[v] \subseteq acked'[v]
    BY <1>3 DEF LocalInv, TypeOK
  <1>7. \A u \in Tasks : Held(u) => Held(u)'
    BY <1>3, <1>6 DEF Held, Working
  <1>8. faults' = 0 => faults = 0 /\ x \in acked'[w]
    <2>1. Fault => faults' # 0
      BY LifecycleAssumption DEF LocalInv, TypeOK, Fault
    <2> QED
      BY <1>3, <2>1 DEF LocalInv, TypeOK
  <1>9. ASSUME NEW u \in Tasks, u # t PROVE Accounted(u)'
    BY <1>3, <1>4, <1>7, <1>8, <1>9 DEF TasksAccounted, Accounted
  <1>10. Accounted(t)'
    <2>1. ~stale'[t] => twname'[t] \in TWs
      <3>1. Row(t).status = status[t]
        BY DEF Row
      <3> QED
        BY <1>3, <1>4, <1>5, <3>1 DEF TasksAccounted, Accounted
    <2>2. faults' = 0 => Held(t)'
      BY <1>2, <1>8 DEF Held
    <2> QED
      BY <2>1, <2>2 DEF Accounted
  <1> QED
    BY <1>9, <1>10 DEF TasksAccounted

(* A task leaves toInject for a slot.                                          *)
LEMMA AccountedInject ==
    ASSUME LocalInv, TasksAccounted, NEW w \in TWs, InjectWork(w)
    PROVE  TasksAccounted'
  <1>1. PICK x \in acked[w], s \in Slots :
            /\ x.task \in Tasks /\ job[w][s] = NoJob /\ JobBecomes(w, s, Injected(x))
            /\ acked' = [acked EXCEPT ![w] = acked[w] \ {x}]
    BY Injects
  <1>2. UNCHANGED <<status, twname, stale, mpc, faults>>
    BY Injects
  <1>3. acked'[w] = acked[w] \ {x} /\ \A v \in TWs \ {w} : acked'[v] = acked[v]
    BY <1>1 DEF LocalInv, TypeOK
  <1>4. Working(w, s, x.task)'
    BY <1>1 DEF Working, JobBecomes, Injected
  <1>5. \A v \in TWs, r \in Slots, u \in Tasks : Working(v, r, u) => Working(v, r, u)'
    BY <1>1 DEF Working, JobBecomes, NoJob
  <1>6. ASSUME NEW u \in Tasks, Held(u) PROVE Held(u)'
    BY <1>3, <1>4, <1>5, <1>6 DEF Held
  <1> QED
    BY <1>2, <1>6 DEF TasksAccounted, Accounted

(* What a TaskWorker that goes down had, it had under its name.                *)
LEMMA AccountedCrash ==
    ASSUME LocalInv, ClaimInv, TasksAccounted, NEW w \in TWs, Crash(w)
    PROVE  TasksAccounted'
  <1>1. UNCHANGED <<status, twname, stale, faults>>
    BY DEF Crash, dbVars
  <1>2. /\ mpc'[w] = "down"
        /\ \A v \in TWs \ {w} : mpc'[v] = mpc[v] /\ acked'[v] = acked[v] /\ job'[v] = job[v]
    BY DEF Crash, LocalInv, TypeOK
  <1>3. ASSUME NEW t \in Tasks, ~stale[t], Held(t) PROVE Held(t)' \/ twname[t] = w
    <2>1. AckedClaim(t) /\ JobClaim(t)
      BY <1>3 DEF ClaimInv, TasksClaimed, Claims
    <2>2. ASSUME NEW v \in TWs, NEW y \in acked[v], y.task = t PROVE Held(t)' \/ twname[t] = w
      <3>1. twname[t] = v
        BY <2>1, <2>2 DEF AckedClaim
      <3> QED
        BY <1>2, <2>2, <3>1 DEF Held
    <2>3. ASSUME NEW v \in TWs, NEW s \in Slots, Working(v, s, t) PROVE Held(t)' \/ twname[t] = w
      <3>1. twname[t] = v
        BY <2>1, <2>3 DEF JobClaim
      <3> QED
        BY <1>2, <2>3, <3>1 DEF Held, Working
    <2> QED
      BY <1>3, <2>2, <2>3 DEF Held
  <1> QED
    BY <1>1, <1>2, <1>3 DEF TasksAccounted, Accounted

(* A handler that goes on has its task as before.                              *)
LEMMA AccountedActs ==
    ASSUME LocalInv, TasksAccounted, NEW w \in TWs, NEW s \in Slots,
           Prepare(w, s) \/ SubmitDAG(w, s) \/ KillDAG(w, s) \/ ResubmitDAG(w, s)
    PROVE  TasksAccounted'
  <1>1. PICK pc \in {"post", "fail"}, out \in Statuses : Turns(w, s, pc, out)
    BY HandlerActs
  <1>2. /\ job[w][s].pc # "idle"
        /\ UNCHANGED <<status, twname, stale, mpc, acked, faults>>
    BY HandlerActs
  <1>3. PICK j : j = Turned(job[w][s], pc, out)
    OBVIOUS
  <1>4. JobBecomes(w, s, j)
    BY <1>1, <1>2, <1>3, TurnStep DEF Turns
  <1>5. j.task = job[w][s].task /\ j.row = job[w][s].row
    BY <1>3 DEF Turned
  <1>6. \A v \in TWs, r \in Slots, u \in Tasks : Working(v, r, u) => Working(v, r, u)'
    BY <1>4, <1>5 DEF Working, JobBecomes
  <1>7. \A u \in Tasks : Held(u) => Held(u)'
    BY <1>2, <1>6 DEF Held
  <1> QED
    BY <1>2, <1>7 DEF TasksAccounted, Accounted

(* A report given up is a lost answer.                                         *)
LEMMA AccountedGivesUp ==
    ASSUME LocalInv, TasksAccounted, NEW w \in TWs, NEW s \in Slots, ReportGiveUp(w, s)
    PROVE  TasksAccounted'
  <1>1. UNCHANGED <<status, twname, stale>> /\ Fault
    BY GivesUp
  <1>2. faults' # 0
    BY <1>1, LifecycleAssumption DEF LocalInv, TypeOK, Fault
  <1> QED
    BY <1>1, <1>2 DEF TasksAccounted, Accounted

(* A reported row is no longer QUEUED.                                         *)
LEMMA AccountedReport ==
    ASSUME LocalInv, TasksAccounted, NEW w \in TWs, NEW s \in Slots, Report(w, s)
    PROVE  TasksAccounted'
  <1>1. PICK i \in JobRecord : i = job[w][s]
    BY Reports
  <1>2. PICK t \in Tasks, st \in Statuses : t = i.task /\ st = i.out
    BY DEF JobRecord
  <1>3. i.pc \in {"post", "fail"} /\ JobOK(i)
    BY <1>1, Reports
  <1>4. PICK c \in Commands \cup {"NULL"} :
          /\ Write(t, st, c, i.row)
          /\ Fault \/ UNCHANGED faults
          /\ \E j : JobBecomes(w, s, j)
    BY <1>1, <1>2, Reports
  <1>5. UNCHANGED <<twname, mpc, acked>>
    BY Reports
  <1>6. st \notin {"HOLDING", "QUEUED"}
    BY <1>2, <1>3, ReportEnds
  <1>7. /\ status'[t] = st
        /\ \A u \in Tasks \ {t} : status'[u] = status[u] /\ stale'[u] = stale[u]
    <2>1. TypeOK
      BY DEF LocalInv
    <2> QED
      BY <1>4, <2>1, WriteEffect
  <1>8. faults' = 0 => faults = 0
    BY <1>4, FaultsGrow DEF LocalInv
  <1>9. ASSUME NEW u \in Tasks, u # t PROVE Accounted(u)'
    <2>1. \A v \in TWs, r \in Slots : Working(v, r, u) => Working(v, r, u)'
      BY <1>1, <1>2, <1>4, <1>9 DEF Working, JobBecomes
    <2>2. Held(u) => Held(u)'
      BY <1>5, <2>1 DEF Held
    <2> QED
      BY <1>5, <1>7, <1>8, <1>9, <2>2 DEF TasksAccounted, Accounted
  <1>10. Accounted(t)'
    BY <1>6, <1>7 DEF Accounted
  <1> QED
    BY <1>9, <1>10 DEF TasksAccounted

(* Every step keeps the tasks accounted for.                                   *)
LEMMA AccountedNext == LocalInv /\ ClaimInv /\ TasksAccounted /\ [Next]_vars => TasksAccounted'
  <1> SUFFICES ASSUME LocalInv, ClaimInv, TasksAccounted, [Next]_vars PROVE TasksAccounted'
    OBVIOUS
  <1>1. CASE UNCHANGED vars
    <2>1. Quiet
      BY <1>1 DEF vars, dbVars, twVars, counters, Quiet
    <2> QED
      BY <2>1, QuietKeeps
  <1>2. CASE \/ \E t \in Tasks : Submit(t) \/ DagLeaves(t) \/ DagFails(t) \/ StageIn(t)
             \/ \E c \in Clients : Client(c)
    BY <1>2, QuietUsers, QuietKeeps
  <1>3. ASSUME NEW w \in TWs, TaskWorker(w)
        PROVE  TasksAccounted'
    <2>1. CASE Master(w) \/ Start(w) \/ Crash(w)
      BY <2>1, QuietMaster, QuietKeeps, AccountedRestartDone, AccountedLockWork, AccountedQueueTask,
         AccountedInject, AccountedCrash DEF Master
    <2>2. ASSUME NEW s \in Slots, Handle(w, s)
          PROVE  TasksAccounted'
      BY <2>2, AccountedActs, AccountedGivesUp, AccountedReport DEF Handle
    <2>3. CASE Recall(w)
      BY <2>3, QuietRecall, QuietKeeps
    <2> QED
      BY <1>3, <2>1, <2>2, <2>3 DEF TaskWorker
  <1> QED
    BY <1>1, <1>2, <1>3 DEF Next

(* Without a lost answer, a QUEUED task has somebody to work on it, or its     *)
(* TaskWorker is down or about to find it.                                     *)
THEOREM NoTaskForgotten == Spec => []QueuedAccounted
  <1>1. Init => TasksAccounted
    BY DEF Init, TasksAccounted, Accounted
  <1>2. TasksAccounted => QueuedAccounted
    <2>1. \A t \in Tasks : Held(t) => Holders(t) # {}
      <3>1. SUFFICES ASSUME NEW t \in Tasks, Held(t) PROVE Holders(t) # {}
        OBVIOUS
      <3>2. ASSUME NEW w \in TWs, NEW y \in acked[w], y.task = t PROVE <<w, "acked">> \in Holders(t)
        BY <3>2 DEF Holders
      <3>3. ASSUME NEW w \in TWs, NEW s \in Slots, Working(w, s, t) PROVE <<w, s>> \in Holders(t)
        BY <3>3 DEF Holders, Handlers, Working
      <3> QED
        BY <3>1, <3>2, <3>3 DEF Held
    <2> QED
      BY <2>1 DEF TasksAccounted, Accounted, QueuedAccounted
  <1> QED
    BY <1>1, <1>2, LocalInit, LocalNext, ClaimsInit, ClaimsNext, AccountedNext, PTL DEF Spec

-------------------------------------------------------------------------------
(* The row and the DAG.                                                        *)

(* A change of a row that asks nothing new of the DAG.                         *)
Safe(r, n) ==
    /\ HeldFree(n) => HeldFree(r)
    /\ RunFree(n) => RunFree(r)
    /\ OnlySubmitRejected /\ n.status = "SUBMITTED" => r.status = "SUBMITTED"

(* Nothing new is asked of the DAG of t, and nothing happens to it.            *)
Fits(t) ==
    ~stale'[t] =>
        /\ ~stale[t] /\ Safe(Row(t), Row(t)')
        /\ dag'[t] = dag[t] /\ unreported'[t] = unreported[t]
        /\ \A w \in TWs, s \in Slots :
            Working(w, s, t)' /\ job'[w][s].pc = "post" /\ job'[w][s].command # "SUBMIT" =>
                /\ Working(w, s, t) /\ job[w][s].pc = "post" /\ job'[w][s].command = job[w][s].command

(* Then DagOK goes on.                                                         *)
LEMMA FitsKeeps ==
    ASSUME NEW t \in Tasks, DagOK(t), Fits(t)
    PROVE  DagOK(t)'
  <1> SUFFICES ASSUME ~stale'[t] PROVE DagOK(t)'
    BY DEF DagOK
  <1>1. /\ ~stale[t] /\ Safe(Row(t), Row(t)') /\ dag'[t] = dag[t] /\ unreported'[t] = unreported[t]
    BY DEF Fits
  <1>2. \A w \in TWs, s \in Slots :
            Working(w, s, t)' /\ job'[w][s].pc = "post" /\ job'[w][s].command # "SUBMIT" =>
                /\ Working(w, s, t) /\ job[w][s].pc = "post" /\ job'[w][s].command = job[w][s].command
    BY DEF Fits
  <1>3. /\ \A w \in TWs, s \in Slots : Reporting(w, s, t, "RESUBMIT")' => Reporting(w, s, t, "RESUBMIT")
        /\ \A w \in TWs, s \in Slots : Reporting(w, s, t, "KILL")' => Reporting(w, s, t, "KILL")
    BY <1>2 DEF Reporting
  <1>4. Row(t).status = status[t] /\ Row(t)'.status = status'[t]
    BY DEF Row
  <1>5. HeldFree(Row(t))' => HeldFree(Row(t))
    BY <1>1 DEF Safe, HeldFree
  <1>6. RunFree(Row(t))' => RunFree(Row(t))
    BY <1>1 DEF Safe, RunFree
  <1>7. OnlySubmitRejected /\ status'[t] = "SUBMITTED" => status[t] = "SUBMITTED"
    BY <1>1, <1>4 DEF Safe
  <1> QED
    BY <1>1, <1>3, <1>5, <1>6, <1>7 DEF DagOK

(* Changes by the users, by the manager of tape recalls and by the PreDAG.     *)
LEMMA UserSafe ==
    ASSUME NEW r \in RowType, NEW n \in RowType, Diagram!User(r, n)
    PROVE  Safe(r, n)
  BY DEF Diagram!User, Safe, HeldFree, RunFree, RowType

(* The same for the manager of tape recalls.                                   *)
LEMMA RecallSafe ==
    ASSUME NEW r \in RowType, NEW n \in RowType, NEW p, RecallOK(p, r), RecallNext(p, r, n),
           n.status = "FAILED" => n.command = r.command
    PROVE  Safe(r, n)
  BY DEF RecallOK, RecallNext, Safe, HeldFree, RunFree, RowType

(* The same for the PreDAG.                                                    *)
LEMMA SplitSafe ==
    ASSUME NEW c
    PROVE  Safe([status |-> "SUBMITTED", command |-> c], [status |-> "FAILED", command |-> c])
  BY DEF Safe, HeldFree, RunFree

(* Changes by the master, a dropped command of a configuration that rejects it *)
(* excepted.                                                                   *)
LEMMA MasterSafe ==
    ASSUME LocalInv, NEW w \in TWs, NEW x \in batch[w], NEW st, NEW B, NEW A, Writes(w, x, st, B, A)
    PROVE  Safe(x.row, [status |-> st, command |-> x.command])
  <1>1. BatchRow(mpc[w], x) /\ x.command \in {"SUBMIT", "KILL", "RESUBMIT"} /\ x.row.command = x.command
    BY TypesOfConstants DEF LocalInv, MastersOK, BatchRow
  <1>2. CASE mpc[w] = "restart"
    <2>1. st = "NEW" /\ x.row.status \in {"QUEUED", "NEW"}
      BY <1>1, <1>2 DEF Writes, BatchRow
    <2> QED
      BY <1>1, <2>1 DEF Safe, HeldFree, RunFree
  <1>3. CASE mpc[w] = "ack" /\ ~Refused(x)
    <2>1. st = "QUEUED" /\ x.row.status \in {"HOLDING", "QUEUED"}
      BY <1>1, <1>3 DEF Writes, BatchRow
    <2> QED
      BY <1>1, <2>1 DEF Safe, HeldFree, RunFree
  <1>4. CASE mpc[w] = "ack" /\ Refused(x)
    <2>1. st = RefusedStatus(x) /\ x.row.status \in {"HOLDING", st}
      BY <1>1, <1>4 DEF Writes, BatchRow
    <2>2. CASE x.command = "SUBMIT"
      <3>1. st = "SUBMITFAILED"
        BY <2>1, <2>2, TypesOfConstants DEF RefusedStatus
      <3> QED
        BY <1>1, <2>1, <2>2, <3>1 DEF Safe, HeldFree, RunFree
    <2>3. CASE x.command # "SUBMIT"
      <3>1. st \in {"KILLFAILED", "RESUBMITFAILED", "SUBMITTED"}
        BY <1>1, <2>1, <2>3, TypesOfConstants DEF RefusedStatus
      <3>2. OnlySubmitRejected => st # "SUBMITTED"
        BY <1>1, <1>4, <2>1, <2>3, TypesOfConstants DEF OnlySubmitRejected, Refused, RefusedStatus
      <3> QED
        BY <1>1, <2>3, <3>1, <3>2 DEF Safe, HeldFree, RunFree
    <2> QED
      BY <2>2, <2>3
  <1> QED
    BY <1>2, <1>3, <1>4 DEF Writes

(* A write that asks nothing new of the DAG.                                   *)
LEMMA SafeWrite ==
    ASSUME LocalInv, DagsOK, NEW t \in Tasks, NEW st \in Statuses, NEW c \in Commands \cup {"NULL"},
           NEW row, Write(t, st, c, row), Safe(row, [status |-> st, command |-> c]),
           UNCHANGED <<dag, unreported, job>>
    PROVE  DagsOK'
  <1>1. /\ status'[t] = st /\ command'[t] = c
        /\ ~stale'[t] => ~stale[t] /\ Row(t) = row
        /\ \A u \in Tasks \ {t} : /\ status'[u] = status[u] /\ command'[u] = command[u]
                                  /\ stale'[u] = stale[u]
    <2>1. TypeOK
      BY DEF LocalInv
    <2> QED
      BY <2>1, WriteEffect
  <1>2. \A u \in Tasks \ {t} : Row(u)' = Row(u)
    BY <1>1 DEF Row
  <1>3. Row(t)' = [status |-> st, command |-> c]
    BY <1>1 DEF Row
  <1>4. \A w \in TWs, s \in Slots, u \in Tasks : Working(w, s, u)' <=> Working(w, s, u)
    BY DEF Working
  <1>5. Fits(t)
    BY <1>1, <1>3, <1>4 DEF Fits
  <1>6. \A u \in Tasks \ {t} : Fits(u)
    <2>1. \A u \in Tasks : Safe(Row(u), Row(u))
      BY DEF Safe
    <2> QED
      BY <1>1, <1>2, <1>4, <2>1 DEF Fits
  <1> QED
    BY <1>5, <1>6, FitsKeeps DEF DagsOK

(* Rows, DAGs and reports stay as they are.                                    *)
LEMMA DagsCalm ==
    ASSUME DagsOK, UNCHANGED <<status, command, stale, dag, unreported, job>>
    PROVE  DagsOK'
  <1>1. \A u \in Tasks : Fits(u)
    BY DEF Fits, Safe, Row, Working
  <1> QED
    BY <1>1, FitsKeeps DEF DagsOK

(* Submission, DAGs and stage-in keep DagsOK.                                  *)
LEMMA DagsUsers ==
    ASSUME LocalInv, DagsOK, NEW t \in Tasks, Submit(t) \/ DagLeaves(t) \/ DagFails(t) \/ StageIn(t)
    PROVE  DagsOK'
  <1>1. CASE StageIn(t)
    BY <1>1, DagsCalm DEF StageIn, dbVars, twVars
  <1>2. CASE Submit(t)
    <2>1. /\ UNCHANGED <<dag, unreported, job, stale>> /\ status[t] = "NONE"
          /\ status'[t] = "NEW" /\ command'[t] = "SUBMIT"
          /\ \A u \in Tasks \ {t} : status'[u] = status[u] /\ command'[u] = command[u]
      BY <1>2 DEF Submit, SetStatusTask, twVars, LocalInv, TypeOK
    <2>2. Safe(Row(t), Row(t)')
      BY <2>1 DEF Safe, HeldFree, RunFree, Row
    <2>3. \A u \in Tasks : Safe(Row(u), Row(u)')
      <3>1. \A u \in Tasks \ {t} : Row(u)' = Row(u)
        BY <2>1 DEF Row
      <3> QED
        BY <2>2, <3>1 DEF Safe
    <2>4. \A u \in Tasks : Fits(u)
      BY <2>1, <2>3 DEF Fits, Working
    <2> QED
      BY <2>4, FitsKeeps DEF DagsOK
  <1>3. CASE DagFails(t)
    <2>1. PICK c \in Commands \cup {"NULL"} : c = command[t]
      BY DEF LocalInv, TypeOK
    <2>2. PICK row : row = [status |-> "SUBMITTED", command |-> command[t]]
      OBVIOUS
    <2>3. Write(t, "FAILED", c, row) /\ UNCHANGED <<dag, unreported, job>>
      BY <1>3, <2>1, <2>2 DEF DagFails, twVars
    <2>4. Safe(row, [status |-> "FAILED", command |-> c]) /\ "FAILED" \in Statuses
      BY <2>1, <2>2, SplitSafe, TypesOfConstants
    <2> QED
      BY <2>3, <2>4, SafeWrite
  <1>4. CASE DagLeaves(t)
    <2>1. /\ UNCHANGED <<status, command, stale, job>> /\ dag'[t] = "none"
          /\ \A u \in Tasks \ {t} : dag'[u] = dag[u] /\ unreported'[u] = unreported[u]
      BY <1>4 DEF DagLeaves, dbVars, twVars, LocalInv, TypeOK
    <2>2. \A u \in Tasks \ {t} : Fits(u)
      BY <2>1 DEF Fits, Safe, Row, Working
    <2>3. DagOK(t)'
      BY <2>1 DEF DagOK
    <2> QED
      BY <2>2, <2>3, FitsKeeps DEF DagsOK
  <1> QED
    BY <1>1, <1>2, <1>3, <1>4

(* The requests of the users keep DagsOK.                                      *)
LEMMA DagsClient ==
    ASSUME LocalInv, DagsOK, NEW c \in Clients, Client(c)
    PROVE  DagsOK'
  <1>1. CASE Kill(c) \/ Resubmit(c) \/ Proceed(c)
    <2>1. PICK t \in Tasks, row \in RowType : t = req[c].task /\ row = req[c].row
      BY <1>1, ClientWrites
    <2>2. PICK st \in {"NEW", "KILLRECALL", "KILLED"}, cmd \in Commands :
            Write(t, st, cmd, row) /\ Diagram!User(row, [status |-> st, command |-> cmd])
      BY <1>1, <2>1, ClientWrites
    <2>3. UNCHANGED <<dag, unreported, job>> /\ st \in Statuses /\ cmd \in Commands \cup {"NULL"}
      BY <1>1, ClientWrites, TypesOfConstants
    <2>4. Safe(row, [status |-> st, command |-> cmd])
      BY <2>2, <2>3, UserSafe DEF RowType
    <2> QED
      BY <2>2, <2>3, <2>4, SafeWrite
  <1>2. CASE (\E t \in Tasks, op \in {"kill", "resubmit", "proceed"} : ReadRow(c, op, t))
             \/ Refuse(c) \/ ClearDryRun(c)
    <2>1. UNCHANGED <<status, command, stale, dag, unreported, job>>
      BY <1>2 DEF ReadRow, Refuse, ClearDryRun, dbVars, twVars
    <2> QED
      BY <2>1, DagsCalm
  <1> QED
    BY <1>1, <1>2 DEF Client

(* The manager of tape recalls keeps DagsOK.                                   *)
LEMMA DagsRecall ==
    ASSUME LocalInv, DagsOK, NEW w \in TWs, Recall(w)
    PROVE  DagsOK'
  <1>1. CASE RecallGet(w) \/ RecallWait(w) \/ RecallAbort(w)
    <2>1. UNCHANGED <<status, command, stale, dag, unreported, job>>
      BY <1>1 DEF RecallGet, RecallWait, RecallAbort, dbVars
    <2> QED
      BY <2>1, DagsCalm
  <1>2. CASE (\E t \in Tasks : RecallEnd(w, t)) \/ RecallKill(w)
    <2>1. PICK x \in recall[w], st \in {"NEW", "FAILED", "KILLED"}, c \in Commands \cup {"NULL"} :
            /\ RecallWrite(w, x, st, c) /\ x \in SnapshotType /\ RecallOK(phase[w], x.row)
            /\ RecallNext(phase[w], x.row, [status |-> st, command |-> c])
            /\ st = "FAILED" => c = command[x.task]
      BY <1>2, RecallWrites
    <2>2. PICK t \in Tasks, row \in RowType : t = x.task /\ row = x.row
      BY <2>1 DEF SnapshotType
    <2>3. Write(t, st, c, row) /\ UNCHANGED <<dag, unreported, job>> /\ st \in Statuses
      BY <2>1, <2>2, TypesOfConstants DEF RecallWrite
    <2>4. CASE Row(t) = row
      <3>1. st = "FAILED" => c = row.command
        BY <2>1, <2>2, <2>4 DEF Row
      <3>2. Safe(row, [status |-> st, command |-> c])
        BY <2>1, <2>2, <2>3, <3>1, RecallSafe DEF RowType
      <3> QED
        BY <2>3, <3>2, SafeWrite
    <2>5. CASE Row(t) # row
      <3>1. /\ stale'[t]
            /\ \A u \in Tasks \ {t} : /\ status'[u] = status[u] /\ command'[u] = command[u]
                                      /\ stale'[u] = stale[u]
        <4>1. TypeOK
          BY DEF LocalInv
        <4>2. /\ stale' \in [Tasks -> BOOLEAN] /\ (~stale'[t] => Row(t) = row)
              /\ \A u \in Tasks \ {t} : /\ status'[u] = status[u] /\ command'[u] = command[u]
                                        /\ stale'[u] = stale[u]
          BY <2>3, <4>1, WriteEffect
        <4>3. stale'[t]
          BY <2>5, <4>2
        <4> QED
          BY <4>2, <4>3
      <3>2. \A u \in Tasks : Fits(u)
        BY <2>3, <3>1 DEF Fits, Safe, Row, Working
      <3> QED
        BY <3>2, FitsKeeps DEF DagsOK
    <2> QED
      BY <2>4, <2>5
  <1> QED
    BY <1>1, <1>2 DEF Recall

(* The writes of the master keep DagsOK.                                       *)
LEMMA DagsMasterWrites ==
    ASSUME LocalInv, DagsOK, NEW w \in TWs, NEW x \in batch[w], NEW st \in Statuses, NEW B, NEW A,
           Writes(w, x, st, B, A)
    PROVE  DagsOK'
  <1>1. x.task \in Tasks /\ x.command \in Commands
    BY DEF LocalInv, TypeOK, MastersOK, BatchRow, SnapshotType
  <1>2. PICK t \in Tasks, c \in Commands \cup {"NULL"} : t = x.task /\ c = x.command
    BY <1>1
  <1>3. Write(t, st, c, x.row) /\ UNCHANGED <<dag, unreported, job>>
    BY <1>2 DEF Writes
  <1>4. Safe(x.row, [status |-> st, command |-> c])
    BY <1>2, MasterSafe
  <1> QED
    BY <1>3, <1>4, SafeWrite

(* The master keeps DagsOK.                                                    *)
LEMMA DagsMaster ==
    ASSUME LocalInv, DagsOK, NEW w \in TWs, Master(w) \/ Start(w) \/ Crash(w)
    PROVE  DagsOK'
  <1>1. CASE RestartTask(w) \/ RefuseTask(w) \/ QueueTask(w)
    <2>1. CASE \E x \in batch[w], st \in Statuses : \E B, A : Writes(w, x, st, B, A)
      BY <2>1, DagsMasterWrites
    <2>2. CASE \E x \in batch[w] : Reads(w, "restart", batch[w] \ {x})
      <3>1. UNCHANGED <<status, command, stale, dag, unreported, job>>
        BY <2>2 DEF Reads
      <3> QED
        BY <3>1, DagsCalm
    <2> QED
      BY <1>1, <2>1, <2>2, RestartWrites, AckWrites
  <1>2. CASE \/ RestartGet(w) \/ RestartDone(w) \/ GetWork(w) \/ SkipTask(w) \/ EndOfTurn(w)
             \/ Start(w)
    <2>1. UNCHANGED <<status, command, stale, dag, unreported, job>>
      BY <1>2 DEF RestartGet, RestartDone, GetWork, SkipTask, EndOfTurn, Start, dbVars
    <2> QED
      BY <2>1, DagsCalm
  <1>3. CASE LockWork(w)
    <2>1. UNCHANGED <<command, stale, dag, unreported, job>>
      BY <1>3 DEF LockWork
    <2>2. \A t \in Tasks : status'[t] = status[t] \/ (status[t] = "NEW" /\ status'[t] = "HOLDING")
      BY <1>3 DEF LockWork, UpdateWorker, Limited
    <2>3. \A t \in Tasks : Safe(Row(t), Row(t)')
      BY <2>1, <2>2 DEF Safe, HeldFree, RunFree, Row
    <2>4. \A t \in Tasks : Fits(t)
      BY <2>1, <2>3 DEF Fits, Working
    <2> QED
      BY <2>4, FitsKeeps DEF DagsOK
  <1>4. CASE InjectWork(w)
    <2>1. PICK x \in acked[w], s \in Slots : JobBecomes(w, s, Injected(x))
      BY <1>4, Injects
    <2>2. UNCHANGED <<status, command, stale, dag, unreported>>
      BY <1>4, Injects
    <2>3. \A t \in Tasks : Fits(t)
      BY <2>1, <2>2 DEF Fits, Safe, Row, Working, JobBecomes, Injected
    <2> QED
      BY <2>3, FitsKeeps DEF DagsOK
  <1>5. CASE Crash(w)
    <2>1. UNCHANGED <<status, command, stale, dag, unreported>>
      BY <1>5 DEF Crash, dbVars
    <2>2. \A v \in TWs, s \in Slots : job'[v][s] \in {job[v][s], NoJob}
      BY <1>5 DEF Crash, LocalInv, TypeOK
    <2>3. \A t \in Tasks : Fits(t)
      BY <2>1, <2>2 DEF Fits, Safe, Row, Working, NoJob
    <2> QED
      BY <2>3, FitsKeeps DEF DagsOK
  <1> QED
    BY <1>1, <1>2, <1>3, <1>4, <1>5 DEF Master

(* A handler at work goes on with the same task, command and row.              *)
GoesOn(w, s, t, j) ==
    /\ JobBecomes(w, s, j) /\ j.task = t /\ j.command = job[w][s].command /\ j.row = job[w][s].row
    /\ Fail(w, s) => j.pc = "fail"

(* What a handler does on the scheduler is to go on, with no row written.      *)
LEMMA ActsJob ==
    ASSUME LocalInv, NEW w \in TWs, NEW s \in Slots,
           Prepare(w, s) \/ SubmitDAG(w, s) \/ KillDAG(w, s) \/ ResubmitDAG(w, s)
    PROVE  /\ job[w][s] \in JobRecord /\ job[w][s].pc = "run" /\ JobOK(job[w][s])
           /\ \E t \in Tasks, j \in JobType : t = job[w][s].task /\ GoesOn(w, s, t, j)
           /\ UNCHANGED <<status, command, stale>>
  <1>1. /\ job[w][s].pc = "run" /\ UNCHANGED <<status, command, stale>>
        /\ \E pc \in {"post", "fail"}, out \in Statuses : Turns(w, s, pc, out)
    BY HandlerActs
  <1>2. job[w][s] \in JobRecord /\ JobOK(job[w][s])
    BY <1>1, JobIs DEF JobRecord
  <1>3. PICK pc \in {"run", "post", "fail"}, out \in Statuses :
            Turns(w, s, pc, out) /\ (Fail(w, s) => pc = "fail")
    <2>1. CASE Fail(w, s)
      BY <1>1, <2>1, HandlerFails
    <2>2. CASE ~Fail(w, s)
      BY <1>1, <2>2
    <2> QED
      BY <2>1, <2>2
  <1>4. PICK j : j = Turned(job[w][s], pc, out)
    OBVIOUS
  <1>5. JobBecomes(w, s, j)
    BY <1>1, <1>3, <1>4, TurnStep DEF Turns
  <1>6. GoesOn(w, s, job[w][s].task, j)
    BY <1>3, <1>4, <1>5 DEF GoesOn, Turned
  <1>7. j \in JobType /\ job[w][s].task \in Tasks
    BY <1>2, <1>5 DEF JobBecomes, JobRecord
  <1> QED
    BY <1>1, <1>2, <1>6, <1>7

(* A kill or a resubmission at work has the task to itself.                    *)
LEMMA WorksAlone ==
    ASSUME LocalInv, ClaimInv, NEW w \in TWs, NEW s \in Slots, NEW t \in Tasks, ~stale[t],
           job[w][s].task = t, job[w][s].pc = "run", job[w][s].command # "SUBMIT"
    PROVE  /\ Row(t) = [status |-> "QUEUED", command |-> job[w][s].command]
           /\ \A v \in TWs, r \in Slots : Working(v, r, t) => v = w /\ r = s
  <1>1. /\ job[w][s] \in JobRecord /\ JobOK(job[w][s])
    BY JobIs DEF JobRecord
  <1>2. job[w][s].row.status = "QUEUED" /\ job[w][s].row.command = job[w][s].command
    BY <1>1 DEF JobOK
  <1>3. JobClaim(t) /\ Working(w, s, t) /\ Claims(t)
    BY <1>2 DEF ClaimInv, TasksClaimed, Claims, Working
  <1>4. Row(t) = job[w][s].row
    BY <1>3 DEF JobClaim
  <1>5. Row(t) = [status |-> "QUEUED", command |-> job[w][s].command]
    BY <1>2, <1>4 DEF Row
  <1>6. \A v \in TWs, r \in Slots : Working(v, r, t) => v = w /\ r = s
    BY <1>2, <1>3, <1>4, JobIsSole
  <1> QED
    BY <1>5, <1>6

(* It asks nothing of the DAGs of other tasks, nor of its own as it fails.     *)
LEMMA DagsFits ==
    ASSUME LocalInv, NEW w \in TWs, NEW s \in Slots, NEW t \in Tasks, NEW j \in JobType,
           GoesOn(w, s, t, j), UNCHANGED <<status, command, stale>>,
           NEW u \in Tasks, dag'[u] = dag[u], unreported'[u] = unreported[u],
           u # t \/ Fail(w, s) \/ job[w][s].command = "SUBMIT"
    PROVE  Fits(u)
  <1>1. Row(u)' = Row(u) /\ Safe(Row(u), Row(u))
    BY DEF Row, Safe
  <1>2. ASSUME NEW v \in TWs, NEW r \in Slots, Working(v, r, u)', job'[v][r].pc = "post",
               job'[v][r].command # "SUBMIT"
        PROVE  /\ Working(v, r, u) /\ job[v][r].pc = "post" /\ job'[v][r].command = job[v][r].command
    <2>1. CASE v = w /\ r = s
      <3>1. j.task = u /\ j.pc = "post" /\ j.command # "SUBMIT"
        BY <1>2, <2>1 DEF GoesOn, JobBecomes, Working
      <3> QED
        BY <3>1 DEF GoesOn
    <2>2. CASE v # w \/ r # s
      BY <1>2, <2>2 DEF GoesOn, JobBecomes, Working
    <2> QED
      BY <2>1, <2>2
  <1> QED
    BY <1>1, <1>2 DEF Fits

(* What a handler does on the scheduler keeps DagsOK.                          *)
LEMMA DagsActs ==
    ASSUME LocalInv, ClaimInv, DagsOK, NEW w \in TWs, NEW s \in Slots,
           Prepare(w, s) \/ SubmitDAG(w, s) \/ KillDAG(w, s) \/ ResubmitDAG(w, s)
    PROVE  DagsOK'
  <1>1. PICK t \in Tasks, j \in JobType : t = job[w][s].task /\ GoesOn(w, s, t, j)
    BY ActsJob
  <1>2. UNCHANGED <<status, command, stale>> /\ job[w][s].pc = "run"
    BY ActsJob
  <1>3. \A u \in Tasks \ {t} : dag'[u] = dag[u] /\ unreported'[u] = unreported[u]
    <2>1. CASE Prepare(w, s)
      BY <2>1 DEF Prepare
    <2>2. CASE SubmitDAG(w, s)
      BY <1>1, <2>2 DEF SubmitDAG, LocalInv, TypeOK
    <2>3. CASE KillDAG(w, s)
      <3>1. /\ dag' = dag \/ dag' = [dag EXCEPT ![t] = IF dag[t] = "running" THEN "held" ELSE dag[t]]
            /\ unreported' = unreported \/ unreported' = [unreported EXCEPT ![t] = FALSE]
        BY <1>1, <2>3 DEF KillDAG
      <3> QED
        BY <3>1 DEF LocalInv, TypeOK
    <2>4. CASE ResubmitDAG(w, s)
      <3>1. /\ \/ dag' = dag
               \/ dag' = [dag EXCEPT ![t] = IF dag[t] = "running" THEN "held" ELSE dag[t]]
               \/ dag' = [dag EXCEPT ![t] = IF dag[t] = "held" THEN "running" ELSE dag[t]]
            /\ unreported' = unreported
        BY <1>1, <2>4 DEF ResubmitDAG
      <3> QED
        BY <3>1 DEF LocalInv, TypeOK
    <2> QED
      BY <2>1, <2>2, <2>3, <2>4
  <1>4. \A u \in Tasks \ {t} : DagOK(u)'
    <2>1. \A u \in Tasks \ {t} : Fits(u)
      BY <1>1, <1>2, <1>3, DagsFits
    <2> QED
      BY <2>1, FitsKeeps DEF DagsOK
  <1>5. DagOK(t)'
    <2>1. CASE UNCHANGED <<dag, unreported>> /\ (Fail(w, s) \/ job[w][s].command = "SUBMIT")
      <3>1. Fits(t)
        BY <1>1, <1>2, <2>1, DagsFits
      <3> QED
        BY <3>1, FitsKeeps DEF DagsOK
    <2>2. CASE dag'[t] = "running" /\ unreported'[t]
      BY <2>2 DEF DagOK
    <2>3. ASSUME job[w][s].command # "SUBMIT", ~stale[t],
                 \/ job[w][s].command = "KILL" /\ dag'[t] # "running"
                 \/ job[w][s].command = "RESUBMIT" /\ (Fail(w, s) \/ dag'[t] # "held")
          PROVE  DagOK(t)'
      <3>1. /\ Row(t) = [status |-> "QUEUED", command |-> job[w][s].command]
            /\ \A v \in TWs, r \in Slots : Working(v, r, t) => v = w /\ r = s
        BY <1>1, <1>2, <2>3, WorksAlone
      <3>2. ~HeldFree(Row(t)') /\ ~RunFree(Row(t)') /\ status'[t] = "QUEUED"
        BY <1>2, <2>3, <3>1 DEF HeldFree, RunFree, Row
      <3>3. \A v \in TWs, r \in Slots :
                Working(v, r, t)' => v = w /\ r = s /\ job'[v][r] = j
        BY <1>1, <3>1 DEF Working, GoesOn, JobBecomes
      <3>4. \A v \in TWs, r \in Slots : Reporting(v, r, t, "RESUBMIT")' => dag'[t] # "held"
        BY <1>1, <2>3, <3>3 DEF Reporting, GoesOn
      <3>5. \A v \in TWs, r \in Slots : Reporting(v, r, t, "KILL")' => dag'[t] # "running"
        BY <1>1, <2>3, <3>3 DEF Reporting, GoesOn
      <3> QED
        BY <3>2, <3>4, <3>5 DEF DagOK, HeldFree, RunFree
    <2>4. CASE stale[t]
      BY <1>2, <2>4 DEF DagOK
    <2>5. CASE Prepare(w, s)
      BY <2>1, <2>5 DEF Prepare, At
    <2>6. CASE SubmitDAG(w, s)
      BY <1>1, <2>1, <2>2, <2>6 DEF SubmitDAG, At, LocalInv, TypeOK
    <2>7. CASE KillDAG(w, s)
      <3>1. CASE Fail(w, s) /\ UNCHANGED <<dag, unreported>>
        BY <2>1, <3>1
      <3>2. CASE dag' = [dag EXCEPT ![t] = IF dag[t] = "running" THEN "held" ELSE dag[t]]
        <4>1. dag'[t] # "running"
          BY <3>2 DEF LocalInv, TypeOK
        <4> QED
          BY <2>3, <2>4, <2>7, <4>1 DEF KillDAG, At
      <3> QED
        BY <1>1, <2>7, <3>1, <3>2 DEF KillDAG
    <2>8. CASE ResubmitDAG(w, s)
      <3>1. CASE Fail(w, s)
        BY <2>3, <2>4, <2>8, <3>1 DEF ResubmitDAG, At
      <3>2. CASE dag' = [dag EXCEPT ![t] = IF dag[t] = "held" THEN "running" ELSE dag[t]]
        <4>1. dag'[t] # "held"
          BY <3>2 DEF LocalInv, TypeOK
        <4> QED
          BY <2>3, <2>4, <2>8, <4>1 DEF ResubmitDAG, At
      <3> QED
        BY <1>1, <2>8, <3>1, <3>2 DEF ResubmitDAG
    <2> QED
      BY <2>5, <2>6, <2>7, <2>8
  <1> QED
    BY <1>4, <1>5 DEF DagsOK

(* A report given up keeps DagsOK.                                             *)
LEMMA DagsGivesUp ==
    ASSUME LocalInv, DagsOK, NEW w \in TWs, NEW s \in Slots, ReportGiveUp(w, s)
    PROVE  DagsOK'
  <1>1. UNCHANGED <<status, command, stale, dag, unreported>> /\ job[w][s].pc # "idle"
    BY GivesUp
  <1>2. \E j : JobBecomes(w, s, j) /\ j.pc # "post"
    <2>1. CASE job' = [job EXCEPT ![w][s] = NoJob]
      <3>1. JobBecomes(w, s, NoJob)
        BY <2>1, LocalEnds
      <3>2. NoJob.pc # "post"
        BY DEF NoJob
      <3> QED
        BY <3>1, <3>2
    <2>2. CASE job' # [job EXCEPT ![w][s] = NoJob]
      <3>1. PICK pc \in {"run", "fail"}, out \in Statuses : Turns(w, s, pc, out)
        BY <2>2, GivesUp
      <3>2. pc \in {"run", "post", "fail"}
        OBVIOUS
      <3>3. JobBecomes(w, s, Turned(job[w][s], pc, out))
        BY <1>1, <3>1, <3>2, TurnStep DEF Turns
      <3> QED
        BY <3>3 DEF Turned
    <2> QED
      BY <2>1, <2>2
  <1>3. \A u \in Tasks : Fits(u)
    BY <1>1, <1>2 DEF Fits, Safe, Row, Working, JobBecomes
  <1> QED
    BY <1>3, FitsKeeps DEF DagsOK

(* What the row of the task said of its DAG before a report that knows it.     *)
LEMMA ReportAsks ==
    ASSUME NEW i \in JobRecord, JobOK(i), i.pc \in {"post", "fail"}, ReportOK(i),
           NEW c \in {i.command, "NULL"}
    PROVE  /\ i.command = "SUBMIT" => HeldFree(i.row)
           /\ HeldFree([status |-> i.out, command |-> c]) => i.command = "SUBMIT"
           /\ i.out = "SUBMITTED" /\ i.command # "SUBMIT" =>
                /\ i.command = "RESUBMIT" /\ i.pc = "post"
                /\ i.row.status \in {"QUEUED", "SUBMITTED"}
           /\ RunFree([status |-> i.out, command |-> c]) /\ i.out # "SUBMITFAILED" =>
                /\ i.out # "SUBMITTED"
                /\ RunFree(i.row) \/ (i.command = "KILL" /\ i.pc = "post" /\ i.row.status = "QUEUED")
  <1>1. i.command \in {"SUBMIT", "KILL", "RESUBMIT"}
    BY TypesOfConstants DEF JobRecord
  <1>2. CASE i.command = "SUBMIT"
    <2>1. i.row.status \in {"QUEUED", "SUBMITFAILED", "SUBMITTED", "TAPERECALL", "UPLOADED"}
      BY <1>2, SuccessIs, TypesOfConstants DEF JobOK
    <2>2. HeldFree(i.row)
      BY <1>2, <2>1 DEF HeldFree, JobOK, ReportOK
    <2>3. i.out \in {"SUBMITFAILED", "SUBMITTED", "TAPERECALL", "UPLOADED"}
      BY <1>2, SuccessIs, TypesOfConstants DEF JobOK
    <2>4. CASE i.out \in {"TAPERECALL", "UPLOADED"}
      <3>1. i.pc = "post"
        BY <1>2, <2>4, TypesOfConstants DEF JobOK
      <3>2. i.row.status \in {"QUEUED", "TAPERECALL", "UPLOADED"}
        BY <1>2, <2>1, <2>4, <3>1, TypesOfConstants DEF JobOK
      <3>3. RunFree(i.row)
        BY <1>2, <3>2 DEF RunFree, JobOK
      <3> QED
        BY <1>2, <2>2, <2>4, <3>3
    <2>5. CASE i.out \in {"SUBMITFAILED", "SUBMITTED"}
      BY <1>2, <2>2, <2>5 DEF RunFree
    <2> QED
      BY <2>3, <2>4, <2>5
  <1>3. CASE i.command = "KILL"
    <2>1. i.out \in {"KILLFAILED", "KILLED"} /\ (i.out = "KILLED" => i.pc = "post")
      BY <1>3, SuccessIs, TypesOfConstants DEF JobOK
    <2>2. i.pc = "post" => i.row.status \in {"QUEUED", "KILLED"}
      BY <1>3, SuccessIs, TypesOfConstants DEF JobOK
    <2>3. i.row.status = "KILLED" => RunFree(i.row)
      BY DEF RunFree
    <2> QED
      BY <1>3, <2>1, <2>2, <2>3 DEF HeldFree, RunFree
  <1>4. CASE i.command = "RESUBMIT"
    <2>1. i.out \in {"RESUBMITFAILED", "SUBMITTED"} /\ (i.out = "SUBMITTED" => i.pc = "post")
      BY <1>4, SuccessIs, TypesOfConstants DEF JobOK
    <2>2. i.pc = "post" => i.row.status \in {"QUEUED", "SUBMITTED"}
      BY <1>4, SuccessIs, TypesOfConstants DEF JobOK
    <2> QED
      BY <1>4, <2>1, <2>2 DEF HeldFree, RunFree
  <1> QED
    BY <1>1, <1>2, <1>3, <1>4

(* A report keeps DagsOK: this is where what was done on the scheduler meets   *)
(* the row.                                                                    *)
LEMMA DagsReport ==
    ASSUME LocalInv, ClaimInv, DagsOK, NEW w \in TWs, NEW s \in Slots, Report(w, s)
    PROVE  DagsOK'
  <1>1. PICK i \in JobRecord : i = job[w][s]
    BY Reports
  <1>2. PICK t \in Tasks, st \in Statuses : t = i.task /\ st = i.out
    BY DEF JobRecord
  <1>3. i.pc \in {"post", "fail"} /\ JobOK(i) /\ i # NoJob
    BY <1>1, Reports DEF NoJob
  <1>4. PICK c \in Commands \cup {"NULL"} :
          /\ c = ReportedCommand(i) /\ Write(t, st, c, i.row)
          /\ JobBecomes(w, s, NoJob) \/ JobBecomes(w, s, Landed(i, c))
    BY <1>1, <1>2, Reports
  <1>5. /\ dag' = dag
        /\ \A u \in Tasks \ {t} : unreported'[u] = unreported[u]
        /\ st = "SUBMITFAILED" => unreported'[t] = (dag[t] = "running")
        /\ st \notin {"SUBMITTED", "SUBMITFAILED"} => unreported'[t] = unreported[t]
    BY <1>1, <1>2 DEF Report, Land, LocalInv, TypeOK
  <1>6. /\ ~stale'[t] => ~stale[t] /\ Row(t) = i.row
        /\ status'[t] = st /\ command'[t] = c
        /\ \A u \in Tasks \ {t} : /\ status'[u] = status[u] /\ command'[u] = command[u]
                                  /\ stale'[u] = stale[u]
    <2>1. TypeOK
      BY DEF LocalInv
    <2> QED
      BY <1>4, <2>1, WriteEffect
  <1>7. PICK j \in JobType : JobBecomes(w, s, j) /\ j \in {NoJob, Landed(i, c)}
    BY <1>4 DEF JobBecomes
  <1>8. /\ job'[w][s] = j /\ \A v \in TWs, r \in Slots : v # w \/ r # s => job'[v][r] = job[v][r]
    BY <1>7 DEF JobBecomes
  <1>9. j.row.status # "QUEUED"
    BY <1>3, <1>7, ReportEnds DEF NoJob, Landed
  <1>10. ASSUME NEW u \in Tasks, u # t PROVE DagOK(u)'
    <2>1. Row(u)' = Row(u) /\ Safe(Row(u), Row(u))
      BY <1>6, <1>10 DEF Row, Safe
    <2>2. \A v \in TWs, r \in Slots : Working(v, r, u)' => job'[v][r] = job[v][r] /\ Working(v, r, u)
      BY <1>8, <1>9 DEF Working
    <2>3. Fits(u)
      BY <1>5, <1>6, <1>10, <2>1, <2>2 DEF Fits
    <2> QED
      BY <2>3, FitsKeeps DEF DagsOK
  <1>11. ASSUME ~stale'[t] PROVE DagOK(t)'
    <2>1. /\ ~stale[t] /\ Row(t) = i.row /\ DagOK(t) /\ Claims(t) /\ ReportOK(i)
      BY <1>1, <1>2, <1>3, <1>6, <1>11 DEF DagsOK, ClaimInv, TasksClaimed, ReportsOK
    <2>2. \A v \in TWs, r \in Slots : Working(v, r, t) => v = w /\ r = s
      <3>1. Row(t) = job[w][s].row /\ job[w][s].task = t
        BY <1>1, <1>2, <2>1
      <3>2. job[w][s].row.status # "HOLDING"
        BY <1>1, <1>3, ReportEnds
      <3> QED
        BY <2>1, <3>1, <3>2, JobIsSole
    <2>3. \A v \in TWs, r \in Slots : ~Working(v, r, t)'
      BY <1>8, <1>9, <2>2 DEF Working
    <2>4. i.row.status = "QUEUED" => Working(w, s, t)
      BY <1>1, <1>2 DEF Working
    <2>5. c \in {i.command, "NULL"}
      BY <1>2, <1>4, <2>1 DEF ReportedCommand, ReportOK, Row
    <2>6. PICK n : n = [status |-> i.out, command |-> c]
      OBVIOUS
    <2>7. Row(t)' = n /\ status'[t] = i.out
      BY <1>2, <1>6, <2>6 DEF Row
    <2>8. /\ HeldFree(n) => HeldFree(i.row)
          /\ i.out = "SUBMITTED" =>
                \/ HeldFree(i.row) \/ i.row.status = "SUBMITTED"
                \/ i.command = "RESUBMIT" /\ i.pc = "post" /\ i.row.status = "QUEUED"
          /\ RunFree(n) /\ i.out # "SUBMITFAILED" =>
                /\ i.out # "SUBMITTED"
                /\ RunFree(i.row) \/ (i.command = "KILL" /\ i.pc = "post" /\ i.row.status = "QUEUED")
      BY <1>3, <2>1, <2>5, <2>6, ReportAsks
    <2>9. /\ HeldFree(i.row) => dag[t] # "held"
          /\ OnlySubmitRejected /\ i.row.status = "SUBMITTED" => dag[t] # "held"
          /\ Reporting(w, s, t, "RESUBMIT") => dag[t] # "held"
          /\ ~unreported[t] /\ (RunFree(i.row) \/ Reporting(w, s, t, "KILL")) => dag[t] # "running"
      <3>1. status[t] = i.row.status
        BY <2>1 DEF Row
      <3> QED
        BY <2>1, <3>1 DEF DagOK
    <2>10. /\ HeldFree(n) => dag'[t] # "held"
           /\ OnlySubmitRejected /\ status'[t] = "SUBMITTED" => dag'[t] # "held"
      BY <1>1, <1>5, <2>4, <2>7, <2>8, <2>9 DEF Reporting
    <2>11. ~unreported'[t] /\ RunFree(n) => dag'[t] # "running"
      <3>1. CASE i.out = "SUBMITFAILED"
        BY <1>2, <1>5, <3>1
      <3>2. CASE i.out # "SUBMITFAILED"
        BY <1>1, <1>2, <1>5, <2>4, <2>8, <2>9, <3>2 DEF Reporting
      <3> QED
        BY <3>1, <3>2
    <2>12. \A v \in TWs, r \in Slots : ~Reporting(v, r, t, "RESUBMIT")' /\ ~Reporting(v, r, t, "KILL")'
      BY <2>3 DEF Reporting
    <2>13. (HeldFree(Row(t))' <=> HeldFree(n)) /\ (RunFree(Row(t))' <=> RunFree(n))
      BY <2>7 DEF HeldFree, RunFree
    <2> QED
      BY <2>10, <2>11, <2>12, <2>13 DEF DagOK
  <1>12. stale'[t] => DagOK(t)'
    BY DEF DagOK
  <1> QED
    BY <1>10, <1>11, <1>12 DEF DagsOK

(* DagsOK holds at the start.                                                  *)
LEMMA DagsInit == Init => DagsOK
  BY DEF Init, DagsOK, DagOK

(* Every step keeps DagsOK.                                                    *)
LEMMA DagsNext == LocalInv /\ ClaimInv /\ DagsOK /\ [Next]_vars => DagsOK'
  <1> SUFFICES ASSUME LocalInv, ClaimInv, DagsOK, [Next]_vars PROVE DagsOK'
    OBVIOUS
  <1>1. CASE UNCHANGED vars
    BY <1>1, DagsCalm DEF vars, dbVars, twVars
  <1>2. CASE \E t \in Tasks : Submit(t) \/ DagLeaves(t) \/ DagFails(t) \/ StageIn(t)
    BY <1>2, DagsUsers
  <1>3. CASE \E c \in Clients : Client(c)
    BY <1>3, DagsClient
  <1>4. CASE \E w \in TWs : TaskWorker(w)
    <2>1. PICK w \in TWs : TaskWorker(w)
      BY <1>4
    <2>2. CASE Master(w) \/ Start(w) \/ Crash(w)
      BY <2>2, DagsMaster
    <2>3. CASE Recall(w)
      BY <2>3, DagsRecall
    <2>4. CASE \E s \in Slots : Handle(w, s)
      <3>1. PICK s \in Slots : Handle(w, s)
        BY <2>4
      <3>2. CASE Prepare(w, s) \/ SubmitDAG(w, s) \/ KillDAG(w, s) \/ ResubmitDAG(w, s)
        BY <3>2, DagsActs
      <3>3. CASE Report(w, s)
        BY <3>3, DagsReport
      <3>4. CASE ReportGiveUp(w, s)
        BY <3>4, DagsGivesUp
      <3> QED
        BY <3>1, <3>2, <3>3, <3>4 DEF Handle
    <2> QED
      BY <2>1, <2>2, <2>3, <2>4 DEF TaskWorker
  <1> QED
    BY <1>1, <1>2, <1>3, <1>4 DEF Next

(* The jobs of a KILLED task do not run, unless the row was raced or the       *)
(* submission of its DAG was never reported.                                   *)
THEOREM KilledAreHeld == Spec => []KilledMeansHeld
  <1>1. DagsOK => KilledMeansHeld
    BY DEF DagsOK, DagOK, RunFree, Row, KilledMeansHeld
  <1> QED
    BY <1>1, LocalInit, LocalNext, ClaimsInit, ClaimsNext, DagsInit, DagsNext, PTL DEF Spec

(* Where the operators let the commands KILL and RESUBMIT through, the row and *)
(* the DAG of a task agree: moreover no SUBMITTED task is left on hold.        *)
THEOREM RowMatchesDag ==
    ASSUME OnlySubmitRejected
    PROVE  Spec => []RowAndDagAgree
  <1>1. DagsOK => RowAndDagAgree
    BY DEF DagsOK, DagOK, RunFree, Row, RowAndDagAgree, KilledMeansHeld, SubmittedRuns
  <1> QED
    BY <1>1, LocalInit, LocalNext, ClaimsInit, ClaimsNext, DagsInit, DagsNext, PTL DEF Spec

-------------------------------------------------------------------------------
(* The diagram of TaskStatus.                                                  *)

(* The steps of one row that the diagram draws, or none.                       *)
Drawn(r, n) ==
    \/ Diagram!User(r, n) \/ Diagram!Worker(r, n) \/ Diagram!Refused(r, n)
    \/ Diagram!Retracted(r, n) \/ Diagram!Recalled(r, n) \/ Diagram!Split(r, n)
    \/ r = n

(* A step of the diagram, or none.                                             *)
DiagramStep == Diagram!Next \/ UNCHANGED Diagram!vars

(* The rows as the diagram sees them.                                          *)
LEMMA DiagramSees ==
    ASSUME NEW t \in Tasks
    PROVE  [u \in Tasks |-> Row(u)][t] = Row(t) /\ [u \in Tasks |-> Row(u)]'[t] = Row(t)'
  OBVIOUS

(* A step that changes one row, as drawn or raced, is a step of the diagram.   *)
LEMMA RowChanges ==
    ASSUME TypeOK, TypeOK', NEW t \in Tasks,
           \A u \in Tasks \ {t} : Row(u)' = Row(u) /\ stale'[u] = stale[u],
           stale[t] => stale'[t], stale'[t] \/ Drawn(Row(t), Row(t)')
    PROVE  DiagramStep
  <1>1. CASE stale'[t] \/ Row(t)' # Row(t)
    <2>1. \A u \in Tasks : [v \in Tasks |-> Row(v)][u] = Row(u) /\ [v \in Tasks |-> Row(v)]'[u] = Row(u)'
      BY DiagramSees
    <2>2. Diagram!Change(t)
      BY <1>1, <2>1 DEF Diagram!Change, Drawn
    <2> QED
      BY <2>2 DEF DiagramStep, Diagram!Next
  <1>2. CASE ~stale'[t] /\ Row(t)' = Row(t)
    <2>1. \A u \in Tasks : Row(u)' = Row(u) /\ stale'[u] = stale[u]
      BY <1>2 DEF TypeOK
    <2>2. stale' = stale
      BY <2>1 DEF TypeOK
    <2>3. UNCHANGED [u \in Tasks |-> Row(u)]
      BY <2>1
    <2> QED
      BY <2>2, <2>3 DEF DiagramStep, Diagram!vars
  <1> QED
    BY <1>1, <1>2

(* So is a write that is drawn from the row its writer knows.                  *)
LEMMA WriteDrawn ==
    ASSUME LocalInv, TypeOK', NEW t \in Tasks, NEW st \in Statuses, NEW c \in Commands \cup {"NULL"},
           NEW row, Write(t, st, c, row),
           ~stale[t] /\ Row(t) = row => Drawn(row, [status |-> st, command |-> c])
    PROVE  DiagramStep
  <1>1. TypeOK
    BY DEF LocalInv
  <1>2. /\ status'[t] = st /\ command'[t] = c
        /\ ~stale'[t] => ~stale[t] /\ Row(t) = row
        /\ stale[t] => stale'[t]
        /\ \A u \in Tasks \ {t} : /\ status'[u] = status[u] /\ command'[u] = command[u]
                                  /\ stale'[u] = stale[u]
    BY <1>1, WriteEffect
  <1>3. \A u \in Tasks \ {t} : Row(u)' = Row(u) /\ stale'[u] = stale[u]
    BY <1>2 DEF Row
  <1>4. Row(t)' = [status |-> st, command |-> c]
    BY <1>2 DEF Row
  <1>5. stale'[t] \/ Drawn(Row(t), Row(t)')
    BY <1>2, <1>4
  <1> QED
    BY <1>1, <1>2, <1>3, <1>5, RowChanges

(* A step that writes no row is none of the diagram.                           *)
LEMMA NothingDrawn ==
    ASSUME UNCHANGED <<status, command, stale>>
    PROVE  DiagramStep
  <1>1. \A t \in Tasks : Row(t)' = Row(t)
    BY DEF Row
  <1>2. UNCHANGED [t \in Tasks |-> Row(t)]
    BY <1>1
  <1> QED
    BY <1>2 DEF DiagramStep, Diagram!vars

(* Submission and the failure of the PreDAG are drawn.                         *)
LEMMA DrawnUsers ==
    ASSUME LocalInv, TypeOK', NEW t \in Tasks, Submit(t) \/ DagLeaves(t) \/ DagFails(t) \/ StageIn(t)
    PROVE  DiagramStep
  <1>1. CASE StageIn(t) \/ DagLeaves(t)
    BY <1>1, NothingDrawn DEF StageIn, DagLeaves, dbVars
  <1>2. CASE Submit(t)
    <2>1. /\ stale' = stale /\ status[t] = "NONE" /\ status'[t] = "NEW" /\ command'[t] = "SUBMIT"
          /\ \A u \in Tasks \ {t} : status'[u] = status[u] /\ command'[u] = command[u]
      BY <1>2 DEF Submit, SetStatusTask, LocalInv, TypeOK
    <2>2. Drawn(Row(t), Row(t)')
      BY <2>1 DEF Drawn, Diagram!User, Row
    <2>3. \A u \in Tasks \ {t} : Row(u)' = Row(u) /\ stale'[u] = stale[u]
      BY <2>1 DEF Row
    <2>4. TypeOK
      BY DEF LocalInv
    <2> QED
      BY <2>1, <2>2, <2>3, <2>4, RowChanges
  <1>3. CASE DagFails(t)
    <2>1. PICK c \in Commands \cup {"NULL"} : c = command[t]
      BY DEF LocalInv, TypeOK
    <2>2. PICK row : row = [status |-> "SUBMITTED", command |-> c]
      OBVIOUS
    <2>3. Write(t, "FAILED", c, row)
      BY <1>3, <2>1, <2>2 DEF DagFails
    <2>4. Drawn(row, [status |-> "FAILED", command |-> c])
      <3>1. [row EXCEPT !.status = "FAILED"] = [status |-> "FAILED", command |-> c]
        BY <2>2
      <3>2. row.status = "SUBMITTED"
        BY <2>2
      <3> QED
        BY <3>1, <3>2 DEF Drawn, Diagram!Split
    <2> QED
      BY <2>3, <2>4, WriteDrawn, TypesOfConstants
  <1> QED
    BY <1>1, <1>2, <1>3

(* The writes of the requests are drawn.                                       *)
LEMMA DrawnClient ==
    ASSUME LocalInv, TypeOK', NEW c \in Clients, Client(c)
    PROVE  DiagramStep
  <1>1. CASE Kill(c) \/ Resubmit(c) \/ Proceed(c)
    <2>1. PICK t \in Tasks, row \in RowType : t = req[c].task /\ row = req[c].row
      BY <1>1, ClientWrites
    <2>2. PICK st \in {"NEW", "KILLRECALL", "KILLED"}, cmd \in Commands :
            Write(t, st, cmd, row) /\ Diagram!User(row, [status |-> st, command |-> cmd])
      BY <1>1, <2>1, ClientWrites
    <2>3. st \in Statuses /\ cmd \in Commands \cup {"NULL"}
      BY TypesOfConstants
    <2>4. Drawn(row, [status |-> st, command |-> cmd])
      BY <2>2 DEF Drawn
    <2> QED
      BY <2>2, <2>3, <2>4, WriteDrawn
  <1>2. CASE (\E t \in Tasks, op \in {"kill", "resubmit", "proceed"} : ReadRow(c, op, t))
             \/ Refuse(c) \/ ClearDryRun(c)
    BY <1>2, NothingDrawn DEF ReadRow, Refuse, ClearDryRun, dbVars
  <1> QED
    BY <1>1, <1>2 DEF Client

(* The writes of the manager of tape recalls are drawn, or change nothing.     *)
LEMMA RecallDrawn ==
    ASSUME NEW r \in RowType, NEW n \in RowType, NEW p, RecallOK(p, r), RecallNext(p, r, n),
           n.status = "FAILED" => n.command = r.command
    PROVE  Drawn(r, n)
  <1>1. CASE r.status = "TAPERECALL" /\ n = [status |-> "NEW", command |-> "SUBMIT"]
    BY <1>1 DEF Drawn, Diagram!Recalled
  <1>2. CASE r.status = "TAPERECALL" /\ n.status = "FAILED"
    <2>1. n = [r EXCEPT !.status = "FAILED"]
      BY <1>2 DEF RowType
    <2> QED
      BY <1>2, <2>1 DEF Drawn, Diagram!Recalled
  <1>3. CASE r.status = "KILLRECALL" /\ n = [status |-> "KILLED", command |-> "KILL"]
    BY <1>3 DEF Drawn, Diagram!Recalled
  <1>4. CASE r = n
    BY <1>4 DEF Drawn
  <1>5. r.status = "FAILED" /\ n.status = "FAILED" => r = n
    BY DEF RowType
  <1> QED
    BY <1>1, <1>2, <1>3, <1>4, <1>5 DEF RecallOK, RecallNext

(* Its steps are steps of the diagram.                                         *)
LEMMA DrawnRecall ==
    ASSUME LocalInv, TypeOK', NEW w \in TWs, Recall(w)
    PROVE  DiagramStep
  <1>1. CASE RecallGet(w) \/ RecallWait(w) \/ RecallAbort(w)
    BY <1>1, NothingDrawn DEF RecallGet, RecallWait, RecallAbort, dbVars
  <1>2. CASE (\E t \in Tasks : RecallEnd(w, t)) \/ RecallKill(w)
    <2>1. PICK x \in recall[w], st \in {"NEW", "FAILED", "KILLED"}, c \in Commands \cup {"NULL"} :
            /\ RecallWrite(w, x, st, c) /\ x \in SnapshotType /\ RecallOK(phase[w], x.row)
            /\ RecallNext(phase[w], x.row, [status |-> st, command |-> c])
            /\ st = "FAILED" => c = command[x.task]
      BY <1>2, RecallWrites
    <2>2. PICK t \in Tasks, row \in RowType : t = x.task /\ row = x.row
      BY <2>1 DEF SnapshotType
    <2>3. Write(t, st, c, row) /\ st \in Statuses
      BY <2>1, <2>2, TypesOfConstants DEF RecallWrite
    <2>4. Row(t) = row => Drawn(row, [status |-> st, command |-> c])
      <3>1. SUFFICES ASSUME Row(t) = row PROVE Drawn(row, [status |-> st, command |-> c])
        OBVIOUS
      <3>2. st = "FAILED" => c = row.command
        BY <2>1, <2>2, <3>1 DEF Row
      <3> QED
        BY <2>1, <2>2, <2>3, <3>2, RecallDrawn DEF RowType
    <2> QED
      BY <2>3, <2>4, WriteDrawn
  <1> QED
    BY <1>1, <1>2 DEF Recall

(* HOLDING becomes QUEUED and QUEUED becomes NEW with the command kept.        *)
LEMMA WorkerDrawn ==
    ASSUME NEW r \in RowType, NEW n \in RowType, n.command = r.command,
           \/ r.status = "HOLDING" /\ n.status = "QUEUED"
           \/ r.status = "QUEUED" /\ n.status = "NEW"
    PROVE  Drawn(r, n)
  <1>1. n = [r EXCEPT !.status = n.status]
    BY DEF RowType
  <1> QED
    BY <1>1 DEF Drawn, Diagram!Worker

(* The writes of the master are drawn, or change nothing.                      *)
LEMMA MasterDrawn ==
    ASSUME LocalInv, NEW w \in TWs, NEW x \in batch[w], NEW st \in Statuses, NEW B, NEW A,
           Writes(w, x, st, B, A)
    PROVE  Drawn(x.row, [status |-> st, command |-> x.command])
  <1>1. /\ BatchRow(mpc[w], x) /\ x.command \in {"SUBMIT", "KILL", "RESUBMIT"}
        /\ x.row.command = x.command /\ x.row \in RowType
    BY TypesOfConstants DEF LocalInv, TypeOK, MastersOK, BatchRow, SnapshotType
  <1>2. PICK n \in RowType : n = [status |-> st, command |-> x.command]
    BY <1>1, TypesOfConstants DEF RowType
  <1>3. CASE n.status = x.row.status
    <2>1. x.row = n
      BY <1>1, <1>2, <1>3 DEF RowType
    <2> QED
      BY <1>2, <2>1 DEF Drawn
  <1>4. CASE mpc[w] = "restart" /\ n.status # x.row.status
    <2>1. st = "NEW" /\ x.row.status = "QUEUED"
      BY <1>1, <1>2, <1>4 DEF Writes, BatchRow
    <2> QED
      BY <1>1, <1>2, <2>1, WorkerDrawn
  <1>5. CASE mpc[w] = "ack" /\ ~Refused(x) /\ n.status # x.row.status
    <2>1. st = "QUEUED" /\ x.row.status = "HOLDING"
      BY <1>1, <1>2, <1>5 DEF Writes, BatchRow
    <2>2. x.row.status = "HOLDING" /\ n.status = "QUEUED" /\ n.command = x.row.command
      BY <1>1, <1>2, <2>1
    <2>3. Drawn(x.row, n)
      BY <1>1, <2>2, WorkerDrawn
    <2> QED
      BY <1>2, <2>3
  <1>6. CASE mpc[w] = "ack" /\ Refused(x) /\ n.status # x.row.status
    <2>1. st = RefusedStatus(x) /\ x.row.status = "HOLDING"
      BY <1>1, <1>2, <1>6 DEF Writes, BatchRow
    <2>2. /\ x.command = "SUBMIT" => st = "SUBMITFAILED"
          /\ x.command = "KILL" => st \in {"KILLFAILED", "SUBMITTED"}
          /\ x.command = "RESUBMIT" => st \in {"RESUBMITFAILED", "SUBMITTED"}
      BY <1>1, <2>1, TypesOfConstants DEF RefusedStatus
    <2>3. Diagram!Refused(x.row, n)
      BY <1>1, <1>2, <2>1, <2>2 DEF Diagram!Refused
    <2> QED
      BY <1>2, <2>3 DEF Drawn
  <1> QED
    BY <1>3, <1>4, <1>5, <1>6 DEF Writes

(* Its steps are steps of the diagram; _lockWork acquires several rows.        *)
LEMMA DrawnMaster ==
    ASSUME LocalInv, TypeOK', NEW w \in TWs, Master(w) \/ Start(w) \/ Crash(w)
    PROVE  DiagramStep
  <1>1. CASE RestartTask(w) \/ RefuseTask(w) \/ QueueTask(w)
    <2>1. ASSUME NEW x \in batch[w], NEW st \in Statuses, NEW B, NEW A, Writes(w, x, st, B, A)
          PROVE  DiagramStep
      <3>1. x.task \in Tasks /\ x.command \in Commands
        BY DEF LocalInv, TypeOK, MastersOK, BatchRow, SnapshotType
      <3>2. PICK t \in Tasks, c \in Commands \cup {"NULL"} : t = x.task /\ c = x.command
        BY <3>1
      <3>3. Write(t, st, c, x.row)
        BY <2>1, <3>2 DEF Writes
      <3>4. Drawn(x.row, [status |-> st, command |-> c])
        BY <2>1, <3>2, MasterDrawn
      <3> QED
        BY <3>3, <3>4, WriteDrawn
    <2>2. CASE \E x \in batch[w] : Reads(w, "restart", batch[w] \ {x})
      BY <2>2, NothingDrawn DEF Reads
    <2> QED
      BY <1>1, <2>1, <2>2, RestartWrites, AckWrites
  <1>2. CASE \/ RestartGet(w) \/ RestartDone(w) \/ GetWork(w) \/ SkipTask(w) \/ EndOfTurn(w)
             \/ Start(w)
    BY <1>2, NothingDrawn DEF RestartGet, RestartDone, GetWork, SkipTask, EndOfTurn, Start, dbVars
  <1>3. CASE InjectWork(w) \/ Crash(w)
    BY <1>3, NothingDrawn DEF InjectWork, Crash, dbVars
  <1>4. CASE LockWork(w)
    <2>1. PICK rows \in SUBSET Tasks :
            /\ \A t \in rows : status[t] = "NEW"
            /\ status' = [t \in Tasks |-> IF t \in rows THEN "HOLDING" ELSE status[t]]
      BY <1>4 DEF LockWork, UpdateWorker, Limited
    <2>2. UNCHANGED <<command, stale>>
      BY <1>4 DEF LockWork
    <2>3. \A t \in Tasks : Row(t)' = IF t \in rows THEN [Row(t) EXCEPT !.status = "HOLDING"] ELSE Row(t)
      BY <2>1, <2>2 DEF Row
    <2>4. [t \in Tasks |-> Row(t)]' =
            [t \in Tasks |-> IF t \in rows THEN [[u \in Tasks |-> Row(u)][t] EXCEPT !.status = "HOLDING"]
                             ELSE [u \in Tasks |-> Row(u)][t]]
      BY <2>3
    <2>5. \A t \in rows : [u \in Tasks |-> Row(u)][t].status = "NEW"
      BY <2>1 DEF Row
    <2>6. Diagram!Acquire(rows)
      BY <2>2, <2>4, <2>5 DEF Diagram!Acquire
    <2> QED
      BY <2>6 DEF DiagramStep, Diagram!Next
  <1> QED
    BY <1>1, <1>2, <1>3, <1>4 DEF Master

(* A report, the first or another after one that got no answer.                *)
LEMMA ReportDrawn ==
    ASSUME NEW i \in JobRecord, JobOK(i), i.pc \in {"post", "fail"}, ReportOK(i),
           NEW n, n.status = i.out, n.command \in {i.row.command, "NULL"}
    PROVE  Drawn(i.row, n)
  <1>1. PICK cmd : cmd = i.command
    OBVIOUS
  <1>2. cmd \in {"SUBMIT", "KILL", "RESUBMIT"} /\ cmd \in DOMAIN Diagram!Outcomes
    BY <1>1, TypesOfConstants DEF JobRecord, Diagram!Outcomes
  <1>3. {FailStatus(cmd)} \cup Success[cmd] = Diagram!Outcomes[cmd]
    BY <1>2, SuccessIs, TypesOfConstants DEF Diagram!Outcomes
  <1>4. i.out \in Diagram!Outcomes[cmd] /\ i.row.status \in {"QUEUED"} \cup Diagram!Outcomes[cmd]
    BY <1>1, <1>3 DEF JobOK
  <1>5. i.row.command \in {cmd, "NULL"} /\ (i.row.status = "QUEUED" => i.row.command = cmd)
    BY <1>1 DEF JobOK, ReportOK
  <1>6. CASE i.row.status = "QUEUED"
    <2>1. Diagram!Worker(i.row, n)
      BY <1>4, <1>5, <1>6 DEF Diagram!Worker
    <2> QED
      BY <2>1 DEF Drawn
  <1>7. CASE i.row.status # "QUEUED"
    <2>1. Diagram!Retracted(i.row, n)
      BY <1>2, <1>4, <1>5, <1>7 DEF Diagram!Retracted
    <2> QED
      BY <2>1 DEF Drawn
  <1> QED
    BY <1>6, <1>7

(* The steps of the handlers are steps of the diagram.                         *)
LEMMA DrawnHandle ==
    ASSUME LocalInv, ClaimInv, TypeOK', NEW w \in TWs, NEW s \in Slots, Handle(w, s)
    PROVE  DiagramStep
  <1>1. CASE Prepare(w, s) \/ SubmitDAG(w, s) \/ KillDAG(w, s) \/ ResubmitDAG(w, s)
    BY <1>1, ActsJob, NothingDrawn
  <1>2. CASE ReportGiveUp(w, s)
    BY <1>2, GivesUp, NothingDrawn
  <1>3. CASE Report(w, s)
    <2>1. PICK i \in JobRecord : i = job[w][s]
      BY <1>3, Reports
    <2>2. PICK t \in Tasks, st \in Statuses : t = i.task /\ st = i.out
      BY DEF JobRecord
    <2>3. i.pc \in {"post", "fail"} /\ JobOK(i) /\ i # NoJob
      BY <1>3, <2>1, Reports DEF NoJob
    <2>4. PICK c \in Commands \cup {"NULL"} : c = ReportedCommand(i) /\ Write(t, st, c, i.row)
      BY <1>3, <2>1, <2>2, Reports
    <2>5. ~stale[t] /\ Row(t) = i.row => Drawn(i.row, [status |-> st, command |-> c])
      <3>1. SUFFICES ASSUME ~stale[t], Row(t) = i.row
                     PROVE  Drawn(i.row, [status |-> st, command |-> c])
        OBVIOUS
      <3>2. ReportOK(i)
        BY <2>1, <2>2, <2>3, <3>1 DEF ClaimInv, ReportsOK
      <3>3. c \in {i.row.command, "NULL"}
        BY <2>2, <2>4, <3>1 DEF ReportedCommand, Row
      <3> QED
        BY <2>2, <2>3, <3>2, <3>3, ReportDrawn
    <2> QED
      BY <2>4, <2>5, WriteDrawn
  <1> QED
    BY <1>1, <1>2, <1>3 DEF Handle

(* Every step is a step of the diagram, or none.                               *)
LEMMA DrawnNext == LocalInv /\ LocalInv' /\ ClaimInv /\ [Next]_vars => [Diagram!Next]_(Diagram!vars)
  <1> SUFFICES ASSUME LocalInv, TypeOK', ClaimInv, [Next]_vars PROVE DiagramStep
    BY DEF LocalInv, DiagramStep
  <1>1. CASE UNCHANGED vars
    BY <1>1, NothingDrawn DEF vars, dbVars
  <1>2. CASE \E t \in Tasks : Submit(t) \/ DagLeaves(t) \/ DagFails(t) \/ StageIn(t)
    BY <1>2, DrawnUsers
  <1>3. CASE \E c \in Clients : Client(c)
    BY <1>3, DrawnClient
  <1>4. CASE \E w \in TWs : TaskWorker(w)
    <2>1. PICK w \in TWs : TaskWorker(w)
      BY <1>4
    <2> QED
      BY <2>1, DrawnMaster, DrawnHandle, DrawnRecall DEF TaskWorker
  <1> QED
    BY <1>1, <1>2, <1>3, <1>4 DEF Next

(* Rows change as the diagram of TaskStatus says, unless they are raced: the   *)
(* system implements it.                                                       *)
THEOREM DiagramIsImplemented == Spec => ImplementsDiagram
  <1>1. Init => Diagram!Init
    BY DEF Init, Diagram!Init, Row
  <1> QED
    BY <1>1, LocalInit, LocalNext, ClaimsInit, ClaimsNext, DrawnNext, PTL
    DEF Spec, ImplementsDiagram, Diagram!Spec
===============================================================================
