-------------------------------- MODULE RucioASO -------------------------------
(* The transfer of output files with Rucio and their publication in DBS, block *)
(* by block. Four parties share the row of a file in the transfers database:   *)
(*   the post-jobs, which ask for transfers and then for publication,          *)
(*   RUCIO_Transfers.py, run over and over by the task process of the schedd,  *)
(*     which registers the files, looks at their locks and reports blocks,     *)
(*   PublisherMasterRucio.py with TaskPublishRucio.py, which publish the blocks*)
(*   and Rucio and DBS, which hold what the other three only write about.      *)
(*                                                                             *)
(* A container of Rucio holds datasets, numbered in the order of their creation*)
(* Of a task there are two: one carries the rule that moves the files, the     *)
(* other is published; a dataset of the latter is a block of DBS.              *)
EXTENDS Integers, Sequences, FiniteSets

CONSTANTS
    Files,      \* the files, each the output of a job of its own
    Chunk,      \* replicas_chunk_size
    MaxFiles,   \* max_file_per_dataset
    Bounds      \* bounds, of which a behaviour keeps to one: the runs of each job,
                \* the log files, the files with parents, and what goes wrong

ASSUME RucioASOAssumption ==
    /\ IsFiniteSet(Files) /\ Chunk \in Nat \ {0} /\ MaxFiles \in Nat \ {0}
    /\ Bounds \subseteq [runs : [Files -> Nat], logs : SUBSET Files,
                         parents : SUBSET Files, faults : Nat]

VARIABLES
    run,        \* the last run of the job (CRAB_Retry)
    row,        \* filetransfersdb
    source,     \* the run whose file is on the temporary storage, 0 for none
    transfers,  \* transfers.txt
    \* Rucio
    replica,    \* the run whose checksum and path are those of the replica, 0 for none
    holds,      \* the dataset of each container a file is in, 0 for none
    open,       \* whether each dataset of each container is open
    copied,     \* the run whose file is at the destination, 0 for none
    \* RUCIO_Transfers.py
    book,       \* its files, in task_process/transfers
    aso,        \* where it is, and its variables
    removing,   \* the files a gfal-rm in the background is to remove
    \* DBS and the Publisher
    dbs,        \* the block a file is published in, 0 for none
    migrated,   \* the parents are in the DBS of the destination
    pub,        \* where the Publisher is, and its variables
    \* history and bounds
    late,       \* files whose job was run again once they had been registered, or
                \* while an older line of transfers.txt was still to be looked at
    faults,
    bound       \* the member of Bounds

jobs == <<run, source, transfers, late>>
rucio == <<replica, holds, open, copied>>
publisher == <<dbs, migrated, pub>>
manager == <<book, aso, removing>>
vars == <<jobs, row, rucio, manager, publisher, faults, bound>>

Containers == {"transfer", "publish"}
Logs == bound.logs

NoRow == [state |-> "none", publish |-> FALSE, publication |-> "new", block |-> 0, complete |-> FALSE]
Waits == [at |-> "idle", end |-> 0, todo |-> {}, good |-> {}, bad |-> {}, ok |-> {}, done |-> {}]
Sleeps == [at |-> "idle", todo |-> {}, in |-> [f \in Files |-> 0], marks |-> {}, good |-> TRUE]

Init ==
    /\ run = [f \in Files |-> 0] /\ row = [f \in Files |-> NoRow]
    /\ source = [f \in Files |-> 0] /\ transfers = <<>>
    /\ replica = [f \in Files |-> 0] /\ copied = [f \in Files |-> 0]
    /\ holds = [c \in Containers |-> [f \in Files |-> 0]]
    /\ open = [c \in Containers |-> <<>>]
    /\ book = [rules |-> FALSE, last |-> 0, ok |-> {}, complete |-> {}, cleaned |-> {}]
    /\ aso = Waits /\ removing = {}
    /\ dbs = [f \in Files |-> 0] /\ migrated = FALSE /\ pub = Sleeps
    /\ late = {} /\ faults = 0 /\ bound \in Bounds

Fault == faults < bound.faults /\ faults' = faults + 1

(* The rows of the files of F are changed.                                     *)
Update(F, Change(_)) == row' = [f \in Files |-> IF f \in F THEN Change(row[f]) ELSE row[f]]

-------------------------------------------------------------------------------
(* The post-jobs.                                                              *)

(* A job runs, for the first time or again, and its post-job asks for the      *)
(* transfer, whatever the row of an earlier request says.                      *)
RunJob(f) ==
    /\ run[f] < bound.runs[f] /\ ~row[f].publish
    /\ run' = [run EXCEPT ![f] = @ + 1]
    /\ source' = [source EXCEPT ![f] = run'[f]]
    /\ Update({f}, LAMBDA r : [NoRow EXCEPT !.state = "new"])
    /\ transfers' = Append(transfers, f)
    /\ late' = IF replica[f] # 0 \/ \E k \in book.last + 1..Len(transfers) : transfers[k] = f
               THEN late \cup {f} ELSE late
    /\ UNCHANGED <<rucio, manager, publisher, faults>>

(* The post-job finds the transfer done, and turns on the flag of publication. *)
AskPublication(f) ==
    /\ row[f].state = "done" /\ ~row[f].publish /\ f \notin Logs
    /\ Update({f}, LAMBDA r : [r EXCEPT !.publish = TRUE])
    /\ UNCHANGED <<jobs, rucio, manager, publisher, faults>>

-------------------------------------------------------------------------------
(* RUCIO_Transfers.py: BuildDBSDataset, RegisterReplicas, MonitorLockStatus and*)
(* Cleanup, one after the other. Any exception, and the timeout of the task    *)
(* process, end the run; the next run starts from what is in its files.        *)

AsoGoes(a, new) == aso.at = a /\ aso' = new
AsoAt(s) == [aso EXCEPT !.at = s]

AsoStarts ==
    /\ transfers # <<>>
    /\ AsoGoes("idle", [Waits EXCEPT !.at = IF book.rules THEN "register" ELSE "build",
                                     !.end = Len(transfers)])
    /\ UNCHANGED <<jobs, row, rucio, book, removing, publisher, faults>>

(* The containers and their rules; what exists already is used.                *)
BuildContainers ==
    /\ AsoGoes("build", AsoAt("register"))
    /\ book' = [book EXCEPT !.rules = TRUE]
    /\ UNCHANGED <<jobs, row, rucio, removing, publisher, faults>>

(* The lines of transfers.txt nobody has looked at.                            *)
NewItems == {transfers[k] : k \in book.last + 1..aso.end}

(* addFilesToRucio: a chunk is refused as a whole. A replica Rucio knows stays *)
(* as it is, whatever it is registered with again.                             *)
AddReplicas ==
    \E bad \in SUBSET (NewItems \ Logs) :
        /\ IF bad = {} THEN UNCHANGED faults ELSE Fault
        /\ LET good == (NewItems \ Logs) \ bad
           IN /\ AsoGoes("register", [AsoAt("refused") EXCEPT !.good = good, !.bad = bad])
              /\ replica' = [f \in Files |-> IF f \in good /\ replica[f] = 0 THEN source[f] ELSE replica[f]]
        /\ Update(NewItems \cap Logs, LAMBDA r : [r EXCEPT !.state = "done"])
        /\ UNCHANGED <<jobs, holds, open, copied, book, removing, publisher>>

(* populateLFN2DatasetMap: the files the container does not hold yet.          *)
NotIn(c, F) == {f \in F : holds[c][f] = 0}

TellFailed ==
    /\ AsoGoes("refused", [AsoAt("transfer") EXCEPT !.todo = NotIn("transfer", aso.good)])
    /\ Update(aso.bad, LAMBDA r : [r EXCEPT !.state = "failed"])
    /\ UNCHANGED <<jobs, rucio, book, removing, publisher, faults>>

(* A bug the properties must find: the last dataset is used, open or not.      *)
BugUsable(c) == IF open[c] = <<>> THEN {} ELSE {Len(open[c])}

(* getOrCreateDataset: the datasets that are open.                             *)
Usable(c) == {d \in DOMAIN open[c] : open[c][d]}

(* The next chunk, all of what is left if it is less than a chunk.             *)
Chunks == {F \in SUBSET aso.todo : Cardinality(F) = Chunk \/ (F = aso.todo /\ Cardinality(F) <= Chunk)}

(* The first of the datasets that are open, or a new one.                      *)
NextDataset(c) ==
    IF Usable(c) = {} THEN Len(open[c]) + 1
    ELSE CHOOSE d \in Usable(c) : \A e \in Usable(c) : d <= e

(* addReplicasToContainer: a chunk goes to one dataset, which is closed when it*)
(* is full, unless the program stops in between.                               *)
Attach(c) ==
    /\ aso.at = c /\ aso.todo # {}
    /\ LET d == NextDataset(c) IN \E F \in Chunks, closes \in BOOLEAN :
        /\ holds' = [holds EXCEPT ![c] = [f \in Files |-> IF f \in F THEN d ELSE @[f]]]
        /\ LET full == Cardinality({f \in Files : holds'[c][f] = d}) >= MaxFiles
           IN open' = [open EXCEPT ![c] = [e \in DOMAIN @ \cup {d} |->
                           IF e = d THEN ~(full /\ closes) ELSE @[e]]]
        /\ IF closes THEN AsoGoes(c, [aso EXCEPT !.todo = @ \ F]) /\ UNCHANGED faults
           ELSE AsoGoes(c, Waits) /\ Fault
    /\ UNCHANGED <<jobs, row, replica, copied, book, removing, publisher>>

(* updateRESTFileDocStateToSubmitted, of the files that were in it before too. *)
TellSubmitted ==
    /\ aso.todo = {} /\ AsoGoes("transfer", AsoAt("move"))
    /\ Update(aso.good, LAMBDA r : [r EXCEPT !.state = "submitted"])
    /\ UNCHANGED <<jobs, rucio, book, removing, publisher, faults>>

MoveLast ==
    /\ AsoGoes("move", AsoAt("locks"))
    /\ book' = [book EXCEPT !.last = aso.end]
    /\ UNCHANGED <<jobs, row, rucio, removing, publisher, faults>>

(* A bug the properties must find: a file counts once it is in the container.  *)
BugLocksOK == {f \in Files : holds["transfer"][f] # 0}

(* checkLockStatus: the locks of the rule that are OK.                         *)
LocksOK == {f \in Files : holds["transfer"][f] # 0 /\ copied[f] # 0}

(* updateRESTFileDocsStateToDone, of those not told before.                    *)
TellDone ==
    /\ AsoGoes("locks", [AsoAt("book") EXCEPT !.ok = LocksOK])
    /\ Update(LocksOK \ book.ok, LAMBDA r : [r EXCEPT !.state = "done"])
    /\ UNCHANGED <<jobs, rucio, book, removing, publisher, faults>>

(* A bug the properties must find: every file of the rule is written down.     *)
BugBooked == {f \in Files : holds["transfer"][f] # 0}

(* updateOKLocks: transfers_ok.txt.                                            *)
Booked == book.ok \cup aso.ok

BookLocks ==
    /\ AsoGoes("book", [AsoAt("publish") EXCEPT !.todo = NotIn("publish", aso.ok)])
    /\ book' = [book EXCEPT !.ok = Booked]
    /\ UNCHANGED <<jobs, row, rucio, removing, publisher, faults>>

(* The blocks of the copied files that were not reported complete.             *)
Unreported == {holds["publish"][f] : f \in aso.ok} \ book.complete

(* The blocks to report: the closed ones, and those that are closed now.       *)
Closed(stale) == {d \in Unreported : ~open["publish"][d] \/ d \in stale}

(* checkBlockCompleteStatus: a block nothing was added to for long is closed.  *)
CheckBlocks ==
    /\ aso.at = "publish" /\ aso.todo = {}
    /\ \E stale \in SUBSET {d \in Unreported : open["publish"][d]} :
        /\ open' = [open EXCEPT !["publish"] = [d \in DOMAIN @ |-> @[d] /\ d \notin stale]]
        /\ AsoGoes("publish", [AsoAt("report") EXCEPT !.done = Closed(stale)])
    /\ UNCHANGED <<jobs, row, replica, holds, copied, book, removing, publisher, faults>>

(* updateRESTFileDocsBlockCompletionInfo; the state of the row stays.          *)
TellComplete ==
    /\ AsoGoes("report", AsoAt("blocks"))
    /\ row' = [f \in Files |->
                IF f \in aso.ok /\ holds["publish"][f] \in aso.done
                THEN [row[f] EXCEPT !.block = holds["publish"][f], !.complete = TRUE] ELSE row[f]]
    /\ UNCHANGED <<jobs, rucio, book, removing, publisher, faults>>

BookBlocks ==
    /\ AsoGoes("blocks", AsoAt("clean"))
    /\ book' = [book EXCEPT !.complete = @ \cup aso.done]
    /\ UNCHANGED <<jobs, row, rucio, removing, publisher, faults>>

(* A bug the properties must find: every file of the rule is removed.          *)
BugToDelete == {f \in Files : holds["transfer"][f] # 0}

(* The copied files that were not removed before.                              *)
ToDelete == book.ok \ book.cleaned

(* deleteFileInTempArea: the removal goes on in the background.                *)
Clean ==
    /\ AsoGoes("clean", AsoAt("cleaned"))
    /\ removing' = removing \cup ToDelete
    /\ UNCHANGED <<jobs, row, rucio, book, publisher, faults>>

BookCleaned ==
    /\ AsoGoes("cleaned", Waits)
    /\ book' = [book EXCEPT !.cleaned = @ \cup book.ok]
    /\ UNCHANGED <<jobs, row, rucio, removing, publisher, faults>>

AsoStops ==
    /\ aso.at # "idle" /\ Fault /\ aso' = Waits
    /\ UNCHANGED <<jobs, row, rucio, book, removing, publisher>>

AttachSome == \E c \in Containers : Attach(c)

Manager ==
    \/ AsoStarts \/ BuildContainers \/ AddReplicas \/ TellFailed \/ AttachSome \/ TellSubmitted
    \/ MoveLast \/ TellDone \/ BookLocks \/ CheckBlocks \/ TellComplete \/ BookBlocks
    \/ Clean \/ BookCleaned

-------------------------------------------------------------------------------
(* Rucio.                                                                      *)

(* A file with the checksum of the replica is copied.                          *)
Copies(f) ==
    /\ holds["transfer"][f] # 0 /\ copied[f] = 0 /\ source[f] = replica[f]
    /\ copied' = [copied EXCEPT ![f] = source[f]]
    /\ UNCHANGED <<jobs, row, replica, holds, open, manager, publisher, faults>>

(* gfal-rm: its exit code is ignored.                                          *)
Removes(f) ==
    /\ f \in removing /\ removing' = removing \ {f}
    /\ \E gone \in BOOLEAN : source' = IF gone THEN [source EXCEPT ![f] = 0] ELSE source
    /\ UNCHANGED <<run, transfers, late, row, rucio, book, aso, publisher, faults>>

-------------------------------------------------------------------------------
(* The Publisher.                                                              *)

PubGoes(a, new) == pub.at = a /\ pub' = new
PubAt(s) == [pub EXCEPT !.at = s]

Wanted(f) == row[f].state = "done" /\ row[f].publish

(* startSlave: the blocks that are completely transferred and closed.          *)
Ready(F) == {row[f].block : f \in {g \in F : row[g].complete}}

(* active_tasks: acquirePublication, and what is acquired by now; startSlave:  *)
(* the acquired files of each block, if there is a block to publish.           *)
PubStarts ==
    LET new == {f \in Files : Wanted(f) /\ row[f].publication = "new"}
        acquired == new \cup {f \in Files : row[f].publication = "acquired"}
        blocks == Ready(acquired)
    IN /\ acquired # {} /\ (blocks # {} \/ new # {})
       /\ Update(new, LAMBDA r : [r EXCEPT !.publication = "acquired"])
       /\ PubGoes("idle", IF blocks = {} THEN Sleeps
                          ELSE [Sleeps EXCEPT !.at = "list", !.todo = blocks,
                                    !.in = [f \in Files |-> IF f \in acquired THEN row[f].block ELSE 0]])
       /\ UNCHANGED <<jobs, rucio, manager, dbs, migrated, faults>>

InBlock(d) == {f \in Files : pub.in[f] = d}

(* The blocks of the dataset in DBS.                                           *)
InDBS == {d \in 1..Cardinality(Files) : \E f \in Files : dbs[f] = d}

(* publishInDBS3 looks for the blocks in DBS. When all of them are there, the  *)
(* files of one of them are marked, and it is over.                            *)
ListDBS ==
    /\ IF pub.todo \subseteq InDBS
       THEN \E d \in pub.todo :
               PubGoes("list", [PubAt("mark") EXCEPT !.todo = {}, !.marks = InBlock(d), !.good = TRUE])
       ELSE PubGoes("list", PubAt("block"))
    /\ UNCHANGED <<jobs, row, rucio, manager, dbs, migrated, faults>>

(* publishOneBlockInDBS: the files of the block that are not in DBS.           *)
News(d) == {f \in InBlock(d) : dbs[f] = 0}

(* publishOneBlockInDBS: the parents of the files are migrated first, if they  *)
(* have to be, which may fail or take longer than the program waits; then the  *)
(* block is inserted, which DBS refuses when it has a block of that name. An   *)
(* insertion without an answer may have landed or not.                         *)
PublishBlock ==
    \E d \in pub.todo, inTime \in BOOLEAN, lands \in BOOLEAN, good \in BOOLEAN :
        LET needed == News(d) \cap bound.parents # {} /\ ~migrated
            works == News(d) # {} /\ (needed => inTime /\ migrated') /\ d \notin InDBS
        IN /\ IF needed THEN migrated' \in BOOLEAN ELSE UNCHANGED migrated
           /\ (good => lands) /\ (lands => works)
           /\ IF works /\ ~good THEN Fault ELSE UNCHANGED faults
           /\ dbs' = IF lands THEN [f \in Files |-> IF f \in News(d) THEN d ELSE dbs[f]] ELSE dbs
           /\ PubGoes("block", [PubAt("mark") EXCEPT
                  !.todo = @ \ {d}, !.marks = InBlock(d), !.good = good])
           /\ UNCHANGED <<jobs, row, rucio, manager>>

(* mark_good, mark_failed: a call per file; one that fails is passed over.     *)
MarkFiles ==
    \E marked \in SUBSET pub.marks :
        /\ IF marked = pub.marks THEN UNCHANGED faults ELSE Fault
        /\ Update(marked, LAMBDA r : [r EXCEPT !.publication = IF pub.good THEN "done" ELSE "failed"])
        /\ PubGoes("mark", IF pub.todo = {} THEN Sleeps ELSE PubAt("block"))
        /\ UNCHANGED <<jobs, rucio, manager, dbs, migrated>>

PubStops ==
    /\ pub.at # "idle" /\ Fault /\ pub' = Sleeps
    /\ UNCHANGED <<jobs, row, rucio, manager, dbs, migrated>>

Publisher == PubStarts \/ ListDBS \/ PublishBlock \/ MarkFiles

-------------------------------------------------------------------------------
Others == (\E f \in Files : RunJob(f) \/ Removes(f)) \/ AsoStops \/ PubStops

Step ==
    \/ Manager \/ Publisher \/ Others
    \/ \E f \in Files : AskPublication(f) \/ Copies(f)

Next == Step /\ UNCHANGED bound

(* The task process starts the program again and again, the Publisher polls,   *)
(* Rucio works on the rule, a post-job looks at its row until it is done, and  *)
(* a block that is open is looked at until it is old enough to be closed.      *)
Closes == CheckBlocks /\ aso'.done = Unreported

Spec ==
    /\ Init /\ [][Next]_vars
    /\ WF_vars(Manager /\ UNCHANGED bound) /\ SF_vars(Closes /\ UNCHANGED bound)
    /\ WF_vars(Publisher /\ UNCHANGED bound)
    /\ \A f \in Files : WF_vars(Copies(f) /\ UNCHANGED bound) /\ WF_vars(AskPublication(f) /\ UNCHANGED bound)

-------------------------------------------------------------------------------
TypeOK ==
    /\ \A f \in Files :
        /\ run[f] \in 0..bound.runs[f] /\ source[f] \in 0..run[f]
        /\ replica[f] \in 0..run[f] /\ copied[f] \in {0, replica[f]}
        /\ row[f].state \in {"none", "new", "submitted", "failed", "done"}
        /\ row[f].publication \in {"new", "acquired", "done", "failed"}
        /\ row[f].publish => f \notin Logs
    /\ book.last \in 0..Len(transfers) /\ aso.end \in 0..Len(transfers)
    /\ book.complete \subseteq DOMAIN open["publish"] /\ removing \subseteq book.ok
    /\ book.cleaned \subseteq book.ok
    /\ \A c \in Containers, f \in Files : holds[c][f] \in DOMAIN open[c] \cup {0}
    /\ \A f \in Files : dbs[f] \in DOMAIN open["publish"] \cup {0}

(* A row that says DONE is of a file that is at the destination, and is the    *)
(* file of the last run of the job, unless the job was run again too late: that*)
(* a replica has changed, Rucio does not notice (RegisterReplicas.py:155).     *)
DoneIsCopied ==
    \A f \in Files : row[f].state = "done" =>
        f \in Logs \/ (copied[f] # 0 /\ (copied[f] = run[f] \/ f \in late))

(* A file stays in the dataset it was put in first, whenever the program is    *)
(* stopped and starts over, and nothing is added to a dataset that is closed.  *)
DatasetsAreFinal ==
    [][\A c \in Containers, f \in Files : holds'[c][f] # holds[c][f] =>
        holds[c][f] = 0 /\ ~(holds'[c][f] \in DOMAIN open[c] /\ ~open[c][holds'[c][f]])]_vars

(* What is published in DBS is at the destination, in a block that is closed,  *)
(* and its block in DBS is the dataset it has in Rucio, for good.              *)
PublishedIsThere ==
    \A f \in Files : dbs[f] # 0 =>
        /\ copied[f] # 0 /\ dbs[f] = holds["publish"][f]
        /\ ~open["publish"][dbs[f]]

(* What the users are told is there: DONE is copied, published is there.       *)
ToldIsThere == DoneIsCopied /\ PublishedIsThere

(* A file Rucio has copied is found by the program, told DONE, and reported in *)
(* a complete block at last, wherever the program stops, unless its job was run*)
(* again too late: an older line, looked at once more, puts the row of a file  *)
(* that was told DONE back to SUBMITTED, and the file is never told again.     *)
CopiedIsReported ==
    \A f \in Files : copied[f] # 0 ~> (f \in late \/ (row[f].complete /\ row[f].state = "done"))

===============================================================================
