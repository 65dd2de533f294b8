------------------------------- MODULE Publication -----------------------------
(* The publication in DBS of the files that FTS has transferred, for one task. *)
(* PublisherMaster.py takes the files that wait for it, decides whether it is  *)
(* time, and starts a process (the slave) that looks for the metadata of the   *)
(* files, writes a file for TaskPublish.py and runs it. TaskPublish.py looks   *)
(* for the files in DBS, has the blocks of their parents migrated, inserts the *)
(* files in blocks, and tells the transfers database, file by file.            *)
(*                                                                             *)
(* When the master is stopped its slave is stopped too, not a TaskPublish that *)
(* runs: a master that is started again may run another beside it.             *)
EXTENDS Integers, FiniteSets

CONSTANTS
    Files,      \* the files, in the order of their rows
    Parents,    \* the parent files; each stands for its block
    MaxFiles,   \* max_files_per_block
    PerBlock,   \* what TaskPublish makes of it for this task
    Bounds      \* bounds, of which a behaviour keeps to one: the files there are, those without
                \* metadata, the parents of each, where DBS knows a parent, the instances of DBS
                \* whose blocks are not allowed to migrate, and how often something fails

Places == {"destination", "source", "global", "nowhere", "illegal"}

ASSUME PublicationAssumption ==
    /\ Files \subseteq Nat /\ IsFiniteSet(Files)
    /\ PerBlock \in 1..MaxFiles
    /\ Bounds \subseteq [files : SUBSET Files, bare : SUBSET Files, parents : [Files -> SUBSET Parents],
                         where : [Parents -> Places], refused : SUBSET {"source", "global"}, faults : Nat]

VARIABLES
    publication, \* the state of publication of each file, "none" until its post-job asks
    recent,      \* there is a tm_last_publication
    ended,       \* the status of the task, as the Publisher sees it, is final
    blackList,   \* the file of the task in the directory of the black list
    json,        \* the files in the task's file for TaskPublish.py
    slave,       \* the slaves, with what their TaskPublish.py does
    mine,        \* the slave the master waits for, 0 for none
    blocks,      \* the blocks of DBS, each the set of its files
    listed,      \* the parents of each file in DBS
    there,       \* the parents in the DBS of the destination
    faults, bound

task == <<ended, blackList>>
dbs == <<blocks, listed, there>>
vars == <<publication, recent, task, json, slave, mine, dbs, faults, bound>>

Slaves == {1, 2}
InDBS == UNION blocks
Where(p) == bound.where[p]

\* active: the files of the slave; files: those of TaskPublish.py (toPublish);
\* new: those still to insert (dbsFiles); kept: the parents of each; good, bad:
\* the files to mark; timed: whether to write the time of publication
Idle == [at |-> "idle", active |-> {}, files |-> {}, new |-> {}, kept |-> [f \in Files |-> {}],
         good |-> {}, bad |-> {}, timed |-> FALSE]

Init ==
    /\ publication = [f \in Files |-> "none"] /\ recent = FALSE
    /\ ended = FALSE /\ blackList = FALSE /\ json = {}
    /\ slave = [i \in Slaves |-> Idle] /\ mine = 0
    /\ bound \in Bounds /\ faults = 0
    /\ blocks = {} /\ listed = [f \in Files |-> {}]
    /\ there = {p \in Parents : Where(p) = "destination"}

Fault == faults < bound.faults /\ faults' = faults + 1
FaultIf(b) == IF b THEN Fault ELSE UNCHANGED faults
Mark(F, s) == publication' = [f \in Files |-> IF f \in F THEN s ELSE publication[f]]
Goes(i, a, new) == slave[i].at = a /\ slave' = [slave EXCEPT ![i] = new]

(* The slave ends, and the master, if it is there, sees it.                    *)
Ends(i, a) == Goes(i, a, Idle) /\ mine' = IF mine = i THEN 0 ELSE mine

-------------------------------------------------------------------------------
(* The other parties.                                                          *)

(* A post-job turns the flag of publication on.                                *)
AskPublication(f) ==
    /\ f \in bound.files /\ publication[f] = "none" /\ ~ended
    /\ Mark({f}, "new")
    /\ UNCHANGED <<recent, task, json, slave, mine, dbs, faults>>

(* getTaskStatusFromSched finds a final status, or nothing, from now on.       *)
TaskEnds ==
    /\ ~ended /\ ended' = TRUE
    /\ UNCHANGED <<publication, recent, blackList, json, slave, mine, dbs, faults>>

-------------------------------------------------------------------------------
(* PublisherMaster.py.                                                         *)

(* A bug the properties must find: a publication is not forced because the last*)
(* one is long ago, or because the task has ended.                             *)
BugForced(n, old) == n > MaxFiles \/ ~recent

(* startSlave: whether to publish now. old: the last publication is longer ago *)
(* than block_publication_timeout, or the status could not be read.            *)
Forced(n, old) == n > MaxFiles \/ ~recent \/ ended \/ old

(* algorithm, active_tasks: the master waits for its slaves before it looks    *)
(* again; what was acquired before is still its own.                           *)
MasterCycle(old) ==
    /\ mine = 0
    /\ LET active == {f \in Files : publication[f] \in {"new", "acquired"}}
           forced == Forced(Cardinality(active), old)
       IN /\ active # {} /\ (forced \/ \E f \in active : publication[f] = "new")
          /\ Mark(active, "acquired")
          /\ \E i \in Slaves :
                /\ slave[i].at = "idle"
                /\ IF forced
                   THEN Goes(i, "idle", [Idle EXCEPT !.at = "metadata", !.active = active]) /\ mine' = i
                   ELSE UNCHANGED <<slave, mine>>
    /\ UNCHANGED <<recent, task, json, dbs, faults>>

(* startSlave, getPublDescFiles: no answer, or one that takes long (which puts *)
(* the task on the black list), is like no metadata at all.                    *)
GetMetadata(i) ==
    \E fails \in (IF blackList THEN {TRUE} ELSE BOOLEAN) :
        LET found == IF fails THEN {} ELSE slave[i].active \ bound.bare
        IN /\ Goes(i, "metadata", [slave[i] EXCEPT !.at = "tell", !.bad = slave[i].active \ found])
           /\ json' = found
           /\ FaultIf(fails /\ ~blackList)
           /\ blackList' \in (IF fails /\ ~blackList THEN BOOLEAN ELSE {blackList})
    /\ UNCHANGED <<publication, recent, ended, mine, dbs>>

(* The files without metadata are marked, by a call each; one that fails is    *)
(* passed over. Then TaskPublish.py is started.                                *)
TellFailed(i) ==
    /\ \E told \in SUBSET slave[i].bad :
        FaultIf(told # slave[i].bad) /\ Mark(told, "failed")
    /\ Goes(i, "tell", [slave[i] EXCEPT !.at = "list", !.bad = {}])
    /\ UNCHANGED <<recent, task, json, mine, dbs>>

-------------------------------------------------------------------------------
(* TaskPublish.py.                                                             *)

FirstOf(F) == CHOOSE f \in F : \A g \in F : f <= g

(* The parents a file is published with. One that DBS does not know is skipped.*)
(* One whose name DBS refuses is skipped where it is met first; the files that *)
(* come after do not look it up again.                                         *)
Kept(new) ==
    [f \in Files |->
        {p \in bound.parents[f] :
            /\ f \in new /\ Where(p) # "nowhere"
            /\ Where(p) = "illegal" => f # FirstOf({g \in new : p \in bound.parents[g]})}]

(* publishInDBS3 until it knows what to insert. No answer from DBS or from the *)
(* REST interface ends the program, and so does an empty file.                 *)
NothingToDo(i) ==
    /\ Ends(i, "list") /\ FaultIf(json # {})
    /\ UNCHANGED <<publication, recent, task, json, dbs>>

(* What DBS has is valid: files that somebody has invalidated there, and that  *)
(* are published anew, are not modelled.                                       *)
ListFiles(i) ==
    /\ json # {}
    /\ LET new == json \ InDBS
       IN Goes(i, "list",
               IF new = {} THEN [Idle EXCEPT !.at = "mark", !.active = slave[i].active, !.good = json]
               ELSE [slave[i] EXCEPT !.at = "source", !.files = json, !.new = new, !.kept = Kept(new)])
    /\ UNCHANGED <<publication, recent, task, json, mine, dbs, faults>>

(* The blocks to migrate from an instance of DBS.                              *)
ToMigrate(i, place) == {p \in UNION {slave[i].kept[f] : f \in Files} : Where(p) = place /\ p \notin there}

After(place) == IF place = "source" THEN "global" ELSE "insert"

(* migrateByBlockDBS3: every block is at the destination.                      *)
Migrated(i, place) == ToMigrate(i, place) \subseteq there'

(* migrateByBlockDBS3: the migrations are asked for, again if they were before,*)
(* and looked at for five minutes; what goes on then, or has failed, is left to*)
(* the next cycle.                                                             *)
Migrate(i, place) ==
    /\ slave[i].at = place
    /\ ToMigrate(i, place) # {} => place \notin bound.refused
    /\ \E moved \in SUBSET ToMigrate(i, place) : there' = there \cup moved
    /\ IF Migrated(i, place)
       THEN Goes(i, place, [slave[i] EXCEPT !.at = After(place)]) /\ UNCHANGED mine
       ELSE Ends(i, place)
    /\ UNCHANGED <<publication, recent, task, json, blocks, listed, faults>>

(* CannotMigrateException is the end for all the files, if it is about blocks  *)
(* of the source; from the global DBS it is an exception like any other.       *)
CannotMigrate(i, place) ==
    /\ slave[i].at = place /\ ToMigrate(i, place) # {} /\ place \in bound.refused
    /\ IF place = "source"
       THEN Goes(i, place, [slave[i] EXCEPT !.at = "mark", !.bad = slave[i].files]) /\ UNCHANGED mine
       ELSE Ends(i, place)
    /\ UNCHANGED <<publication, recent, task, json, dbs, faults>>

(* A bug the properties must find: a block takes one file too many.            *)
BugNextBlock(F) == {f \in F : Cardinality({g \in F : g < f}) <= PerBlock}

(* The next files of F, a block full at most.                                  *)
NextBlock(F) == {f \in F : Cardinality({g \in F : g < f}) < PerBlock}

(* A bug the properties must find: the tail left to the next iteration is not  *)
(* taken out of the published files.                                           *)
BugPublished(s, tail) == s.files \ s.bad

(* The files to mark as published: what was there before too, but not what has *)
(* failed nor the tail.                                                        *)
Published(s, tail) == (s.files \ s.bad) \ tail

(* insertBulkBlock of the next block; DBS refuses a file it has. Whatever goes *)
(* wrong, every file of the task's file has failed. A tail smaller than a block*)
(* is left to the next iteration.                                              *)
InsertBlock(i) ==
    \E fails, lands \in BOOLEAN :
        LET block == NextBlock(slave[i].new)
            rest == slave[i].new \ block
            refused == block \cap InDBS # {}
            s == [slave[i] EXCEPT !.new = rest, !.bad = IF fails THEN slave[i].files ELSE @]
        IN /\ refused => fails /\ ~lands
           /\ ~refused /\ ~fails => lands
           /\ FaultIf(fails /\ ~refused)
           /\ blocks' = IF lands THEN blocks \cup {block} ELSE blocks
           /\ listed' = IF lands THEN [f \in Files |-> IF f \in block THEN s.kept[f] ELSE listed[f]] ELSE listed
           /\ Goes(i, "insert", IF Cardinality(rest) < PerBlock
                                THEN [s EXCEPT !.at = "mark", !.good = Published(s, rest), !.timed = TRUE]
                                ELSE s)
           /\ UNCHANGED <<publication, recent, task, json, mine, there>>

(* mark_good and updatepublicationtime, then mark_failed; a call that fails is *)
(* passed over.                                                                *)
MarkFiles(i) ==
    /\ \E good \in SUBSET slave[i].good, bad \in SUBSET slave[i].bad :
        /\ FaultIf(good # slave[i].good \/ bad # slave[i].bad)
        /\ publication' = [f \in Files |-> IF f \in good THEN "done" ELSE IF f \in bad THEN "failed"
                                           ELSE publication[f]]
    /\ recent' = (recent \/ (slave[i].timed /\ slave[i].good # {}))
    /\ Ends(i, "mark")
    /\ UNCHANGED <<task, json, dbs>>

-------------------------------------------------------------------------------
(* The master is stopped, with its slave, but not with its TaskPublish.py.     *)
MasterStops ==
    /\ mine # 0 /\ Fault /\ mine' = 0
    /\ slave' = IF slave[mine].at \in {"metadata", "tell"} THEN [slave EXCEPT ![mine] = Idle] ELSE slave
    /\ UNCHANGED <<publication, recent, task, json, dbs>>

(* TaskPublish.py is stopped.                                                  *)
PublishStops(i) ==
    /\ slave[i].at \notin {"idle", "metadata", "tell"} /\ Fault
    /\ slave' = [slave EXCEPT ![i] = Idle] /\ mine' = IF mine = i THEN 0 ELSE mine
    /\ UNCHANGED <<publication, recent, task, json, dbs>>

TaskPublish(i) ==
    \/ GetMetadata(i) \/ TellFailed(i) \/ NothingToDo(i) \/ ListFiles(i) \/ InsertBlock(i) \/ MarkFiles(i)
    \/ \E place \in {"source", "global"} : Migrate(i, place) \/ CannotMigrate(i, place)

Step ==
    \/ \E f \in Files : AskPublication(f)
    \/ TaskEnds \/ MasterStops
    \/ \E old \in BOOLEAN : MasterCycle(old)
    \/ \E i \in Slaves : TaskPublish(i) \/ PublishStops(i)

Next == Step /\ UNCHANGED bound

(* The master polls for ever, and its last publication becomes old; a slave    *)
(* goes on; a migration that is asked for again and again is over at last.     *)
MigratesAll(i, place) == Migrate(i, place) /\ ToMigrate(i, place) \subseteq there'

Spec ==
    /\ Init /\ [][Next]_vars
    /\ SF_vars(MasterCycle(TRUE) /\ UNCHANGED bound)
    /\ \A i \in Slaves :
        /\ WF_vars(TaskPublish(i) /\ UNCHANGED bound)
        /\ SF_vars(MigratesAll(i, "source") /\ UNCHANGED bound)
        /\ SF_vars(MigratesAll(i, "global") /\ UNCHANGED bound)

-------------------------------------------------------------------------------
TypeOK ==
    /\ publication \in [Files -> {"none", "new", "acquired", "done", "failed"}]
    /\ recent \in BOOLEAN /\ ended \in BOOLEAN /\ blackList \in BOOLEAN
    /\ json \subseteq Files /\ mine \in Slaves \cup {0}
    /\ \A i \in Slaves :
        /\ slave[i].at \in {"idle", "metadata", "tell", "list", "source", "global", "insert", "mark"}
        /\ slave[i].new \subseteq slave[i].files /\ slave[i].files \subseteq Files
        /\ slave[i].good \cap slave[i].bad = {}
        /\ slave[i].at = "insert" => slave[i].new # {}
    /\ mine # 0 => slave[mine].at # "idle"
    /\ \A b \in blocks : b # {} /\ Cardinality(b) <= PerBlock
    /\ there \subseteq Parents

(* A file that is marked as published is in DBS, in one block, and with parents*)
(* DBS has there too, whatever is stopped, and whoever publishes beside it. A  *)
(* parent whose name DBS refuses stays on the list of all files but the first  *)
(* (Kept), although the comment at TaskPublish.py:759 says that it is skipped. *)
DoneIsPublished ==
    \A f \in Files :
        /\ publication[f] = "done" => f \in InDBS
        /\ Cardinality({b \in blocks : f \in b}) <= 1
        /\ {p \in listed[f] : Where(p) # "illegal"} \subseteq there

(* Every file whose publication was asked for is published or failed at last,  *)
(* a tail smaller than a block too, as long as what has to be migrated can be. *)
RequestSettles ==
    \A f \in Files : publication[f] = "new" ~> publication[f] \in {"done", "failed"}

===============================================================================
