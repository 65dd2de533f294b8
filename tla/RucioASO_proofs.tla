---------------------------- MODULE RucioASO_proofs ---------------------------
(* Proofs about the transfer of files with Rucio and their publication, for any*)
(* number of files, runs, chunks and faults: what the users are told of a file *)
(* is so (ToldIsThere), and a file stays in the dataset it was put in first    *)
(* (DatasetsAreFinal), wherever RUCIO_Transfers.py and the Publisher are       *)
(* stopped and start over.                                                     *)
(*                                                                             *)
(* The four parties only read each other's notes. Those stay true because Rucio*)
(* only grows (RucioGrows): a copied file stays, so does the dataset of a file,*)
(* and a closed dataset is never opened again. The invariant says of each note *)
(* (aso, row, pub, dbs) what it tells of Rucio.                                *)
EXTENDS RucioASO, SequenceTheorems, WellFoundedInduction, TLAPS

RowType ==
    [state : {"none", "new", "submitted", "failed", "done"}, publish : BOOLEAN,
     publication : {"new", "acquired", "done", "failed"}, block : Nat, complete : BOOLEAN]

BookType ==
    [rules : BOOLEAN, last : Nat, ok : SUBSET Files, complete : SUBSET Nat, cleaned : SUBSET Files]

AsoPlaces ==
    {"idle", "build", "register", "refused", "transfer", "move", "locks", "book", "publish", "report",
     "blocks", "clean", "cleaned"}

AsoType ==
    [at : AsoPlaces, end : Nat, todo : SUBSET Files, good : SUBSET Files, bad : SUBSET Files,
     ok : SUBSET Files, done : SUBSET Nat]

PubPlaces == {"idle", "list", "block", "mark"}

PubType ==
    [at : PubPlaces, todo : SUBSET Nat, in : [Files -> Nat], marks : SUBSET Files, good : BOOLEAN]

Types ==
    /\ run \in [Files -> Nat] /\ source \in [Files -> Nat] /\ replica \in [Files -> Nat]
    /\ copied \in [Files -> Nat] /\ dbs \in [Files -> Nat]
    /\ row \in [Files -> RowType] /\ transfers \in Seq(Files)
    /\ holds \in [Containers -> [Files -> Nat]] /\ open \in [Containers -> Seq(BOOLEAN)]
    /\ book \in BookType /\ aso \in AsoType /\ pub \in PubType
    /\ late \subseteq Files /\ removing \subseteq Files /\ bound \in Bounds

(* A dataset that is published is closed.                                      *)
IsClosed(d) == d \in DOMAIN open["publish"] /\ ~open["publish"][d]

(* The source and the replica of a file are those of its last run, unless its  *)
(* job was run again too late.                                                 *)
JobsOK ==
    \A f \in Files :
        /\ run[f] <= bound.runs[f] /\ source[f] \in {0, run[f]} /\ replica[f] <= run[f]
        /\ copied[f] \in {0, replica[f]}
        /\ replica[f] \in {0, run[f]} \/ f \in late

(* The datasets of the files exist.                                            *)
HoldsOK == \A c \in Containers, f \in Files : holds[c][f] \in DOMAIN open[c] \cup {0}

(* What RUCIO_Transfers.py has in its memory, and in its files.                *)
AsoOK ==
    /\ aso.at \in Containers => \A f \in aso.todo : holds[aso.at][f] = 0
    /\ \A f \in aso.ok : copied[f] # 0
    /\ aso.at = "publish" => aso.todo \subseteq aso.ok /\ \A f \in aso.ok \ aso.todo : holds["publish"][f] # 0
    /\ \A d \in aso.done : IsClosed(d)

BookOK ==
    /\ book.last <= Len(transfers) /\ aso.end <= Len(transfers)
    /\ book.complete \subseteq DOMAIN open["publish"]
    /\ removing \subseteq book.ok /\ book.cleaned \subseteq book.ok

(* What the row of a file says is so.                                          *)
RowOK(f) ==
    /\ row[f].publish => f \notin Logs
    /\ row[f].state = "done" => f \in Logs \/ (copied[f] # 0 /\ (copied[f] = run[f] \/ f \in late))
    /\ row[f].block # 0 => row[f].block = holds["publish"][f] /\ copied[f] # 0
    /\ row[f].complete => IsClosed(row[f].block)

(* What the Publisher has read is so.                                          *)
PubOK ==
    /\ \A d \in pub.todo : IsClosed(d)
    /\ \A f \in Files : pub.in[f] # 0 => pub.in[f] = holds["publish"][f] /\ copied[f] # 0

(* What is in DBS is there, where DBS says.                                    *)
DbsOK ==
    \A f \in Files : dbs[f] # 0 =>
        copied[f] # 0 /\ dbs[f] = holds["publish"][f] /\ IsClosed(dbs[f])

(* The inductive invariant.                                                    *)
IInv ==
    /\ Types /\ JobsOK /\ HoldsOK /\ AsoOK /\ BookOK
    /\ (\A f \in Files : RowOK(f)) /\ PubOK /\ DbsOK

-------------------------------------------------------------------------------
(* What stays true.                                                            *)

(* Rucio forgets nothing.                                                      *)
RucioGrows ==
    /\ \A f \in Files : copied[f] # 0 => copied'[f] = copied[f]
    /\ \A c \in Containers, f \in Files : holds[c][f] # 0 => holds'[c][f] = holds[c][f]
    /\ \A c \in Containers : /\ DOMAIN open[c] \subseteq DOMAIN open'[c]
                             /\ \A d \in DOMAIN open[c] : ~open[c][d] => ~open'[c][d]

(* Most steps do not touch Rucio.                                              *)
LEMMA RucioSame == UNCHANGED <<holds, open, copied>> => RucioGrows
  BY DEF RucioGrows

(* The dataset is a closed one after the step.                                 *)
ClosedAfter(d) == d \in DOMAIN open'["publish"] /\ ~open'["publish"][d]

(* A dataset of the container that is closed stays so (attachment is one-way). *)
LEMMA StaysClosed == ASSUME RucioGrows PROVE \A d : IsClosed(d) => ClosedAfter(d)
  BY DEF RucioGrows, IsClosed, ClosedAfter, Containers

(* Nothing happens to what the row says of the transfer.                       *)
RowSame(f) ==
    /\ row'[f].state = row[f].state /\ row'[f].publish = row[f].publish
    /\ row'[f].block = row[f].block /\ row'[f].complete = row[f].complete

(* Then the row is still right.                                                *)
LEMMA KeepRow ==
    ASSUME RucioGrows, NEW f \in Files, RowOK(f), RowSame(f), UNCHANGED <<run, bound>>, late \subseteq late',
           Types
    PROVE  RowOK(f)'
  <1>1. /\ copied[f] # 0 => copied'[f] = copied[f]
        /\ holds["publish"][f] # 0 => holds'["publish"][f] = holds["publish"][f]
    BY DEF RucioGrows, Containers
  <1>2. row[f].complete => ClosedAfter(row[f].block)
    BY StaysClosed DEF RowOK
  <1>3. row'[f].complete => IsClosed(row[f].block)'
    BY <1>2 DEF IsClosed, ClosedAfter, RowSame
  <1> QED
    BY <1>1, <1>3 DEF RowOK, RowSame, Logs

(* What the Publisher has read stays so, and what is in DBS.                   *)
LEMMA KeepPublisher ==
    ASSUME RucioGrows
    PROVE  /\ PubOK /\ UNCHANGED pub => PubOK'
           /\ DbsOK /\ UNCHANGED dbs => DbsOK'
  <1>1. \A f \in Files : /\ copied[f] # 0 => copied'[f] = copied[f]
                         /\ holds["publish"][f] # 0 => holds'["publish"][f] = holds["publish"][f]
    BY DEF RucioGrows, Containers
  <1>2. ASSUME PubOK, UNCHANGED pub PROVE PubOK'
    <2>1. \A d \in pub.todo : ClosedAfter(d)
      BY <1>2, StaysClosed DEF PubOK
    <2> QED
      BY <1>1, <1>2, <2>1 DEF PubOK, IsClosed, ClosedAfter
  <1>3. ASSUME DbsOK, UNCHANGED dbs PROVE DbsOK'
    <2>1. \A f \in Files : dbs[f] # 0 => ClosedAfter(dbs[f])
      BY <1>3, StaysClosed DEF DbsOK
    <2> QED
      BY <1>1, <1>3, <2>1 DEF DbsOK, IsClosed, ClosedAfter
  <1> QED
    BY <1>2, <1>3

(* So does what RUCIO_Transfers.py knows, in a step of another.                *)
LEMMA KeepAso ==
    ASSUME RucioGrows, AsoOK, Types, UNCHANGED <<aso, holds>>
    PROVE  AsoOK'
  <1>1. \A d \in aso.done : ClosedAfter(d)
    BY StaysClosed DEF AsoOK
  <1>2. \A f \in aso.ok : copied'[f] # 0
    BY DEF RucioGrows, AsoOK, Types, AsoType
  <1> QED
    BY <1>1, <1>2 DEF AsoOK, IsClosed, ClosedAfter

-------------------------------------------------------------------------------
(* The post-jobs and Rucio.                                                    *)

(* A run of a job: it makes the file of an older run late.                     *)
LEMMA RunJobKeeps ==
    ASSUME IInv, NEW f \in Files, RunJob(f), UNCHANGED bound
    PROVE  IInv'
  <1>1. RucioGrows /\ UNCHANGED <<rucio, manager, publisher>>
    BY RucioSame DEF RunJob, rucio
  <1>2. /\ run' = [run EXCEPT ![f] = @ + 1] /\ source' = [source EXCEPT ![f] = run'[f]]
        /\ run[f] < bound.runs[f] /\ ~row[f].publish
        /\ late \subseteq late' /\ late' \subseteq late \cup {f} /\ (replica[f] # 0 => f \in late')
    BY DEF RunJob
  <1>3. /\ row' = [row EXCEPT ![f] = [NoRow EXCEPT !.state = "new"]]
        /\ transfers' = Append(transfers, f)
    BY DEF RunJob, Update, IInv, Types
  <1>4. Types'
    <2>1. [NoRow EXCEPT !.state = "new"] \in RowType
      BY DEF NoRow, RowType
    <2>2. row' \in [Files -> RowType] /\ transfers' \in Seq(Files)
      <3>1. row \in [Files -> RowType] /\ transfers \in Seq(Files)
        BY DEF IInv, Types
      <3> QED
        BY <1>3, <2>1, <3>1
    <2>3. run' \in [Files -> Nat] /\ source' \in [Files -> Nat]
      BY <1>2 DEF IInv, Types
    <2> QED
      BY <1>1, <1>2, <2>2, <2>3 DEF IInv, Types, rucio, manager, publisher
  <1>5. JobsOK'
    <2>1. \A g \in Files : /\ run[g] \in Nat /\ replica[g] \in Nat /\ copied[g] \in Nat /\ bound.runs[g] \in Nat
                           /\ g # f => run'[g] = run[g] /\ source'[g] = source[g]
      BY <1>2, RucioASOAssumption DEF IInv, Types
    <2>2. run'[f] = run[f] + 1 /\ source'[f] = run'[f]
      BY <1>2 DEF IInv, Types
    <2> QED
      BY <1>1, <1>2, <2>1, <2>2 DEF IInv, JobsOK, rucio
  <1>6. Len(transfers') >= Len(transfers)
    BY <1>3 DEF IInv, Types
  <1>7. BookOK'
    BY <1>1, <1>4, <1>6 DEF IInv, Types, BookType, AsoType, BookOK, manager, rucio
  <1>8. RowOK(f)'
    <2>1. row'[f].state # "done" /\ ~row'[f].publish /\ (row'[f] = row[f] \/ (~row'[f].complete /\ row'[f].block = 0))
      <3>1. DOMAIN row = Files
        BY DEF IInv, Types
      <3>2. CASE row[f].state = "new" /\ UNCHANGED <<row, transfers>>
        <4>1. row' = row /\ ~row[f].publish
          BY <1>2, <3>2
        <4> QED
          BY <3>2, <4>1
      <3>3. CASE row' = [row EXCEPT ![f] = [NoRow EXCEPT !.state = "new"]]
        <4>1. row'[f] = [NoRow EXCEPT !.state = "new"]
          BY <3>1, <3>3
        <4> QED
          BY <4>1 DEF NoRow
      <3> QED
        BY <1>3, <3>2, <3>3
    <2>2. RowOK(f)
      BY DEF IInv
    <2> QED
      BY <1>1, <2>1, <2>2 DEF RowOK, rucio, Logs, IsClosed
  <1>9. \A g \in Files \ {f} : RowOK(g)'
    BY <1>1, <1>2, <1>3 DEF IInv, Types, RowOK, rucio, Logs, IsClosed
  <1> QED
    BY <1>1, <1>4, <1>5, <1>7, <1>8, <1>9, KeepAso, KeepPublisher
    DEF IInv, HoldsOK, manager, publisher, rucio

(* A removal in the background, a copy, and the flag of publication.           *)
LEMMA FileKeeps ==
    ASSUME IInv, NEW f \in Files, Removes(f) \/ Copies(f) \/ AskPublication(f), UNCHANGED bound
    PROVE  IInv'
  <1>1. CASE Removes(f)
    <2>1. /\ RucioGrows /\ UNCHANGED <<run, transfers, late, row, rucio, book, aso, publisher>>
          /\ removing' \subseteq removing
          /\ source' = source \/ source' = [source EXCEPT ![f] = 0]
      BY <1>1, RucioSame DEF Removes, rucio
    <2>2. Types'
      <3>1. source \in [Files -> Nat] /\ removing \subseteq Files
        BY DEF IInv, Types
      <3>2. source' \in [Files -> Nat] /\ removing' \subseteq Files
        BY <2>1, <3>1
      <3> QED
        BY <2>1, <3>2 DEF IInv, Types, rucio, publisher
    <2>3. JobsOK'
      BY <2>1 DEF IInv, Types, JobsOK, rucio
    <2>4. \A g \in Files : RowOK(g)'
      BY <2>1, KeepRow DEF IInv, RowSame
    <2>5. BookOK'
      BY <2>1 DEF IInv, BookOK, rucio
    <2> QED
      BY <2>1, <2>2, <2>3, <2>4, <2>5, KeepAso, KeepPublisher DEF IInv, HoldsOK, publisher, rucio
  <1>2. CASE Copies(f)
    <2>1. /\ copied[f] = 0 /\ source[f] = replica[f] /\ copied' = [copied EXCEPT ![f] = source[f]]
          /\ UNCHANGED <<jobs, row, replica, holds, open, manager, publisher>>
      BY <1>2 DEF Copies
    <2>2. RucioGrows
      BY <2>1 DEF IInv, Types, RucioGrows
    <2>3. Types'
      BY <2>1 DEF IInv, Types, jobs, manager, publisher
    <2>4. JobsOK'
      BY <2>1 DEF IInv, Types, JobsOK, jobs
    <2>5. \A g \in Files : RowOK(g)'
      BY <2>1, <2>2, KeepRow DEF IInv, RowSame, jobs
    <2>6. BookOK'
      BY <2>1 DEF IInv, BookOK, jobs, manager
    <2> QED
      BY <2>1, <2>2, <2>3, <2>4, <2>5, <2>6, KeepAso, KeepPublisher DEF IInv, HoldsOK, manager, publisher
  <1>3. CASE AskPublication(f)
    <2>1. /\ f \notin Logs /\ row' = [row EXCEPT ![f] = [row[f] EXCEPT !.publish = TRUE]]
          /\ UNCHANGED <<jobs, rucio, manager, publisher>> /\ RucioGrows
      <3>1. f \notin Logs /\ UNCHANGED <<jobs, rucio, manager, publisher>>
        BY <1>3 DEF AskPublication
      <3>2. row' = [g \in Files |-> IF g \in {f} THEN [row[g] EXCEPT !.publish = TRUE] ELSE row[g]]
        BY <1>3 DEF AskPublication, Update
      <3>3. row \in [Files -> RowType]
        BY DEF IInv, Types
      <3>4. RucioGrows
        BY <3>1, RucioSame DEF rucio
      <3>5. row' = [row EXCEPT ![f] = [row[f] EXCEPT !.publish = TRUE]]
        BY <3>2, <3>3
      <3> QED
        BY <3>1, <3>4, <3>5
    <2>2. Types'
      <3>1. row \in [Files -> RowType] /\ [row[f] EXCEPT !.publish = TRUE] \in RowType
        BY DEF IInv, Types, RowType
      <3>2. row' \in [Files -> RowType]
        BY <2>1, <3>1
      <3> QED
        BY <2>1, <3>2 DEF IInv, Types, jobs, rucio, manager, publisher
    <2>3. JobsOK' /\ BookOK'
      BY <2>1 DEF IInv, JobsOK, BookOK, jobs, rucio, manager
    <2>4. RowOK(f)'
      BY <2>1 DEF IInv, Types, RowType, RowOK, IsClosed, Logs, jobs, rucio
    <2>5. \A g \in Files \ {f} : RowOK(g)'
      BY <2>1, KeepRow DEF IInv, Types, RowSame, jobs
    <2> QED
      BY <2>1, <2>2, <2>3, <2>4, <2>5, KeepAso, KeepPublisher DEF IInv, HoldsOK, manager, publisher, rucio
  <1> QED
    BY <1>1, <1>2, <1>3

-------------------------------------------------------------------------------
(* RUCIO_Transfers.py.                                                         *)

(* The fields of its variables after a step to s.                              *)
LEMMA AsoAtFields ==
    ASSUME aso \in AsoType, NEW s \in AsoPlaces
    PROVE  /\ AsoAt(s) \in AsoType
           /\ AsoAt(s).at = s /\ AsoAt(s).end = aso.end /\ AsoAt(s).todo = aso.todo
           /\ AsoAt(s).good = aso.good /\ AsoAt(s).bad = aso.bad /\ AsoAt(s).ok = aso.ok
           /\ AsoAt(s).done = aso.done
  BY DEF AsoAt, AsoType

(* A step that only moves on with its own notes, and writes to rows what is so.*)
Notes ==
    /\ UNCHANGED <<jobs, rucio, publisher, bound>>
    /\ aso' \in AsoType /\ book' \in BookType /\ removing' \subseteq Files

(* Such a step keeps the invariant but for the parts about the notes.          *)
LEMMA NotesKeep ==
    ASSUME IInv, Notes, AsoOK', BookOK', row' \in [Files -> RowType], \A f \in Files : RowOK(f)'
    PROVE  IInv'
  <1>1. RucioGrows
    BY RucioSame DEF Notes, rucio
  <1>2. Types' /\ JobsOK' /\ HoldsOK'
    BY DEF IInv, Types, JobsOK, HoldsOK, Notes, jobs, rucio, publisher
  <1> QED
    BY <1>1, <1>2, KeepPublisher DEF IInv, Notes, publisher

(* The rows stay right when they do not change.                                *)
LEMMA NotesRows ==
    ASSUME IInv, Notes, UNCHANGED row
    PROVE  row' \in [Files -> RowType] /\ \A f \in Files : RowOK(f)'
  <1>1. RucioGrows
    BY RucioSame DEF Notes, rucio
  <1> QED
    BY <1>1, KeepRow DEF IInv, Types, Notes, RowSame, jobs

(* A run begins, or ends early; it makes the containers, moves on its line, or *)
(* cleans up.                                                                  *)
LEMMA AsoMovesKeep ==
    ASSUME IInv, UNCHANGED bound,
           AsoStarts \/ BuildContainers \/ MoveLast \/ AsoStops \/ Clean \/ BookCleaned \/ BookBlocks
    PROVE  IInv'
  <1>1. /\ aso \in AsoType /\ book \in BookType /\ removing \subseteq Files /\ transfers \in Seq(Files)
        /\ Len(transfers) \in Nat
    BY DEF IInv, Types
  <1>2. Waits \in AsoType /\ Waits.at = "idle" /\ Waits.end = 0 /\ Waits.todo = {} /\ Waits.ok = {} /\ Waits.done = {}
    BY DEF Waits, AsoType, AsoPlaces
  <1>3. /\ AsoOK /\ BookOK /\ aso.done \subseteq DOMAIN open["publish"]
    BY DEF IInv, AsoOK, IsClosed
  <1>4. CASE AsoStarts
    <2>1. /\ aso' = [Waits EXCEPT !.at = IF book.rules THEN "register" ELSE "build", !.end = Len(transfers)]
          /\ UNCHANGED <<jobs, row, rucio, book, removing, publisher>>
      BY <1>4 DEF AsoStarts, AsoGoes
    <2>2. aso' \in AsoType /\ aso'.at \in {"register", "build"} /\ aso'.end = Len(transfers)
          /\ aso'.ok = {} /\ aso'.done = {}
      BY <1>1, <1>2, <2>1 DEF Waits, AsoType, AsoPlaces
    <2>3. Notes
      BY <1>1, <2>1, <2>2 DEF Notes
    <2>4. AsoOK' /\ BookOK'
      BY <1>1, <1>3, <2>1, <2>2 DEF AsoOK, BookOK, Containers, jobs, rucio
    <2> QED
      BY <2>1, <2>3, <2>4, NotesKeep, NotesRows
  <1>5. CASE BuildContainers \/ MoveLast \/ BookCleaned \/ BookBlocks
    <2>1. PICK s \in {"register", "locks", "clean", "idle"} :
            /\ aso' = AsoAt(s) \/ aso' = Waits
            /\ (aso' = Waits \/ s # "idle")
            /\ UNCHANGED <<jobs, row, rucio, removing, publisher>>
      BY <1>5 DEF BuildContainers, MoveLast, BookCleaned, BookBlocks, AsoGoes
    <2>2. /\ aso' \in AsoType /\ aso'.at \in {"register", "locks", "clean", "idle"}
          /\ aso'.end \in {0, aso.end} /\ aso'.ok \subseteq aso.ok /\ aso'.done \subseteq aso.done
      BY <2>1, <1>1, <1>2, AsoAtFields DEF AsoPlaces
    <2>3. /\ book' \in BookType /\ book'.ok = book.ok /\ book'.last \in {book.last, aso.end}
          /\ book'.complete \subseteq book.complete \cup aso.done
          /\ book'.cleaned \subseteq book.cleaned \cup book.ok
      BY <1>1, <1>5 DEF BuildContainers, MoveLast, BookCleaned, BookBlocks, BookType, AsoType
    <2>4. Notes
      BY <1>1, <2>1, <2>2, <2>3 DEF Notes
    <2>5. AsoOK'
      BY <1>3, <2>1, <2>2 DEF AsoOK, IsClosed, Containers, rucio
    <2>6. BookOK'
      BY <1>1, <1>3, <2>1, <2>2, <2>3 DEF BookOK, jobs, rucio
    <2> QED
      BY <2>1, <2>4, <2>5, <2>6, NotesKeep, NotesRows
  <1>6. CASE AsoStops
    <2>1. aso' = Waits /\ UNCHANGED <<jobs, row, rucio, book, removing, publisher>>
      BY <1>6 DEF AsoStops
    <2>2. Notes
      BY <1>1, <1>2, <2>1 DEF Notes
    <2>3. AsoOK' /\ BookOK'
      BY <1>1, <1>2, <1>3, <2>1 DEF AsoOK, BookOK, Containers, jobs, rucio
    <2> QED
      BY <2>1, <2>2, <2>3, NotesKeep, NotesRows
  <1>7. CASE Clean
    <2>1. /\ aso' = AsoAt("cleaned") /\ removing' = removing \cup ToDelete
          /\ UNCHANGED <<jobs, row, rucio, book, publisher>>
      BY <1>7 DEF Clean, AsoGoes
    <2>2. ToDelete \subseteq book.ok /\ book.ok \subseteq Files
      BY <1>1 DEF ToDelete, BookType
    <2>3. aso' \in AsoType /\ aso'.at = "cleaned" /\ aso'.end = aso.end /\ aso'.ok = aso.ok /\ aso'.done = aso.done
      BY <1>1, <2>1, AsoAtFields DEF AsoPlaces
    <2>4. Notes
      BY <1>1, <2>1, <2>2, <2>3 DEF Notes
    <2>5. AsoOK' /\ BookOK'
      BY <1>3, <2>1, <2>2, <2>3 DEF AsoOK, BookOK, IsClosed, Containers, jobs, rucio
    <2> QED
      BY <2>1, <2>4, <2>5, NotesKeep, NotesRows
  <1> QED
    BY <1>4, <1>5, <1>6, <1>7

(* The locks that are OK are written to transfers_ok.txt, and the files that   *)
(* are not yet in a block are to be put into one.                              *)
LEMMA BookLocksKeep ==
    ASSUME IInv, UNCHANGED bound, BookLocks
    PROVE  IInv'
  <1>1. aso \in AsoType /\ book \in BookType /\ AsoOK /\ BookOK
    BY DEF IInv, Types
  <1>2. /\ aso' = [AsoAt("publish") EXCEPT !.todo = NotIn("publish", aso.ok)]
        /\ book' = [book EXCEPT !.ok = Booked]
        /\ UNCHANGED <<jobs, row, rucio, removing, publisher>>
    BY DEF BookLocks, AsoGoes
  <1>3. /\ aso' \in AsoType /\ aso'.at = "publish" /\ aso'.todo = NotIn("publish", aso.ok)
        /\ aso'.ok = aso.ok /\ aso'.done = aso.done /\ aso'.end = aso.end
    <2>1. NotIn("publish", aso.ok) \subseteq Files
      BY <1>1 DEF NotIn, AsoType
    <2> QED
      BY <1>1, <1>2, <2>1 DEF AsoAt, AsoType, AsoPlaces
  <1>4. /\ book' \in BookType /\ book'.ok = book.ok \cup aso.ok /\ book'.last = book.last
        /\ book'.complete = book.complete /\ book'.cleaned = book.cleaned
    BY <1>1, <1>2 DEF Booked, BookType, AsoType
  <1>5. Notes
    BY <1>2, <1>3, <1>4 DEF Notes, IInv, Types
  <1>6. AsoOK'
    BY <1>1, <1>2, <1>3 DEF AsoOK, IsClosed, NotIn, rucio, AsoType
  <1>7. BookOK'
    BY <1>1, <1>2, <1>3, <1>4 DEF BookOK, jobs, rucio
  <1> QED
    BY <1>2, <1>5, <1>6, <1>7, NotesKeep, NotesRows

(* New lines are registered: what is refused is remembered, and log files are  *)
(* not transferred.                                                            *)
LEMMA AddReplicasKeep ==
    ASSUME IInv, UNCHANGED bound, AddReplicas
    PROVE  IInv'
  <1>1. aso \in AsoType /\ AsoOK /\ BookOK /\ transfers \in Seq(Files) /\ book \in BookType
        /\ aso.end \in Nat /\ row \in [Files -> RowType]
    BY DEF IInv, Types, AsoType
  <1>2. NewItems \subseteq Files
    <2>1. \A k \in book.last + 1..aso.end : k \in 1..Len(transfers)
      BY <1>1 DEF BookOK, BookType
    <2> QED
      BY <1>1, <2>1 DEF NewItems
  <1>3. PICK bad \in SUBSET (NewItems \ Logs), good \in SUBSET Files :
          /\ good = (NewItems \ Logs) \ bad
          /\ AsoGoes("register", [AsoAt("refused") EXCEPT !.good = good, !.bad = bad])
          /\ replica' = [f \in Files |-> IF f \in good /\ replica[f] = 0 THEN source[f] ELSE replica[f]]
    BY <1>2 DEF AddReplicas
  <1>4. /\ aso' = [AsoAt("refused") EXCEPT !.good = good, !.bad = bad]
        /\ row' = [f \in Files |-> IF f \in NewItems \cap Logs THEN [row[f] EXCEPT !.state = "done"] ELSE row[f]]
        /\ UNCHANGED <<jobs, holds, open, copied, book, removing, publisher>>
    BY <1>3 DEF AddReplicas, AsoGoes, Update
  <1>5. aso' \in AsoType /\ aso'.at = "refused" /\ aso'.ok = aso.ok /\ aso'.done = aso.done /\ aso'.end = aso.end
    BY <1>1, <1>2, <1>3, <1>4 DEF AsoAt, AsoType, AsoPlaces
  <1>6. RucioGrows
    BY <1>4, RucioSame
  <1>7. row' \in [Files -> RowType]
    BY <1>1, <1>4 DEF RowType
  <1>8. replica' \in [Files -> Nat]
    BY <1>3 DEF IInv, Types
  <1>9. Types'
    BY <1>4, <1>5, <1>7, <1>8 DEF IInv, Types, jobs, publisher
  <1>10. JobsOK'
    <2>1. \A f \in Files : replica'[f] = replica[f] \/ (replica[f] = 0 /\ replica'[f] = source[f])
      BY <1>3
    <2>2. \A f \in Files : run[f] \in Nat /\ copied[f] \in Nat
      BY DEF IInv, Types
    <2> QED
      BY <1>4, <2>1, <2>2 DEF IInv, JobsOK, jobs
  <1>11. AsoOK' /\ BookOK'
    BY <1>1, <1>4, <1>5 DEF AsoOK, BookOK, IsClosed, Containers, jobs
  <1>12. ASSUME NEW f \in Files PROVE RowOK(f)'
    <2>1. CASE f \in NewItems \cap Logs
      <3>1. RowOK(f) /\ row[f] \in RowType /\ row'[f] = [row[f] EXCEPT !.state = "done"]
        BY <1>1, <1>4, <2>1 DEF IInv
      <3> QED
        BY <1>4, <2>1, <3>1 DEF RowOK, RowType, IsClosed, Logs, jobs
    <2>2. CASE f \notin NewItems \cap Logs
      <3>1. RowOK(f) /\ RowSame(f) /\ Types
        BY <1>4, <2>2 DEF RowSame, IInv
      <3> QED
        BY <1>4, <1>6, <3>1, KeepRow DEF jobs
    <2> QED
      BY <2>1, <2>2
  <1> QED
    BY <1>4, <1>6, <1>9, <1>10, <1>11, <1>12, KeepPublisher DEF IInv, HoldsOK, publisher

(* A call that changes the state, not to DONE, of some rows.                   *)
LEMMA StateWritten ==
    ASSUME IInv, Notes, NEW F \in SUBSET Files, NEW s \in {"failed", "submitted"},
           row' = [f \in Files |-> IF f \in F THEN [row[f] EXCEPT !.state = s] ELSE row[f]]
    PROVE  row' \in [Files -> RowType] /\ \A f \in Files : RowOK(f)'
  <1>1. row \in [Files -> RowType] /\ UNCHANGED <<jobs, rucio, bound>>
    BY DEF IInv, Types, Notes
  <1>2. row' \in [Files -> RowType]
    BY <1>1 DEF RowType
  <1>3. ASSUME NEW f \in Files PROVE RowOK(f)'
    <2>1. /\ row[f] \in RowType /\ RowOK(f) /\ row'[f].state \in {s, row[f].state}
          /\ row'[f].publish = row[f].publish /\ row'[f].block = row[f].block
          /\ row'[f].complete = row[f].complete
      BY <1>1 DEF IInv, RowType
    <2> QED
      BY <1>1, <2>1 DEF IInv, RowOK, IsClosed, Logs, jobs, rucio
  <1> QED
    BY <1>2, <1>3

(* FAILED for the files that were refused, SUBMITTED for those that are in the *)
(* container of the transfers.                                                 *)
LEMMA TellStateKeep ==
    ASSUME IInv, UNCHANGED bound, TellFailed \/ TellSubmitted
    PROVE  IInv'
  <1>1. aso \in AsoType /\ AsoOK /\ BookOK /\ book \in BookType /\ removing \subseteq Files
    BY DEF IInv, Types
  <1>2. CASE TellFailed
    <2>1. /\ aso' = [AsoAt("transfer") EXCEPT !.todo = NotIn("transfer", aso.good)]
          /\ row' = [f \in Files |-> IF f \in aso.bad THEN [row[f] EXCEPT !.state = "failed"] ELSE row[f]]
          /\ UNCHANGED <<jobs, rucio, book, removing, publisher>>
      BY <1>2 DEF TellFailed, AsoGoes, Update
    <2>2. NotIn("transfer", aso.good) \subseteq Files /\ aso.bad \subseteq Files
      BY <1>1 DEF NotIn, AsoType
    <2>3. /\ aso' \in AsoType /\ aso'.at = "transfer" /\ aso'.todo = NotIn("transfer", aso.good)
          /\ aso'.ok = aso.ok /\ aso'.done = aso.done /\ aso'.end = aso.end
      BY <1>1, <2>1, <2>2 DEF AsoAt, AsoType, AsoPlaces
    <2>4. Notes
      BY <1>1, <2>1, <2>3 DEF Notes
    <2>5. AsoOK' /\ BookOK'
      BY <1>1, <2>1, <2>3 DEF AsoOK, BookOK, IsClosed, NotIn, jobs, rucio
    <2> QED
      BY <2>1, <2>2, <2>4, <2>5, NotesKeep, StateWritten
  <1>3. CASE TellSubmitted
    <2>1. /\ aso' = AsoAt("move")
          /\ row' = [f \in Files |-> IF f \in aso.good THEN [row[f] EXCEPT !.state = "submitted"] ELSE row[f]]
          /\ UNCHANGED <<jobs, rucio, book, removing, publisher>>
      BY <1>3 DEF TellSubmitted, AsoGoes, Update
    <2>2. aso.good \subseteq Files
      BY <1>1 DEF AsoType
    <2>3. aso' \in AsoType /\ aso'.at = "move" /\ aso'.ok = aso.ok /\ aso'.done = aso.done /\ aso'.end = aso.end
      BY <1>1, <2>1, AsoAtFields DEF AsoPlaces
    <2>4. Notes
      BY <1>1, <2>1, <2>3 DEF Notes
    <2>5. AsoOK' /\ BookOK'
      BY <1>1, <2>1, <2>3 DEF AsoOK, BookOK, IsClosed, Containers, jobs, rucio
    <2> QED
      BY <2>1, <2>2, <2>4, <2>5, NotesKeep, StateWritten
  <1> QED
    BY <1>2, <1>3

(* DONE is written only for files that are copied.                             *)
LEMMA TellDoneKeep ==
    ASSUME IInv, UNCHANGED bound, TellDone
    PROVE  IInv'
  <1>1. aso \in AsoType /\ AsoOK /\ BookOK /\ book \in BookType /\ removing \subseteq Files
        /\ row \in [Files -> RowType]
    BY DEF IInv, Types
  <1>2. /\ aso' = [AsoAt("book") EXCEPT !.ok = LocksOK]
        /\ row' = [f \in Files |-> IF f \in LocksOK \ book.ok THEN [row[f] EXCEPT !.state = "done"] ELSE row[f]]
        /\ UNCHANGED <<jobs, rucio, book, removing, publisher>>
    BY DEF TellDone, AsoGoes, Update
  <1>3. LocksOK \subseteq Files /\ \A f \in LocksOK : copied[f] # 0
    BY DEF LocksOK
  <1>4. aso' \in AsoType /\ aso'.at = "book" /\ aso'.ok = LocksOK /\ aso'.done = aso.done /\ aso'.end = aso.end
    BY <1>1, <1>2, <1>3 DEF AsoAt, AsoType, AsoPlaces
  <1>5. Notes
    BY <1>1, <1>2, <1>4 DEF Notes
  <1>6. AsoOK' /\ BookOK'
    BY <1>1, <1>2, <1>3, <1>4 DEF AsoOK, BookOK, IsClosed, Containers, jobs, rucio
  <1>7. row' \in [Files -> RowType]
    BY <1>1, <1>2 DEF RowType
  <1>8. ASSUME NEW f \in Files PROVE RowOK(f)'
    <2>1. /\ row[f] \in RowType /\ RowOK(f)
          /\ row'[f].publish = row[f].publish /\ row'[f].block = row[f].block
          /\ row'[f].complete = row[f].complete
          /\ row'[f].state = row[f].state \/ f \in LocksOK
      BY <1>1, <1>2 DEF IInv, RowType
    <2>2. f \in LocksOK => copied[f] # 0 /\ (copied[f] = run[f] \/ f \in late)
      BY <1>3 DEF IInv, JobsOK
    <2> QED
      BY <1>2, <2>1, <2>2 DEF RowOK, IsClosed, Logs, jobs, rucio
  <1> QED
    BY <1>5, <1>6, <1>7, <1>8, NotesKeep

(* The block of a copied file is reported once it is closed.                   *)
LEMMA TellCompleteKeep ==
    ASSUME IInv, UNCHANGED bound, TellComplete
    PROVE  IInv'
  <1>1. aso \in AsoType /\ AsoOK /\ BookOK /\ book \in BookType /\ removing \subseteq Files
        /\ row \in [Files -> RowType] /\ holds["publish"] \in [Files -> Nat]
    BY DEF IInv, Types, Containers
  <1>2. /\ aso' = AsoAt("blocks") /\ UNCHANGED <<jobs, rucio, book, removing, publisher>>
        /\ row' = [f \in Files |->
                    IF f \in aso.ok /\ holds["publish"][f] \in aso.done
                    THEN [row[f] EXCEPT !.block = holds["publish"][f], !.complete = TRUE] ELSE row[f]]
    BY DEF TellComplete, AsoGoes
  <1>3. aso' \in AsoType /\ aso'.at = "blocks" /\ aso'.ok = aso.ok /\ aso'.done = aso.done /\ aso'.end = aso.end
    BY <1>1, <1>2, AsoAtFields DEF AsoPlaces
  <1>4. Notes
    BY <1>1, <1>2, <1>3 DEF Notes
  <1>5. AsoOK' /\ BookOK'
    BY <1>1, <1>2, <1>3 DEF AsoOK, BookOK, IsClosed, Containers, jobs, rucio
  <1>6. row' \in [Files -> RowType]
    <2>1. ASSUME NEW r \in RowType, NEW d \in Nat PROVE [r EXCEPT !.block = d, !.complete = TRUE] \in RowType
      BY DEF RowType
    <2>2. \A f \in Files : row[f] \in RowType /\ holds["publish"][f] \in Nat
      BY <1>1
    <2> QED
      BY <1>2, <2>1, <2>2
  <1>7. ASSUME NEW f \in Files PROVE RowOK(f)'
    <2>1. RowOK(f) /\ row[f] \in RowType
      BY <1>1 DEF IInv
    <2>2. CASE f \in aso.ok /\ holds["publish"][f] \in aso.done
      <3>1. /\ row'[f].state = row[f].state /\ row'[f].publish = row[f].publish
            /\ row'[f].block = holds["publish"][f] /\ row'[f].complete = TRUE
        BY <1>2, <2>1, <2>2 DEF RowType
      <3>2. copied[f] # 0 /\ IsClosed(holds["publish"][f])
        BY <1>1, <2>2 DEF AsoOK
      <3> QED
        BY <1>2, <2>1, <3>1, <3>2 DEF RowOK, IsClosed, Logs, jobs, rucio
    <2>3. CASE ~(f \in aso.ok /\ holds["publish"][f] \in aso.done)
      BY <1>2, <2>1, <2>3 DEF RowOK, IsClosed, Logs, jobs, rucio
    <2> QED
      BY <2>2, <2>3
  <1> QED
    BY <1>4, <1>5, <1>6, <1>7, NotesKeep

(* A non-empty set of natural numbers has a smallest member.                   *)
LEMMA SmallestMember ==
    ASSUME NEW S \in SUBSET Nat, S # {}
    PROVE  \E d \in S : \A e \in S : d <= e
  <1>1. PICK d \in S : \A e \in S : ~(<<e, d>> \in OpToRel(<, Nat))
    BY NatLessThanWellFounded, WFMin
  <1>2. \A e \in S : ~(e < d)
    BY <1>1 DEF OpToRel
  <1> QED
    BY <1>2

(* The dataset that is written to is open, or a new one.                       *)
LEMMA NextDatasetOpen ==
    ASSUME Types, NEW c \in Containers
    PROVE  \/ NextDataset(c) \in DOMAIN open[c] /\ open[c][NextDataset(c)] = TRUE
           \/ NextDataset(c) = Len(open[c]) + 1
  <1>1. open[c] \in Seq(BOOLEAN) /\ DOMAIN open[c] \subseteq Nat
    BY DEF Types
  <1>2. CASE Usable(c) # {}
    <2>1. Usable(c) \in SUBSET Nat
      BY <1>1 DEF Usable
    <2>2. \E d \in Usable(c) : \A e \in Usable(c) : d <= e
      BY <1>2, <2>1, SmallestMember
    <2>3. NextDataset(c) \in Usable(c)
      BY <1>2, <2>2 DEF NextDataset
    <2> QED
      BY <1>1, <2>3 DEF Usable
  <1>3. CASE Usable(c) = {}
    BY <1>3 DEF NextDataset
  <1> QED
    BY <1>2, <1>3

(* What a chunk of files that is put into a dataset changes in Rucio: files    *)
(* that had no dataset of the container get one that was open, or a new one.   *)
LEMMA AttachFacts ==
    ASSUME IInv, NEW c \in Containers, Attach(c)
    PROVE  \E d \in Nat \ {0}, F \in SUBSET aso.todo, o \in BOOLEAN :
             /\ (d \in DOMAIN open[c] /\ open[c][d] = TRUE) \/ d = Len(open[c]) + 1
             /\ holds' = [holds EXCEPT ![c] = [f \in Files |-> IF f \in F THEN d ELSE holds[c][f]]]
             /\ open' = [open EXCEPT ![c] = [e \in DOMAIN open[c] \cup {d} |-> IF e = d THEN o ELSE open[c][e]]]
             /\ aso' = [aso EXCEPT !.todo = @ \ F] \/ aso' = Waits
             /\ \A f \in F : holds[c][f] = 0
  <1>1. PICK d \in Nat \ {0} : /\ d = NextDataset(c)
                               /\ (d \in DOMAIN open[c] /\ open[c][d] = TRUE) \/ d = Len(open[c]) + 1
    <2>1. PICK n \in Nat : n = Len(open[c]) /\ DOMAIN open[c] = 1..n
      BY DEF IInv, Types
    <2>2. CASE NextDataset(c) \in DOMAIN open[c] /\ open[c][NextDataset(c)] = TRUE
      <3>1. NextDataset(c) \in Nat \ {0}
        BY <2>1, <2>2
      <3> QED
        BY <2>2, <3>1
    <2>3. CASE NextDataset(c) = Len(open[c]) + 1
      <3>1. n + 1 \in Nat \ {0}
        OBVIOUS
      <3>2. NextDataset(c) = n + 1
        BY <2>1, <2>3
      <3> QED
        BY <2>3, <3>1, <3>2
    <2> QED
      BY <2>2, <2>3, NextDatasetOpen DEF IInv
  <1> DEFINE Into(x) ==
          \E F \in Chunks, closes \in BOOLEAN :
            /\ holds' = [holds EXCEPT ![c] = [f \in Files |-> IF f \in F THEN x ELSE @[f]]]
            /\ LET full == Cardinality({f \in Files : holds'[c][f] = x}) >= MaxFiles
               IN open' = [open EXCEPT ![c] = [e \in DOMAIN @ \cup {x} |->
                               IF e = x THEN ~(full /\ closes) ELSE @[e]]]
            /\ IF closes THEN AsoGoes(c, [aso EXCEPT !.todo = @ \ F]) /\ UNCHANGED faults
               ELSE AsoGoes(c, Waits) /\ Fault
  <1>1a. Into(d)
    <2>1. Into(NextDataset(c))
      BY Zenon DEF Attach
    <2>2. d = NextDataset(c)
      BY <1>1
    <2> HIDE DEF Into
    <2> QED
      BY <2>1, <2>2, Zenon
  <1>2. PICK F \in Chunks, closes \in BOOLEAN :
          /\ holds' = [holds EXCEPT ![c] = [f \in Files |-> IF f \in F THEN d ELSE @[f]]]
          /\ LET full == Cardinality({f \in Files : holds'[c][f] = d}) >= MaxFiles
             IN open' = [open EXCEPT ![c] = [e \in DOMAIN @ \cup {d} |->
                             IF e = d THEN ~(full /\ closes) ELSE @[e]]]
          /\ IF closes THEN AsoGoes(c, [aso EXCEPT !.todo = @ \ F]) /\ UNCHANGED faults
             ELSE AsoGoes(c, Waits) /\ Fault
    BY <1>1a
  <1>3. F \in SUBSET aso.todo
    BY DEF Chunks
  <1>4. aso' = [aso EXCEPT !.todo = @ \ F] \/ aso' = Waits
    BY <1>2 DEF AsoGoes
  <1>5. \A f \in F : holds[c][f] = 0
    BY <1>3 DEF Attach, IInv, AsoOK
  <1>6. PICK o \in BOOLEAN : o = ~(Cardinality({f \in Files : holds'[c][f] = d}) >= MaxFiles /\ closes)
    OBVIOUS
  <1>7. open' = [open EXCEPT ![c] = [e \in DOMAIN open[c] \cup {d} |-> IF e = d THEN o ELSE open[c][e]]]
    BY <1>2, <1>6
  <1>8. holds' = [holds EXCEPT ![c] = [f \in Files |-> IF f \in F THEN d ELSE holds[c][f]]]
    BY <1>2
  <1> QED
    BY <1>1, <1>3, <1>4, <1>5, <1>7, <1>8

(* It leaves what is known of Rucio true.                                      *)
LEMMA AttachKeeps ==
    ASSUME IInv, NEW c \in Containers, Attach(c), UNCHANGED bound
    PROVE  IInv'
  <1>1. PICK d \in Nat \ {0}, F \in SUBSET aso.todo, o \in BOOLEAN :
          /\ (d \in DOMAIN open[c] /\ open[c][d] = TRUE) \/ d = Len(open[c]) + 1
          /\ holds' = [holds EXCEPT ![c] = [f \in Files |-> IF f \in F THEN d ELSE holds[c][f]]]
          /\ open' = [open EXCEPT ![c] = [e \in DOMAIN open[c] \cup {d} |-> IF e = d THEN o ELSE open[c][e]]]
          /\ aso' = [aso EXCEPT !.todo = @ \ F] \/ aso' = Waits
          /\ \A f \in F : holds[c][f] = 0
    BY AttachFacts
  <1>2. /\ aso.at = c /\ UNCHANGED <<jobs, row, replica, copied, book, removing, publisher>>
    BY DEF Attach
  <1>3. /\ holds \in [Containers -> [Files -> Nat]] /\ open \in [Containers -> Seq(BOOLEAN)]
        /\ aso \in AsoType /\ AsoOK /\ BookOK
    BY DEF IInv, Types
  <1>4. PICK n \in Nat : n = Len(open[c]) /\ DOMAIN open[c] = 1..n
    BY <1>3
  <1>5. /\ open'[c] = [e \in DOMAIN open[c] \cup {d} |-> IF e = d THEN o ELSE open[c][e]]
        /\ holds'[c] = [f \in Files |-> IF f \in F THEN d ELSE holds[c][f]]
        /\ \A k \in Containers \ {c} : open'[k] = open[k] /\ holds'[k] = holds[k]
    BY <1>1, <1>3
  <1>6. RucioGrows
    <2>1. \A k \in Containers : /\ DOMAIN open[k] \subseteq DOMAIN open'[k]
                                /\ \A e \in DOMAIN open[k] : ~open[k][e] => ~open'[k][e]
      <3>1. /\ DOMAIN open[c] \subseteq DOMAIN open'[c]
            /\ \A e \in DOMAIN open[c] : ~open[c][e] => ~open'[c][e]
        BY <1>1, <1>4, <1>5
      <3> QED
        BY <3>1, <1>5
    <2>2. \A k \in Containers, f \in Files : holds[k][f] # 0 => holds'[k][f] = holds[k][f]
      BY <1>1, <1>5
    <2> QED
      BY <1>2, <2>1, <2>2 DEF RucioGrows
  <1>7. open' \in [Containers -> Seq(BOOLEAN)]
    <2>1. PICK m \in Nat : DOMAIN open[c] \cup {d} = 1..m
      <3>1. CASE d = n + 1
        <4>1. 1..n \cup {n + 1} = 1..n + 1
          OBVIOUS
        <4> QED
          BY <1>4, <3>1, <4>1
      <3>2. CASE d \in DOMAIN open[c]
        BY <1>4, <3>2
      <3> QED
        BY <1>1, <1>4, <3>1, <3>2
    <2>2. open'[c] \in [1..m -> BOOLEAN]
      <3>1. \A e \in DOMAIN open[c] : open[c][e] \in BOOLEAN
        BY <1>3
      <3> QED
        BY <1>5, <2>1, <3>1
    <2>3. open'[c] \in Seq(BOOLEAN)
      BY <2>2, SeqDef
    <2> QED
      BY <1>1, <1>3, <2>3
  <1>8. holds' \in [Containers -> [Files -> Nat]]
    <2>1. holds'[c] \in [Files -> Nat]
      BY <1>3, <1>5
    <2> QED
      BY <1>1, <1>3, <2>1
  <1>9. /\ aso' \in AsoType /\ aso'.ok \subseteq aso.ok /\ aso'.done \subseteq aso.done /\ aso'.end \in {0, aso.end}
        /\ aso' = Waits \/ (aso'.at = c /\ aso'.todo = aso.todo \ F /\ aso'.ok = aso.ok)
    <2>1. CASE aso' = Waits
      BY <1>3, <2>1 DEF AsoType, Waits, AsoPlaces
    <2>2. CASE aso' = [aso EXCEPT !.todo = @ \ F]
      <3>1. aso.todo \ F \subseteq Files
        BY <1>3 DEF AsoType
      <3> QED
        BY <1>2, <1>3, <2>2, <3>1 DEF AsoType
    <2> QED
      BY <1>1, <2>1, <2>2
  <1>10. Types'
    BY <1>2, <1>7, <1>8, <1>9 DEF IInv, Types, jobs, publisher
  <1>11. JobsOK'
    BY <1>2 DEF IInv, JobsOK, jobs
  <1>12. HoldsOK'
    <2>1. d \in DOMAIN open'[c]
      BY <1>5
    <2>2. \A k \in Containers, f \in Files : holds[k][f] \in DOMAIN open[k] \cup {0}
      BY DEF IInv, HoldsOK
    <2>3. \A k \in Containers : DOMAIN open[k] \subseteq DOMAIN open'[k]
      BY <1>6 DEF RucioGrows
    <2> QED
      BY <1>5, <2>1, <2>2, <2>3 DEF HoldsOK
  <1>13. AsoOK'
    <2>1. \A e \in aso'.done : IsClosed(e)'
      <3>1. \A e \in aso.done : ClosedAfter(e)
        BY <1>3, <1>6, StaysClosed DEF AsoOK
      <3> QED
        BY <1>9, <3>1 DEF IsClosed, ClosedAfter
    <2>2. \A f \in aso'.ok : copied'[f] # 0
      BY <1>2, <1>3, <1>9 DEF AsoOK
    <2>3. CASE aso' = Waits
      BY <2>1, <2>2, <2>3 DEF AsoOK, Waits, Containers
    <2>4. CASE aso'.at = c /\ aso'.todo = aso.todo \ F /\ aso'.ok = aso.ok
      <3>1. \A f \in aso.todo \ F : holds'[c][f] = 0
        <4>1. aso.todo \subseteq Files
          BY <1>3 DEF AsoType
        <4>2. \A f \in aso.todo : holds[c][f] = 0
          BY <1>2, <1>3 DEF AsoOK
        <4> QED
          BY <1>5, <4>1, <4>2
      <3>2. c = "publish" => /\ aso'.todo \subseteq aso'.ok
                             /\ \A f \in aso'.ok \ aso'.todo : holds'["publish"][f] # 0
        <4>1. aso.ok \subseteq Files /\ F \subseteq Files
          BY <1>3 DEF AsoType
        <4>2. c = "publish" => /\ aso.todo \subseteq aso.ok
                               /\ \A f \in aso.ok \ aso.todo : holds["publish"][f] # 0
          BY <1>2, <1>3 DEF AsoOK
        <4> QED
          BY <1>5, <2>4, <4>1, <4>2
      <3> QED
        BY <2>1, <2>2, <2>4, <3>1, <3>2 DEF AsoOK
    <2> QED
      BY <1>9, <2>3, <2>4
  <1>14. BookOK'
    <2>1. DOMAIN open["publish"] \subseteq DOMAIN open'["publish"] /\ Len(transfers) \in Nat
      BY <1>6 DEF RucioGrows, Containers, IInv, Types
    <2> QED
      BY <1>2, <1>3, <1>9, <2>1 DEF BookOK, jobs
  <1>15. \A f \in Files : RowOK(f)'
    BY <1>2, <1>6, KeepRow DEF IInv, RowSame, jobs
  <1> QED
    BY <1>2, <1>6, <1>10, <1>11, <1>12, <1>13, <1>14, <1>15, KeepPublisher DEF IInv, publisher

(* Blocks are closed, and only closed ones are reported.                       *)
LEMMA CheckBlocksKeep ==
    ASSUME IInv, CheckBlocks, UNCHANGED bound
    PROVE  IInv'
  <1>1. PICK stale \in SUBSET {d \in Unreported : open["publish"][d]} :
          /\ open' = [open EXCEPT !["publish"] = [d \in DOMAIN @ |-> @[d] /\ d \notin stale]]
          /\ AsoGoes("publish", [AsoAt("report") EXCEPT !.done = Closed(stale)])
    BY DEF CheckBlocks
  <1>2. /\ aso.at = "publish" /\ aso.todo = {}
        /\ UNCHANGED <<jobs, row, replica, holds, copied, book, removing, publisher>>
    BY DEF CheckBlocks
  <1>3. /\ holds \in [Containers -> [Files -> Nat]] /\ open \in [Containers -> Seq(BOOLEAN)]
        /\ aso \in AsoType /\ AsoOK /\ BookOK /\ "publish" \in Containers /\ aso.ok \subseteq Files
    BY DEF IInv, Types, Containers, AsoType
  <1>4. Unreported \subseteq DOMAIN open["publish"]
    <2>1. \A f \in aso.ok : holds["publish"][f] # 0
      BY <1>2, <1>3 DEF AsoOK
    <2>2. \A f \in aso.ok : holds["publish"][f] \in DOMAIN open["publish"]
      BY <1>3, <2>1 DEF IInv, HoldsOK
    <2> QED
      BY <2>2 DEF Unreported
  <1>5. /\ open'["publish"] = [d \in DOMAIN open["publish"] |-> open["publish"][d] /\ d \notin stale]
        /\ \A k \in Containers \ {"publish"} : open'[k] = open[k]
    BY <1>1, <1>3
  <1>6. RucioGrows
    <2>1. \A k \in Containers : /\ DOMAIN open[k] \subseteq DOMAIN open'[k]
                                /\ \A e \in DOMAIN open[k] : ~open[k][e] => ~open'[k][e]
      BY <1>5
    <2> QED
      BY <1>2, <2>1 DEF RucioGrows
  <1>7. open' \in [Containers -> Seq(BOOLEAN)]
    <2>1. PICK n \in Nat : DOMAIN open["publish"] = 1..n
      BY <1>3
    <2>2. open'["publish"] \in [1..n -> BOOLEAN]
      <3>1. \A d \in DOMAIN open["publish"] : (open["publish"][d] /\ d \notin stale) \in BOOLEAN
        OBVIOUS
      <3> QED
        BY <1>5, <2>1, <3>1
    <2>3. open'["publish"] \in Seq(BOOLEAN)
      BY <2>2, SeqDef
    <2> QED
      BY <1>1, <1>3, <2>3
  <1>8. Closed(stale) \subseteq Nat /\ \A d \in Closed(stale) : ClosedAfter(d)
    <2>1. DOMAIN open["publish"] \subseteq Nat
      BY <1>3
    <2>2. \A d \in Closed(stale) : d \in Unreported /\ (~open["publish"][d] \/ d \in stale)
      BY DEF Closed
    <2> QED
      BY <1>4, <1>5, <2>1, <2>2 DEF ClosedAfter
  <1>9. /\ aso' \in AsoType /\ aso'.at = "report" /\ aso'.done = Closed(stale)
        /\ aso'.ok = aso.ok /\ aso'.end = aso.end
    BY <1>1, <1>3, <1>8 DEF AsoGoes, AsoAt, AsoType, AsoPlaces
  <1>10. Types'
    BY <1>2, <1>7, <1>9 DEF IInv, Types, jobs, publisher
  <1>11. JobsOK' /\ HoldsOK'
    BY <1>2, <1>6 DEF IInv, JobsOK, HoldsOK, RucioGrows, jobs
  <1>12. AsoOK'
    BY <1>2, <1>3, <1>8, <1>9 DEF AsoOK, IsClosed, ClosedAfter, Containers
  <1>13. BookOK'
    BY <1>2, <1>3, <1>6, <1>9 DEF BookOK, RucioGrows, jobs
  <1>14. \A f \in Files : RowOK(f)'
    BY <1>2, <1>6, KeepRow DEF IInv, RowSame, jobs
  <1> QED
    BY <1>2, <1>6, <1>10, <1>11, <1>12, <1>13, <1>14, KeepPublisher DEF IInv, publisher

-------------------------------------------------------------------------------
(* The Publisher.                                                              *)

(* A step that writes its own notes, and to rows and DBS.                      *)
LEMMA PublisherKeeps ==
    ASSUME IInv, UNCHANGED <<jobs, rucio, manager, bound>>,
           row' \in [Files -> RowType], \A f \in Files : RowSame(f),
           pub' \in PubType, PubOK', dbs' \in [Files -> Nat], DbsOK'
    PROVE  IInv'
  <1>1. RucioGrows
    BY RucioSame DEF rucio
  <1>2. Types'
    BY DEF IInv, Types, jobs, rucio, manager
  <1>3. \A f \in Files : RowOK(f)'
    BY <1>1, KeepRow DEF IInv, jobs
  <1> QED
    BY <1>1, <1>2, <1>3, KeepAso DEF IInv, JobsOK, HoldsOK, BookOK, jobs, rucio, manager

(* The verdict on a publication is all that changes in these rows.             *)
LEMMA MarkRows ==
    ASSUME IInv, NEW F \in SUBSET Files, NEW p \in {"acquired", "done", "failed"},
           row' = [f \in Files |-> IF f \in F THEN [row[f] EXCEPT !.publication = p] ELSE row[f]]
    PROVE  row' \in [Files -> RowType] /\ \A f \in Files : RowSame(f)
  <1>1. \A f \in Files : row[f] \in RowType
    BY DEF IInv, Types
  <1>2. ASSUME NEW r \in RowType
        PROVE  /\ [r EXCEPT !.publication = p] \in RowType
               /\ [r EXCEPT !.publication = p].state = r.state
               /\ [r EXCEPT !.publication = p].publish = r.publish
               /\ [r EXCEPT !.publication = p].block = r.block
               /\ [r EXCEPT !.publication = p].complete = r.complete
    BY DEF RowType
  <1>3. row' \in [Files -> RowType]
    BY <1>1, <1>2
  <1>4. ASSUME NEW f \in Files PROVE RowSame(f)
    <2>1. row'[f] \in {row[f], [row[f] EXCEPT !.publication = p]}
      OBVIOUS
    <2> QED
      BY <1>1, <1>2, <2>1 DEF RowSame
  <1> QED
    BY <1>3, <1>4

(* Only closed blocks, and files with their right block, are handed over.      *)
LEMMA PubStartsKeep ==
    ASSUME IInv, UNCHANGED bound, PubStarts
    PROVE  IInv'
  <1>1. row \in [Files -> RowType] /\ dbs \in [Files -> Nat]
    BY DEF IInv, Types
  <1>2. PICK new \in SUBSET Files, acquired \in SUBSET Files, blocks \in SUBSET Nat :
          /\ blocks = Ready(acquired)
          /\ row' = [f \in Files |-> IF f \in new THEN [row[f] EXCEPT !.publication = "acquired"] ELSE row[f]]
          /\ pub' = IF blocks = {} THEN Sleeps
                    ELSE [Sleeps EXCEPT !.at = "list", !.todo = blocks,
                              !.in = [f \in Files |-> IF f \in acquired THEN row[f].block ELSE 0]]
    <2> DEFINE new == {f \in Files : Wanted(f) /\ row[f].publication = "new"}
               acquired == new \cup {f \in Files : row[f].publication = "acquired"}
    <2>1. Ready(acquired) \in SUBSET Nat
      BY <1>1 DEF Ready, RowType
    <2>2. new \in SUBSET Files /\ acquired \in SUBSET Files
      OBVIOUS
    <2>3. row' = [f \in Files |-> IF f \in new THEN [row[f] EXCEPT !.publication = "acquired"] ELSE row[f]]
      BY DEF PubStarts, Update
    <2>4. pub' = IF Ready(acquired) = {} THEN Sleeps
                 ELSE [Sleeps EXCEPT !.at = "list", !.todo = Ready(acquired),
                           !.in = [f \in Files |-> IF f \in acquired THEN row[f].block ELSE 0]]
      BY DEF PubStarts, PubGoes
    <2> HIDE DEF new, acquired
    <2> QED
      BY <2>1, <2>2, <2>3, <2>4, Zenon
  <1>3. UNCHANGED <<jobs, rucio, manager, dbs, migrated>>
    BY DEF PubStarts
  <1>4. row' \in [Files -> RowType] /\ \A f \in Files : RowSame(f)
    BY <1>2, MarkRows
  <1>5. \A f \in Files : row[f].block \in Nat
    BY <1>1 DEF RowType
  <1>6. \A d \in blocks : IsClosed(d)
    BY <1>2 DEF Ready, IInv, RowOK
  <1>7. \A f \in Files : row[f].block # 0 => row[f].block = holds["publish"][f] /\ copied[f] # 0
    BY DEF IInv, RowOK
  <1>8. pub' \in PubType /\ PubOK'
    <2>1. PICK in \in [Files -> Nat] : in = [f \in Files |-> IF f \in acquired THEN row[f].block ELSE 0]
      BY <1>5
    <2>2. CASE blocks = {}
      <3>1. pub' = Sleeps
        BY <1>2, <2>2
      <3>2. Sleeps \in PubType /\ Sleeps.todo = {} /\ \A f \in Files : Sleeps.in[f] = 0
        BY DEF Sleeps, PubType, PubPlaces
      <3> QED
        BY <3>1, <3>2 DEF PubOK
    <2>3. CASE blocks # {}
      <3>1. pub' = [Sleeps EXCEPT !.at = "list", !.todo = blocks, !.in = in]
        BY <1>2, <2>1, <2>3
      <3>2. pub' \in PubType /\ pub'.todo = blocks /\ pub'.in = in
        BY <3>1 DEF Sleeps, PubType, PubPlaces
      <3>3. \A f \in Files : in[f] # 0 => in[f] = holds["publish"][f] /\ copied[f] # 0
        BY <2>1, <1>7
      <3> QED
        BY <1>3, <1>6, <3>2, <3>3 DEF PubOK, IsClosed, rucio
    <2> QED
      BY <2>2, <2>3
  <1>9. DbsOK'
    BY <1>3 DEF IInv, DbsOK, IsClosed, rucio
  <1> QED
    BY <1>1, <1>3, <1>4, <1>8, <1>9, PublisherKeeps

(* It lists DBS, marks the rows, or stops.                                     *)
LEMMA PubMovesKeep ==
    ASSUME IInv, UNCHANGED bound, ListDBS \/ MarkFiles \/ PubStops
    PROVE  IInv'
  <1>1. pub \in PubType /\ row \in [Files -> RowType] /\ dbs \in [Files -> Nat] /\ PubOK
    BY DEF IInv, Types
  <1>2. Sleeps \in PubType /\ Sleeps.todo = {} /\ \A f \in Files : Sleeps.in[f] = 0
    BY DEF Sleeps, PubType, PubPlaces
  <1>3. UNCHANGED <<jobs, rucio, manager, dbs>>
    BY DEF ListDBS, MarkFiles, PubStops
  <1>4. /\ pub' \in PubType /\ pub'.todo \subseteq pub.todo
        /\ pub'.in = pub.in \/ \A f \in Files : pub'.in[f] = 0
    <2>1. CASE pub' = Sleeps
      BY <1>2, <2>1
    <2>2. CASE pub' = PubAt("block")
      BY <1>1, <2>2 DEF PubAt, PubType, PubPlaces
    <2>3. CASE \E d \in pub.todo :
                 pub' = [PubAt("mark") EXCEPT !.todo = {}, !.marks = InBlock(d), !.good = TRUE]
      <3>1. PICK d \in pub.todo :
                 pub' = [PubAt("mark") EXCEPT !.todo = {}, !.marks = InBlock(d), !.good = TRUE]
        BY <2>3
      <3>2. InBlock(d) \subseteq Files
        BY DEF InBlock
      <3> QED
        BY <1>1, <3>1, <3>2 DEF PubAt, PubType, PubPlaces
    <2> QED
      BY <2>1, <2>2, <2>3 DEF ListDBS, MarkFiles, PubStops, PubGoes
  <1>5. row' \in [Files -> RowType] /\ \A f \in Files : RowSame(f)
    <2>1. CASE row' = row
      BY <1>1, <2>1 DEF RowSame
    <2>2. CASE MarkFiles
      <3>1. PICK F \in SUBSET pub.marks :
              row' = [f \in Files |->
                        IF f \in F THEN [row[f] EXCEPT !.publication = IF pub.good THEN "done" ELSE "failed"]
                        ELSE row[f]]
        BY <2>2 DEF MarkFiles, Update
      <3>2. F \in SUBSET Files
        BY <1>1 DEF PubType
      <3>3. PICK p \in {"done", "failed"} : p = IF pub.good THEN "done" ELSE "failed"
        OBVIOUS
      <3>4. row' = [f \in Files |-> IF f \in F THEN [row[f] EXCEPT !.publication = p] ELSE row[f]]
        BY <3>1, <3>3
      <3> QED
        BY <3>2, <3>4, MarkRows
    <2> QED
      BY <2>1, <2>2 DEF ListDBS, PubStops
  <1>6. PubOK'
    BY <1>1, <1>3, <1>4 DEF PubOK, IsClosed, rucio
  <1>7. DbsOK'
    BY <1>3 DEF IInv, DbsOK, IsClosed, rucio
  <1> QED
    BY <1>1, <1>3, <1>4, <1>5, <1>6, <1>7, PublisherKeeps

(* A block is inserted with files that are copied, and that it has in Rucio.   *)
LEMMA PublishBlockKeeps ==
    ASSUME IInv, UNCHANGED bound, PublishBlock
    PROVE  IInv'
  <1>1. pub \in PubType /\ row \in [Files -> RowType] /\ dbs \in [Files -> Nat] /\ PubOK /\ DbsOK
    BY DEF IInv, Types
  <1>2. PICK d \in pub.todo, inTime \in BOOLEAN, lands \in BOOLEAN, good \in BOOLEAN :
          /\ dbs' = IF lands THEN [f \in Files |-> IF f \in News(d) THEN d ELSE dbs[f]] ELSE dbs
          /\ pub' = [PubAt("mark") EXCEPT !.todo = @ \ {d}, !.marks = InBlock(d), !.good = good]
          /\ UNCHANGED <<jobs, row, rucio, manager>>
    BY Zenon DEF PublishBlock, PubGoes
  <1>3. d \in Nat /\ IsClosed(d) /\ InBlock(d) \subseteq Files
    BY <1>1 DEF PubOK, PubType, InBlock
  <1>4. pub' \in PubType /\ pub'.todo \subseteq pub.todo /\ pub'.in = pub.in
    BY <1>1, <1>2, <1>3 DEF PubAt, PubType, PubPlaces
  <1>5. PubOK'
    BY <1>1, <1>2, <1>4 DEF PubOK, IsClosed, rucio
  <1>6. dbs' \in [Files -> Nat]
    BY <1>1, <1>2, <1>3
  <1>7. d # 0
    <2>1. DOMAIN open["publish"] \subseteq Nat \ {0}
      BY DEF IInv, Types, Containers
    <2> QED
      BY <1>3, <2>1 DEF IsClosed
  <1>8. DbsOK'
    <2>1. ASSUME NEW f \in Files, dbs'[f] # 0
          PROVE  copied[f] # 0 /\ dbs'[f] = holds["publish"][f] /\ IsClosed(dbs'[f])
      <3>1. CASE dbs'[f] = dbs[f]
        BY <1>1, <2>1, <3>1 DEF DbsOK
      <3>2. CASE f \in News(d) /\ dbs'[f] = d
        BY <1>1, <1>3, <1>7, <3>2 DEF News, InBlock, PubOK
      <3> QED
        BY <1>2, <3>1, <3>2
    <2> QED
      BY <1>2, <2>1 DEF DbsOK, IsClosed, rucio
  <1>9. \A f \in Files : RowSame(f)
    BY <1>2 DEF RowSame
  <1> QED
    BY <1>1, <1>2, <1>4, <1>5, <1>6, <1>8, <1>9, PublisherKeeps

-------------------------------------------------------------------------------
(* The theorems.                                                               *)

(* The initial states satisfy the invariant.                                   *)
LEMMA InitInvariant == Init => IInv
  <1> SUFFICES ASSUME Init PROVE IInv
    OBVIOUS
  <1>1. NoRow \in RowType /\ Waits \in AsoType /\ Sleeps \in PubType
    BY DEF NoRow, RowType, Waits, AsoType, AsoPlaces, Sleeps, PubType, PubPlaces
  <1>2. book \in BookType
    BY DEF Init, BookType
  <1>3. transfers \in Seq(Files) /\ open \in [Containers -> Seq(BOOLEAN)] /\ Len(transfers) = 0
    BY DEF Init
  <1>4. Types
    BY <1>1, <1>2, <1>3 DEF Init, Types
  <1>5. JobsOK
    BY RucioASOAssumption DEF Init, JobsOK
  <1>6. HoldsOK /\ BookOK /\ DbsOK
    BY <1>3 DEF Init, HoldsOK, BookOK, DbsOK, Waits
  <1>7. AsoOK
    BY DEF Init, AsoOK, Waits, Containers
  <1>8. PubOK
    BY DEF Init, PubOK, Sleeps
  <1>9. \A f \in Files : RowOK(f)
    BY DEF Init, RowOK, NoRow
  <1> QED
    BY <1>4, <1>5, <1>6, <1>7, <1>8, <1>9 DEF IInv

(* Every step keeps it.                                                        *)
LEMMA StepInvariant == IInv /\ [Next]_vars => IInv'
  <1> SUFFICES ASSUME IInv, [Next]_vars PROVE IInv'
    OBVIOUS
  <1>1. CASE Step /\ UNCHANGED bound
    <2>1. CASE Manager
      BY <1>1, <2>1, AsoMovesKeep, BookLocksKeep, AddReplicasKeep, TellStateKeep, TellDoneKeep,
         TellCompleteKeep, AttachKeeps, CheckBlocksKeep DEF Manager, AttachSome
    <2>2. CASE Publisher
      BY <1>1, <2>2, PubStartsKeep, PubMovesKeep, PublishBlockKeeps DEF Publisher
    <2>3. CASE Others \/ \E f \in Files : AskPublication(f) \/ Copies(f)
      BY <1>1, <2>3, RunJobKeeps, FileKeeps, AsoMovesKeep, PubMovesKeep DEF Others
    <2> QED
      BY <1>1, <2>1, <2>2, <2>3 DEF Step
  <1>2. CASE UNCHANGED vars
    <2>1. /\ UNCHANGED <<jobs, row, rucio, manager, publisher, bound>>
      BY <1>2 DEF vars
    <2>2. \A f \in Files : RowSame(f)
      BY <2>1 DEF RowSame
    <2>3. row' \in [Files -> RowType] /\ pub' \in PubType /\ dbs' \in [Files -> Nat] /\ PubOK' /\ DbsOK'
      BY <2>1 DEF IInv, Types, PubOK, DbsOK, IsClosed, rucio, publisher
    <2> QED
      BY <2>1, <2>2, <2>3, PublisherKeeps
  <1> QED
    BY <1>1, <1>2 DEF Next

(* The invariant holds in every reachable state.                               *)
THEOREM Invariance == Spec => []IInv
  BY InitInvariant, StepInvariant, PTL DEF Spec

(* The state has its type: RUCIO_Transfers.py reads no line of transfers.txt   *)
(* that is not there, removes only files that are in transfers_ok.txt, and     *)
(* reports only datasets that exist (task_process/RUCIO_Transfers.py).         *)
THEOREM TypeCorrect == Spec => []TypeOK
  <1>1. IInv => TypeOK
    <2> SUFFICES ASSUME IInv PROVE TypeOK
      OBVIOUS
    <2>1. ASSUME NEW f \in Files
          PROVE  /\ run[f] \in 0..bound.runs[f] /\ source[f] \in 0..run[f]
                 /\ replica[f] \in 0..run[f] /\ copied[f] \in {0, replica[f]}
      <3>1. run[f] \in Nat /\ source[f] \in Nat /\ replica[f] \in Nat /\ bound.runs[f] \in Nat
        BY RucioASOAssumption DEF IInv, Types
      <3> QED
        BY <3>1 DEF IInv, JobsOK
    <2>2. ASSUME NEW f \in Files
          PROVE  /\ row[f].state \in {"none", "new", "submitted", "failed", "done"}
                 /\ row[f].publication \in {"new", "acquired", "done", "failed"}
                 /\ row[f].publish => f \notin Logs
      BY DEF IInv, Types, RowType, RowOK
    <2>3. /\ book.last \in 0..Len(transfers) /\ aso.end \in 0..Len(transfers)
          /\ book.complete \subseteq DOMAIN open["publish"] /\ removing \subseteq book.ok
          /\ book.cleaned \subseteq book.ok
      <3>1. book.last \in Nat /\ aso.end \in Nat /\ Len(transfers) \in Nat
        BY DEF IInv, Types, BookType, AsoType
      <3> QED
        BY <3>1 DEF IInv, BookOK
    <2>4. \A c \in Containers, f \in Files : holds[c][f] \in DOMAIN open[c] \cup {0}
      BY DEF IInv, HoldsOK
    <2>5. \A f \in Files : dbs[f] \in DOMAIN open["publish"] \cup {0}
      BY DEF IInv, DbsOK, IsClosed
    <2> QED
      BY <2>1, <2>2, <2>3, <2>4, <2>5 DEF TypeOK
  <1> QED
    BY <1>1, Invariance, PTL

(* A row that says DONE is of a file of the last run that is at the            *)
(* destination, and what is in DBS is there, in a closed block that is its     *)
(* dataset in Rucio: RUCIO_Transfers.py and TaskPublishRucio.py may be stopped *)
(* anywhere, and jobs may run again.                                           *)
THEOREM ToldIsSo == Spec => []ToldIsThere
  <1>1. IInv => DoneIsCopied
    BY DEF IInv, RowOK, DoneIsCopied
  <1>2. IInv => PublishedIsThere
    BY DEF IInv, DbsOK, IsClosed, PublishedIsThere
  <1> QED
    BY <1>1, <1>2, Invariance, PTL DEF ToldIsThere

(* A file gets a dataset of a container once, and never one that was closed    *)
(* before (RegisterReplicas.addReplicasToContainer, getOrCreateDataset).       *)
THEOREM FilesKeepDatasets == Spec => DatasetsAreFinal
  <1> DEFINE Final ==
        \A c \in Containers, f \in Files : holds'[c][f] # holds[c][f] =>
            holds[c][f] = 0 /\ ~(holds'[c][f] \in DOMAIN open[c] /\ ~open[c][holds'[c][f]])
  <1>1. ASSUME IInv, Next PROVE Final
    <2>1. CASE AttachSome
      <3>1. PICK c \in Containers : Attach(c)
        BY <2>1 DEF AttachSome
      <3>2. PICK d \in Nat \ {0}, F \in SUBSET aso.todo, o \in BOOLEAN :
              /\ (d \in DOMAIN open[c] /\ open[c][d] = TRUE) \/ d = Len(open[c]) + 1
              /\ holds' = [holds EXCEPT ![c] = [f \in Files |-> IF f \in F THEN d ELSE holds[c][f]]]
              /\ open' = [open EXCEPT ![c] = [e \in DOMAIN open[c] \cup {d} |-> IF e = d THEN o ELSE open[c][e]]]
              /\ aso' = [aso EXCEPT !.todo = @ \ F] \/ aso' = Waits
              /\ \A f \in F : holds[c][f] = 0
        BY <1>1, <3>1, AttachFacts
      <3>3. d = Len(open[c]) + 1 => d \notin DOMAIN open[c]
        <4>1. PICK n \in Nat : n = Len(open[c]) /\ DOMAIN open[c] = 1..n
          BY <1>1 DEF IInv, Types
        <4> QED
          BY <4>1
      <3>4. ASSUME NEW k \in Containers, NEW f \in Files, holds'[k][f] # holds[k][f]
            PROVE  k = c /\ f \in F /\ holds'[k][f] = d
        BY <1>1, <3>2, <3>4 DEF IInv, Types
      <3> QED
        BY <3>2, <3>3, <3>4
    <2>2. CASE UNCHANGED holds
      BY <2>2
    <2>3. AttachSome \/ UNCHANGED holds
      BY <1>1 DEF Next, Step, Manager, Publisher, Others, AsoStarts, BuildContainers, AddReplicas,
         TellFailed, TellSubmitted, MoveLast, TellDone, BookLocks, CheckBlocks, TellComplete, BookBlocks,
         Clean, BookCleaned, PubStarts, ListDBS, PublishBlock, MarkFiles, PubStops, AsoStops, RunJob,
         Removes, AskPublication, Copies, rucio
    <2> QED
      BY <2>1, <2>2, <2>3
  <1>2. UNCHANGED vars => Final
    BY DEF vars, rucio
  <1>3. IInv /\ [Next]_vars => [Final]_vars
    BY <1>1
  <1> QED
    BY <1>3, Invariance, PTL DEF Spec, DatasetsAreFinal
===============================================================================
