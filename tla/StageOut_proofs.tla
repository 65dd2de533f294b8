---------------------------- MODULE StageOut_proofs ---------------------------
(* Proofs about the stage-out on the schedd, for any number of files, runs and *)
(* faults: what a post-job found transferred is the file of its run, and what  *)
(* the Publisher may take is described by its metadata (FilesAreRight); while  *)
(* nothing fails no submitted file is lost track of (SubmittedIsTracked).      *)
(*                                                                             *)
(* The state of a file is told on from FTS to the manager, from the manager to *)
(* the row, from the row to the shared cache and from there to the post-job,   *)
(* while the next run may begin at any time. The invariant says of each of     *)
(* these that "done" stands for the last run (RightOK): because a run that     *)
(* begins with nothing in flight (~Pending) keeps it so until its transfer is  *)
(* handed over, and a post-job that looks does not believe a cache from before.*)
EXTENDS StageOut, TLAPS

(* The types of the jobs of FTS, of the reports and variables of the manager,  *)
(* of the steps of a post-job and of a row.                                    *)
FileStates == {"active", "finished", "failed", "stuck"}
FtsJob == UNION {[D -> FileStates] : D \in SUBSET Files}
Reports == [job : Nat, done : SUBSET Files, failed : SUBSET Files]
MgrType ==
    [at : {"idle", "check", "submit", "mark", "move", "append"}, todo : SUBSET Nat, ongoing : SUBSET Nat,
     ended : SUBSET Nat, told : SUBSET Reports, new : SUBSET Nat, to : Nat]
Steps == {"idle", "inject", "update", "mark", "append", "monitor", "cancel", "staged", "flag", "done"}
RowType == [state : Statuses, publish : BOOLEAN]

(* What the post-jobs, the storage and the databases have, and the manager.    *)
PostTypes ==
    /\ run \in [Files -> Nat] /\ step \in [Files -> Steps] /\ error \subseteq Files /\ stale \subseteq Files
    /\ row \in [Files -> RowType] /\ metadata \in [Files -> Nat]
    /\ source \in [Files -> Nat] /\ dest \in [Files -> Nat]
    /\ cache \in [fresh : BOOLEAN, good : BOOLEAN, state : [Files -> Statuses]] /\ after \subseteq Files
    /\ transfers \in Seq(Files)

ManagerTypes ==
    /\ last \in Nat /\ jobids \subseteq Nat
    /\ content \in Seq(SUBSET Files) /\ fts \in Seq(FtsJob) /\ mgr \in MgrType

Types == PostTypes /\ ManagerTypes /\ bound \in Bounds /\ faults \in 0..bound.faults

(* The list of a job of FTS is of files of the job.                            *)
ListsOK ==
    /\ Len(content) = Len(fts)
    /\ \A i \in 1..Len(fts) : content[i] \subseteq DOMAIN fts[i]

(* The manager keeps to jobs and lines that exist; a job that it has just made *)
(* has all of its files in its list.                                           *)
ManagerOK ==
    /\ mgr.at = "idle" => mgr = Idle
    /\ jobids \subseteq 1..Len(fts) /\ mgr.todo \subseteq jobids /\ mgr.ongoing \subseteq jobids
    /\ mgr.at # "check" => mgr.told = {}
    /\ mgr.at \in {"check", "submit"} => mgr.new = {}
    /\ mgr.new \subseteq 1..Len(fts)
    /\ mgr.at = "mark" => mgr.new = {Len(fts)} /\ content[Len(fts)] = DOMAIN fts[Len(fts)]
    /\ last <= Len(transfers)
    /\ mgr.at \in {"mark", "move"} => last <= mgr.to /\ mgr.to <= Len(transfers)

(* No file comes from a run that is not the last one.                          *)
SourcesOK == \A f \in Files : run[f] <= bound.runs[f] /\ source[f] \in {0, run[f]}

(* While nothing fails, a job that ended, or is no longer followed, has no file*)
(* left in its list, and each row marked submitted is tracked.                 *)
NothingLost ==
    /\ \A i \in 1..Len(fts) : \A f \in DOMAIN fts[i] : fts[i][f] # "stuck"
    /\ mgr.at = "check" => \A i \in mgr.ended \cup (jobids \ mgr.ongoing) : i \in 1..Len(fts) => content[i] = {}
    /\ \A f \in Files : row[f].state = "submitted" => Tracked(f)

(* Where a post-job asks for the transfer, where it looks for it, and where it *)
(* has found it.                                                               *)
Asking == {"inject", "update", "mark", "append"}
Looking == {"monitor", "cancel", "staged", "flag", "done"}
Staged == {"staged", "flag", "done"}

(* What was copied for this run, if its job was not run too early: the file of *)
(* this run is at the destination as soon as FTS, the manager, the row or the  *)
(* cache says so to a post-job that looks.                                     *)
Copied(f) == dest[f] = run[f]
RightOK(f) ==
    /\ \A i \in 1..Len(fts) : f \in content[i] /\ fts[i][f] = "finished" => Copied(f)
    /\ \A e \in mgr.told : f \in e.done => Copied(f)
    /\ step[f] \in Asking => ~Pending(f)
    /\ step[f] \in {"mark", "append"} /\ f \notin error => row[f].state = "new"
    /\ step[f] \in Looking =>
        /\ row[f].state = "done" => Copied(f)
        /\ f \in after /\ cache.state[f] = "done" => Copied(f)
    /\ step[f] \in Staged => Copied(f)

(* What the row offers is described, and will be when it is copied again.      *)
OfferOK(f) ==
    /\ step[f] = "flag" => metadata[f] = run[f]
    /\ row[f].publish /\ step[f] # "done" => faults >= 1
    /\ faults <= 1 =>
        /\ step[f] \in {"mark", "append"} => ~row[f].publish
        /\ row[f].publish => metadata[f] = dest[f]
        /\ row[f].publish /\ Pending(f) => metadata[f] = run[f]

(* The inductive invariant.                                                    *)
IInv ==
    /\ Types /\ ListsOK /\ ManagerOK /\ SourcesOK
    /\ faults = 0 => NothingLost
    /\ \A f \in Files \ stale : RightOK(f) /\ OfferOK(f)

-------------------------------------------------------------------------------
(* What stays true.                                                            *)

(* The bounds of a behaviour.                                                  *)
LEMMA BoundsAreNumbers ==
    ASSUME bound \in Bounds
    PROVE  bound.faults \in Nat /\ bound.runs \in [Files -> Nat]
  BY StageOutAssumption

(* A call fails, or none does.                                                 *)
MayFail == Fault \/ UNCHANGED faults

(* The number of faults keeps its bound, and does not decrease.                *)
LEMMA FaultsCount ==
    ASSUME Types, MayFail, UNCHANGED bound
    PROVE  /\ bound' \in Bounds /\ faults' \in 0..bound'.faults
           /\ faults \in Nat /\ faults' \in Nat /\ faults <= faults'
           /\ (Fault => faults' >= 1 /\ faults' = faults + 1)
  BY BoundsAreNumbers DEF Types, MayFail, Fault

(* Of the file only what the manager and FTS make of it may change: a row they *)
(* write is of a file in flight, and says done when it was copied.             *)
RowTold(f) ==
    /\ row'[f].publish = row[f].publish
    /\ \/ row'[f].state = row[f].state
       \/ Pending(f) /\ (row'[f].state = "done" => Copied(f))

FileSame(f) ==
    /\ run'[f] = run[f] /\ step'[f] = step[f] /\ (f \in error' <=> f \in error)
    /\ metadata'[f] = metadata[f] /\ dest'[f] = dest[f] /\ RowTold(f)

(* A new cache says what the rows say.                                         *)
CacheSame(f) ==
    f \in after' /\ cache'.state[f] = "done" =>
        \/ row[f].state = "done"
        \/ f \in after /\ cache.state[f] = "done"

(* Nothing goes into flight, and what ended well was copied.                   *)
FlightSame(f) ==
    /\ Pending(f)' => Pending(f)
    /\ \A i \in 1..Len(fts') : f \in content'[i] /\ fts'[i][f] = "finished" => Copied(f)
    /\ \A e \in mgr'.told : f \in e.done => Copied(f)

(* Then what is known of the file is still so.                                 *)
LEMMA FileKeeps ==
    ASSUME Types, NEW f \in Files, RightOK(f), OfferOK(f), FileSame(f), CacheSame(f), FlightSame(f),
           MayFail, UNCHANGED bound
    PROVE  RightOK(f)' /\ OfferOK(f)'
  <1>1. faults \in Nat /\ faults' \in Nat /\ faults <= faults'
    BY FaultsCount
  <1>2. Copied(f)' <=> Copied(f)
    BY DEF FileSame, Copied
  <1>3. RightOK(f)'
    <2>1. step'[f] \in Asking => ~Pending(f)
      BY DEF RightOK, FileSame
    <2>2. step'[f] \in {"mark", "append"} /\ f \notin error' => row'[f].state = "new"
      BY <2>1 DEF RightOK, FileSame, RowTold, Asking
    <2>3. step'[f] \in Looking => (row'[f].state = "done" => Copied(f))
      BY DEF RightOK, FileSame, RowTold
    <2>4. step'[f] \in Looking => (f \in after' /\ cache'.state[f] = "done" => Copied(f))
      BY DEF RightOK, FileSame, CacheSame
    <2>5. step'[f] \in Staged => Copied(f)
      BY DEF RightOK, FileSame
    <2> QED
      BY <1>2, <2>1, <2>2, <2>3, <2>4, <2>5 DEF RightOK, FlightSame
  <1>4. OfferOK(f)'
    BY <1>1 DEF OfferOK, FileSame, RowTold, FlightSame
  <1> QED
    BY <1>3, <1>4

(* Nothing changes for the manager and its jobs.                               *)
LEMMA FlightStays ==
    ASSUME UNCHANGED <<managed, fts, transfers>>, NEW f \in Files, RightOK(f)
    PROVE  FlightSame(f)
  BY DEF FlightSame, RightOK, Pending, managed

(* A line more in transfers.txt, of another file.                              *)
LEMMA FlightOfOthers ==
    ASSUME Types, ManagerOK, UNCHANGED <<managed, fts>>, NEW g \in Files, transfers' = Append(transfers, g),
           NEW f \in Files \ {g}, RightOK(f)
    PROVE  FlightSame(f)
  <1>1. ASSUME NEW k \in last' + 1..Len(transfers'), transfers'[k] = f
        PROVE  k \in last + 1..Len(transfers) /\ transfers[k] = f
    <2>1. last' = last /\ last \in Nat /\ transfers \in Seq(Files) /\ Len(transfers) \in Nat
      BY DEF Types, PostTypes, ManagerTypes, managed
    <2>2. /\ Len(transfers') = Len(transfers) + 1 /\ transfers'[Len(transfers) + 1] = g
          /\ \A a \in 1..Len(transfers) : transfers'[a] = transfers[a]
      BY <2>1
    <2> QED
      BY <1>1, <2>1, <2>2
  <1>2. Pending(f)' => Pending(f)
    BY <1>1 DEF Pending, managed
  <1> QED
    BY <1>2 DEF FlightSame, RightOK, managed

(* A step of the post-job of f: the manager and its jobs are left alone.       *)
PostStep(f) ==
    /\ UNCHANGED <<managed, fts, bound, dest>> /\ MayFail /\ PostTypes' /\ SourcesOK'
    /\ transfers' \in {transfers, Append(transfers, f)} /\ stale \subseteq stale'
    /\ \A g \in Files \ {f} : FileSame(g) /\ CacheSame(g) /\ row'[g] = row[g]
    /\ row'[f].state = "submitted" => row[f].state = "submitted"

(* It keeps the invariant if it keeps what is known of f.                      *)
LEMMA PostKeeps ==
    ASSUME IInv, NEW f \in Files, PostStep(f), f \notin stale' => RightOK(f)' /\ OfferOK(f)'
    PROVE  IInv'
  <1>1. Types'
    BY FaultsCount DEF IInv, Types, PostStep, ManagerTypes, managed
  <1>2. ListsOK' /\ ManagerOK'
    <2>1. Len(transfers) \in Nat /\ Len(transfers') \in Nat /\ Len(transfers) <= Len(transfers')
      BY DEF IInv, Types, PostTypes, PostStep
    <2> QED
      BY <2>1 DEF IInv, Types, ManagerTypes, MgrType, ListsOK, ManagerOK, PostStep, managed
  <1>3. faults' = 0 => NothingLost'
    <2>1. faults' = 0 => faults = 0
      BY FaultsCount DEF IInv, PostStep
    <2>2. \A g \in Files : row'[g].state = "submitted" => row[g].state = "submitted"
      BY DEF PostStep
    <2>3. \A g \in Files : Tracked(g) => Tracked(g)'
      BY DEF PostStep, Tracked, managed
    <2> QED
      BY <2>1, <2>2, <2>3 DEF IInv, NothingLost, PostStep, managed
  <1>4. ASSUME NEW g \in Files \ stale' PROVE RightOK(g)' /\ OfferOK(g)'
    <2>1. CASE g = f
      BY <2>1
    <2>2. CASE g # f
      <3>1. RightOK(g) /\ OfferOK(g)
        BY DEF IInv, PostStep
      <3>2. FlightSame(g)
        BY <2>2, <3>1, FlightStays, FlightOfOthers DEF IInv, PostStep
      <3> QED
        BY <2>2, <3>1, <3>2, FileKeeps DEF IInv, PostStep
    <2> QED
      BY <2>1, <2>2
  <1> QED
    BY <1>1, <1>2, <1>3, <1>4 DEF IInv, PostStep

-------------------------------------------------------------------------------
(* The steps of the post-jobs.                                                 *)

(* Only what one post-job has of its file changes, and perhaps the cache.      *)
LEMMA OthersSame ==
    ASSUME Types, NEW f \in Files, NEW g \in Files \ {f},
           UNCHANGED dest, \E n : run' = [run EXCEPT ![f] = n], \E s : step' = [step EXCEPT ![f] = s],
           \E r : row' = [row EXCEPT ![f] = r], \E m : metadata' = [metadata EXCEPT ![f] = m],
           error' \cup {f} = error \cup {f}
    PROVE  FileSame(g) /\ row'[g] = row[g]
  BY DEF Types, PostTypes, FileSame, RowTold

(* Variables that stay what they are, in the form of the lemma.                *)
LEMMA NothingChanges ==
    ASSUME Types, NEW f \in Files
    PROVE  /\ run = [run EXCEPT ![f] = run[f]] /\ row = [row EXCEPT ![f] = row[f]]
           /\ metadata = [metadata EXCEPT ![f] = metadata[f]] /\ step = [step EXCEPT ![f] = step[f]]
  BY DEF Types, PostTypes

(* A file that is not in flight is in no list.                                 *)
LEMMA NotListed ==
    ASSUME Types, ListsOK, NEW f \in Files, ~Pending(f)
    PROVE  /\ \A i \in 1..Len(fts) : f \notin content[i]
           /\ \A e \in mgr.told : f \notin e.done \cup e.failed
  <1>1. DOMAIN fts = 1..Len(fts)
    BY DEF Types, ManagerTypes
  <1> QED
    BY <1>1 DEF ListsOK, Pending

(* A run begins: late if a transfer of the run before is still going on.       *)
LEMMA RunJobKeeps ==
    ASSUME IInv, NEW f \in Files, RunJob(f), UNCHANGED bound
    PROVE  IInv'
  <1>1. Types
    BY DEF IInv
  <1> DEFINE n == run[f] + 1
  <1>2. /\ run' = [run EXCEPT ![f] = n] /\ source' = [source EXCEPT ![f] = n]
        /\ n \in Nat /\ run[f] < bound.runs[f] /\ bound.runs[f] \in Nat
    BY <1>1, BoundsAreNumbers DEF RunJob, Types, PostTypes
  <1> HIDE DEF n
  <1>3. /\ UNCHANGED <<dest, row, metadata, error, cache, after, transfers>>
        /\ step' = [step EXCEPT ![f] = "inject"] /\ stale' \in {stale, stale \cup {f}}
    BY DEF RunJob, databases, cached
  <1>4. PostTypes'
    <2>1. run' \in [Files -> Nat] /\ source' \in [Files -> Nat]
      BY <1>1, <1>2 DEF Types, PostTypes
    <2>2. step' \in [Files -> Steps]
      BY <1>1, <1>3 DEF Types, PostTypes, Steps
    <2>3. stale' \subseteq Files
      BY <1>1, <1>3 DEF Types, PostTypes
    <2> QED
      BY <1>1, <1>3, <2>1, <2>2, <2>3 DEF Types, PostTypes
  <1>5. SourcesOK'
    <2> SUFFICES ASSUME NEW g \in Files PROVE run'[g] <= bound.runs[g] /\ source'[g] \in {0, run'[g]}
      BY DEF SourcesOK
    <2>1. CASE g = f
      <3>1. run'[f] = n /\ source'[f] = n /\ n <= bound.runs[f]
        BY <1>1, <1>2 DEF n, Types, PostTypes
      <3> QED
        BY <2>1, <3>1
    <2>2. CASE g # f
      <3>1. run'[g] = run[g] /\ source'[g] = source[g]
        BY <1>1, <1>2, <2>2 DEF Types, PostTypes
      <3> QED
        BY <3>1 DEF IInv, SourcesOK
    <2> QED
      BY <2>1, <2>2
  <1>6. \A g \in Files \ {f} : FileSame(g) /\ CacheSame(g) /\ row'[g] = row[g]
    <2>1. (\E r : row' = [row EXCEPT ![f] = r]) /\ \E m : metadata' = [metadata EXCEPT ![f] = m]
      BY <1>1, <1>3, NothingChanges
    <2>2. (\E k : run' = [run EXCEPT ![f] = k]) /\ \E s : step' = [step EXCEPT ![f] = s]
      BY <1>2, <1>3
    <2>3. \A g \in Files \ {f} : FileSame(g) /\ row'[g] = row[g]
      BY <1>1, <1>3, <2>1, <2>2, OthersSame
    <2> QED
      BY <1>3, <2>3 DEF CacheSame
  <1>7. PostStep(f)
    BY <1>4, <1>5, <1>6 DEF PostStep, MayFail, RunJob, databases
  <1>8. ASSUME f \notin stale' PROVE RightOK(f)' /\ OfferOK(f)'
    <2>1. f \notin stale /\ ~Pending(f) /\ ~Pending(f)'
      BY <1>8 DEF RunJob, Pending, managed
    <2>2. step'[f] = "inject" /\ step[f] = "idle"
      BY <1>1 DEF RunJob, Types, PostTypes
    <2>3. RightOK(f) /\ OfferOK(f)
      BY <2>1 DEF IInv
    <2>4. /\ \A i \in 1..Len(fts) : f \notin content[i]
          /\ \A e \in mgr.told : f \notin e.done \cup e.failed
      BY <1>1, <2>1, NotListed DEF IInv
    <2>6. RightOK(f)'
      BY <2>1, <2>2, <2>4 DEF RightOK, Looking, Staged, RunJob, managed
    <2>5. OfferOK(f)'
      BY <2>1, <2>2, <2>3 DEF OfferOK, RunJob, databases
    <2> QED
      BY <2>5, <2>6
  <1> QED
    BY <1>7, <1>8, PostKeeps

(* The last lemma, for the steps of a post-job that change neither run nor     *)
(* source: what they do to the cache is told of all files.                     *)
PostMoves(f) ==
    /\ UNCHANGED <<run, source, dest, stale, managed, fts, bound>> /\ MayFail
    /\ \E s \in Steps : step' = [step EXCEPT ![f] = s]
    /\ \E r \in RowType : row' = [row EXCEPT ![f] = r]
    /\ \E m \in Nat : metadata' = [metadata EXCEPT ![f] = m]
    /\ error' \subseteq Files /\ error' \cup {f} = error \cup {f}
    /\ row'[f].state = "submitted" => row[f].state = "submitted"
    /\ cache' \in [fresh : BOOLEAN, good : BOOLEAN, state : [Files -> Statuses]]
    /\ after' \subseteq Files /\ \A g \in Files : CacheSame(g)
    /\ transfers' \in {transfers, Append(transfers, f)}

(* It keeps the invariant if it keeps what is known of its file.               *)
LEMMA MovesKeep ==
    ASSUME IInv, NEW f \in Files, PostMoves(f), f \notin stale => RightOK(f)' /\ OfferOK(f)'
    PROVE  IInv'
  <1>1. Types
    BY DEF IInv
  <1>2. PostTypes'
    <2>1. transfers' \in Seq(Files)
      <3>1. transfers \in Seq(Files) /\ transfers' \in {transfers, Append(transfers, f)}
        BY <1>1 DEF Types, PostTypes, PostMoves
      <3> QED
        BY <3>1
    <2>2. run' \in [Files -> Nat] /\ source' \in [Files -> Nat] /\ dest' \in [Files -> Nat]
      BY <1>1 DEF Types, PostTypes, PostMoves
    <2>3. step' \in [Files -> Steps] /\ row' \in [Files -> RowType] /\ metadata' \in [Files -> Nat]
      BY <1>1 DEF Types, PostTypes, PostMoves
    <2> QED
      BY <1>1, <2>1, <2>2, <2>3 DEF Types, PostTypes, PostMoves
  <1>3. \A g \in Files \ {f} : FileSame(g) /\ row'[g] = row[g]
    <2>1. \E n : run' = [run EXCEPT ![f] = n]
      BY <1>1, NothingChanges DEF PostMoves
    <2>2. \E s : step' = [step EXCEPT ![f] = s]
      BY DEF PostMoves
    <2>3. \E r : row' = [row EXCEPT ![f] = r]
      BY DEF PostMoves
    <2>4. \E m : metadata' = [metadata EXCEPT ![f] = m]
      BY DEF PostMoves
    <2>5. UNCHANGED dest /\ error' \cup {f} = error \cup {f}
      BY DEF PostMoves
    <2> QED
      BY <1>1, <2>1, <2>2, <2>3, <2>4, <2>5, OthersSame
  <1>4. SourcesOK'
    BY DEF IInv, SourcesOK, PostMoves
  <1>5. PostStep(f)
    BY <1>2, <1>3, <1>4 DEF PostStep, PostMoves
  <1> QED
    BY <1>5, PostKeeps DEF PostMoves

(* When the cache is left alone, or a file is taken from the list of those that*)
(* it can be used for, it says no more than before.                            *)
LEMMA CacheStays ==
    ASSUME UNCHANGED cache, after' \subseteq after
    PROVE  \A g \in Files : CacheSame(g)
  BY DEF CacheSame

(* What the row says of a file once it is requested, or read.                  *)
LEMMA Rows ==
    ASSUME Types, NEW f \in Files
    PROVE  /\ row[f] \in RowType /\ Requested(f) \in RowType
           /\ [row[f] EXCEPT !.state = "new"] \in RowType /\ [row[f] EXCEPT !.state = "kill"] \in RowType
           /\ [row[f] EXCEPT !.publish = TRUE] \in RowType
           /\ row = [row EXCEPT ![f] = row[f]]
  <1>1. row \in [Files -> RowType]
    BY DEF Types, PostTypes
  <1>2. row[f] \in RowType
    BY <1>1
  <1>3. row = [row EXCEPT ![f] = row[f]]
    BY <1>1
  <1> QED
    BY <1>2, <1>3 DEF RowType, Requested, Statuses

(* The post-job looks for a row, and is to write it, or fails.                 *)
LEMMA InjectKeeps ==
    ASSUME IInv, NEW f \in Files, Inject(f), UNCHANGED bound
    PROVE  IInv'
  <1>1. Types /\ ListsOK
    BY DEF IInv
  <1>2. PostMoves(f)
    <2>1. /\ \E s \in Steps : step' = [step EXCEPT ![f] = s]
          /\ error' \subseteq Files /\ error' \cup {f} = error \cup {f}
          /\ MayFail
      BY <1>1 DEF Inject, Goes, Steps, MayFail, Types, PostTypes
    <2>2. /\ UNCHANGED <<run, source, dest, stale, managed, fts, row, metadata, cache, after, transfers>>
      BY DEF Inject, databases, storage, cached
    <2>3. \E r \in RowType : row' = [row EXCEPT ![f] = r]
      BY <1>1, <2>2, Rows
    <2>4. \E m \in Nat : metadata' = [metadata EXCEPT ![f] = m]
      BY <1>1, <2>2, NothingChanges DEF Types, PostTypes
    <2>5. \A g \in Files : CacheSame(g)
      BY <2>1, <2>2, CacheStays
    <2>6. cache' \in [fresh : BOOLEAN, good : BOOLEAN, state : [Files -> Statuses]] /\ after' \subseteq Files
      BY <1>1, <2>1, <2>2 DEF Types, PostTypes
    <2> QED
      BY <2>1, <2>2, <2>3, <2>4, <2>5, <2>6 DEF PostMoves
  <1>3. ASSUME f \notin stale PROVE RightOK(f)' /\ OfferOK(f)'
    <2>1. RightOK(f) /\ OfferOK(f) /\ ~Pending(f)
      BY <1>3, <1>1 DEF IInv, Inject, RightOK, Asking
    <2>2. ~Pending(f)' /\ (\A i \in 1..Len(fts) : f \notin content[i]) /\ \A e \in mgr.told : f \notin e.done
      BY <1>1, <2>1, NotListed DEF Inject, Pending, managed
    <2>3. step' \in [Files -> Steps] /\ step'[f] \in {"idle", "update"}
      BY <1>1 DEF Inject, Goes, Types, PostTypes, Steps
    <2>5. RightOK(f)'
      BY <2>2, <2>3 DEF RightOK, Asking, Looking, Staged, Inject, databases, managed
    <2>6. faults \in Nat /\ faults' \in Nat /\ faults <= faults'
      BY <1>1, <1>2, FaultsCount DEF PostMoves
    <2>7. OfferOK(f)'
      BY <2>1, <2>2, <2>3, <2>6 DEF OfferOK, Inject, databases, storage
    <2> QED
      BY <2>5, <2>7
  <1> QED
    BY <1>2, <1>3, MovesKeep

(* What is to be known of a file after a step of its post-job.                 *)
OwnRight(f) ==
    /\ step'[f] \in Asking => ~Pending(f)
    /\ step'[f] \in {"mark", "append"} /\ f \notin error' => row'[f].state = "new"
    /\ step'[f] \in Looking => /\ row'[f].state = "done" => Copied(f)
                               /\ f \in after' /\ cache'.state[f] = "done" => Copied(f)
    /\ step'[f] \in Staged => Copied(f)

OwnOffer(f) ==
    /\ step'[f] = "flag" => metadata'[f] = run[f]
    /\ row'[f].publish /\ step'[f] # "done" => faults' >= 1
    /\ faults' <= 1 =>
        /\ step'[f] \in {"mark", "append"} => ~row'[f].publish
        /\ row'[f].publish => metadata'[f] = dest[f]
        /\ row'[f].publish /\ Pending(f) => metadata'[f] = run[f]

(* A step without a new line keeps the invariant, if this is known.            *)
LEMMA OwnKeeps ==
    ASSUME IInv, NEW f \in Files, PostMoves(f), UNCHANGED transfers,
           f \notin stale => OwnRight(f) /\ OwnOffer(f)
    PROVE  IInv'
  <1>1. ASSUME f \notin stale PROVE RightOK(f)' /\ OfferOK(f)'
    <2>1. RightOK(f) /\ (Pending(f)' <=> Pending(f)) /\ (Copied(f)' <=> Copied(f))
      BY <1>1 DEF IInv, PostMoves, Pending, managed, Copied
    <2>2. RightOK(f)'
      BY <1>1, <2>1 DEF RightOK, OwnRight, PostMoves, managed
    <2>3. OfferOK(f)'
      BY <1>1, <2>1 DEF OfferOK, OwnOffer, PostMoves
    <2> QED
      BY <2>2, <2>3
  <1> QED
    BY <1>1, MovesKeep

(* What is known of a file before.                                             *)
Before(f) ==
    /\ OfferOK(f)
    /\ step[f] \in Asking => ~Pending(f)
    /\ step[f] \in {"mark", "append"} /\ f \notin error => row[f].state = "new"
    /\ step[f] \in Looking => /\ row[f].state = "done" => Copied(f)
                              /\ f \in after /\ cache.state[f] = "done" => Copied(f)
    /\ step[f] \in Staged => Copied(f)

(* The invariant says so of a file whose job was not run too early.            *)
LEMMA KnownBefore ==
    ASSUME IInv, NEW f \in Files, f \notin stale
    PROVE  Before(f)
  BY DEF IInv, RightOK, Before

(* The row is written: asked for anew, and not to be published yet.            *)
LEMMA UpdateDocKeeps ==
    ASSUME IInv, NEW f \in Files, UpdateDoc(f), UNCHANGED bound
    PROVE  IInv'
  <1>1. Types
    BY DEF IInv
  <1>2. PICK landed \in BOOLEAN, answered \in BOOLEAN :
          /\ row' = IF landed THEN [row EXCEPT ![f] = Requested(f)] ELSE row
          /\ error' = IF answered THEN error ELSE error \cup {f}
          /\ IF landed /\ answered THEN UNCHANGED faults ELSE Fault /\ ~answered
    BY DEF UpdateDoc
  <1>3. MayFail /\ UNCHANGED <<run, source, dest, stale, managed, fts, metadata, cache, after, transfers>>
    BY <1>2 DEF UpdateDoc, MayFail, storage, cached
  <1>4. /\ faults \in Nat /\ faults' \in Nat /\ faults <= faults' /\ (Fault => faults' = faults + 1)
    BY <1>1, <1>3, FaultsCount
  <1>5. step' = [step EXCEPT ![f] = "mark"] /\ step'[f] = "mark" /\ step[f] = "update"
    BY <1>1 DEF UpdateDoc, Goes, Types, PostTypes
  <1>6. /\ row'[f] = IF landed THEN Requested(f) ELSE row[f]
        /\ \E r \in RowType : row' = [row EXCEPT ![f] = r]
    BY <1>1, <1>2, Rows DEF Types, PostTypes
  <1>7. PostMoves(f)
    <2>1. \E s \in Steps : step' = [step EXCEPT ![f] = s]
      BY <1>5 DEF Steps
    <2>2. \E m \in Nat : metadata' = [metadata EXCEPT ![f] = m]
      BY <1>1, <1>3, NothingChanges DEF Types, PostTypes
    <2>3. error' \subseteq Files /\ error' \cup {f} = error \cup {f}
      BY <1>1, <1>2 DEF Types, PostTypes
    <2>4. row'[f].state = "submitted" => row[f].state = "submitted"
      BY <1>6 DEF Requested
    <2>5. \A g \in Files : CacheSame(g)
      BY <1>3, CacheStays
    <2>6. cache' \in [fresh : BOOLEAN, good : BOOLEAN, state : [Files -> Statuses]] /\ after' \subseteq Files
      BY <1>1, <1>3 DEF Types, PostTypes
    <2> QED
      BY <1>3, <1>6, <2>1, <2>2, <2>3, <2>4, <2>5, <2>6 DEF PostMoves
  <1>8. ASSUME f \notin stale PROVE OwnRight(f) /\ OwnOffer(f)
    <2>1. Before(f)
      BY <1>8, KnownBefore
    <2>2. OwnRight(f)
      BY <1>2, <1>5, <1>6, <2>1 DEF OwnRight, Before, Asking, Looking, Staged, Requested
    <2>3. OwnOffer(f)
      BY <1>2, <1>3, <1>4, <1>5, <1>6, <2>1 DEF OwnOffer, Before, OfferOK, Asking, Requested
    <2> QED
      BY <2>2, <2>3
  <1> QED
    BY <1>3, <1>7, <1>8, OwnKeeps

(* The state is written once more.                                             *)
LEMMA MarkNewKeeps ==
    ASSUME IInv, NEW f \in Files, MarkNew(f), UNCHANGED bound
    PROVE  IInv'
  <1>1. Types
    BY DEF IInv
  <1>2. PICK landed \in BOOLEAN, answered \in BOOLEAN :
          /\ row' = IF landed /\ row[f] # NoRow THEN [row EXCEPT ![f].state = "new"] ELSE row
          /\ error' = IF answered THEN error ELSE error \cup {f}
          /\ IF landed /\ answered THEN UNCHANGED faults ELSE Fault /\ ~answered
    BY DEF MarkNew
  <1>3. MayFail /\ UNCHANGED <<run, source, dest, stale, managed, fts, metadata, cache, after, transfers>>
    BY <1>2 DEF MarkNew, MayFail, storage, cached
  <1>4. /\ faults \in Nat /\ faults' \in Nat /\ faults <= faults' /\ (Fault => faults' = faults + 1)
    BY <1>1, <1>3, FaultsCount
  <1>5. step' = [step EXCEPT ![f] = "append"] /\ step'[f] = "append" /\ step[f] = "mark"
    BY <1>1 DEF MarkNew, Goes, Types, PostTypes
  <1>6. /\ row'[f] \in {row[f], [row[f] EXCEPT !.state = "new"]}
        /\ \E r \in RowType : row' = [row EXCEPT ![f] = r]
    BY <1>1, <1>2, Rows DEF Types, PostTypes
  <1>7. row'[f].publish = row[f].publish /\ row'[f].state \in {row[f].state, "new"}
    BY <1>1, <1>6, Rows DEF RowType
  <1>8. PostMoves(f)
    <2>1. \E m \in Nat : metadata' = [metadata EXCEPT ![f] = m]
      BY <1>1, <1>3, NothingChanges DEF Types, PostTypes
    <2>2. error' \subseteq Files /\ error' \cup {f} = error \cup {f}
      BY <1>1, <1>2 DEF Types, PostTypes
    <2>3. "append" \in Steps
      BY DEF Steps
    <2> QED
      BY <1>1, <1>3, <1>5, <1>6, <1>7, <2>1, <2>2, <2>3, CacheStays DEF PostMoves, Types, PostTypes
  <1>9. ASSUME f \notin stale PROVE OwnRight(f) /\ OwnOffer(f)
    <2>1. Before(f)
      BY <1>9, KnownBefore
    <2>2. OwnRight(f)
      BY <1>2, <1>5, <1>7, <2>1 DEF OwnRight, Before, Asking, Looking, Staged
    <2>3. OwnOffer(f)
      BY <1>3, <1>4, <1>5, <1>7, <2>1 DEF OwnOffer, Before, OfferOK, Asking
    <2> QED
      BY <2>2, <2>3
  <1> QED
    BY <1>3, <1>8, <1>9, OwnKeeps

(* A line more: the file is in flight from now on, with the row new, unless    *)
(* something has failed and the post-job ends.                                 *)
LEMMA HandOverKeeps ==
    ASSUME IInv, NEW f \in Files, HandOver(f), UNCHANGED bound
    PROVE  IInv'
  <1>1. Types /\ ListsOK
    BY DEF IInv
  <1>2. UNCHANGED <<run, error, row, metadata, source, dest, stale, managed, fts, cache, faults>>
    BY DEF HandOver, databases, storage
  <1>3. /\ step[f] = "append" /\ transfers' = Append(transfers, f) /\ after' \subseteq after
        /\ \/ f \in error /\ step' = [step EXCEPT ![f] = "idle"] /\ step'[f] = "idle"
           \/ f \notin error /\ step' = [step EXCEPT ![f] = "monitor"] /\ step'[f] = "monitor"
              /\ f \notin after'
    BY <1>1 DEF HandOver, Goes, Monitored, Types, PostTypes
  <1>4. PostMoves(f)
    <2>1. \E m \in Nat : metadata' = [metadata EXCEPT ![f] = m]
      BY <1>1, <1>2, NothingChanges DEF Types, PostTypes
    <2>2. \E r \in RowType : row' = [row EXCEPT ![f] = r]
      BY <1>1, <1>2, Rows
    <2>3. {"idle", "monitor"} \subseteq Steps
      BY DEF Steps
    <2> QED
      BY <1>1, <1>2, <1>3, <2>1, <2>2, <2>3, CacheStays DEF PostMoves, MayFail, Types, PostTypes
  <1>5. ASSUME f \notin stale PROVE RightOK(f)' /\ OfferOK(f)'
    <2>1. Before(f) /\ RightOK(f)
      BY <1>5, KnownBefore DEF IInv
    <2>2. RightOK(f)'
      BY <1>2, <1>3, <2>1 DEF RightOK, Before, Asking, Looking, Staged, Copied, managed
    <2>3. OfferOK(f)'
      BY <1>2, <1>3, <2>1 DEF OfferOK, Before
    <2> QED
      BY <2>2, <2>3
  <1> QED
    BY <1>4, <1>5, MovesKeep

(* The answer is that of the row, or of a cache from after the request.        *)
LEMMA StatusSays ==
    ASSUME Types, NEW f \in Files, NEW s, GetStatus(f, s)
    PROVE  /\ cache' \in [fresh : BOOLEAN, good : BOOLEAN, state : [Files -> Statuses]]
           /\ after' \subseteq Files /\ MayFail
           /\ \A g \in Files : CacheSame(g)
           /\ s = "done" => row[f].state = "done" \/ (f \in after /\ cache.state[f] = "done")
  <1>1. /\ cache \in [fresh : BOOLEAN, good : BOOLEAN, state : [Files -> Statuses]]
        /\ after \subseteq Files /\ row \in [Files -> RowType]
    BY DEF Types, PostTypes
  <1>2. \A g \in Files : row[g].state \in Statuses
    BY <1>1 DEF RowType
  <1>3. CASE UNCHANGED <<cached, faults>>
    <2>1. s = "done" => (f \in after /\ cache.state[f] = "done") \/ row[f].state = "done"
      BY <1>3, <1>1 DEF GetStatus, CacheIsUsed, cached
    <2> QED
      BY <1>1, <1>3, <2>1 DEF cached, MayFail, CacheSame
  <1>4. CASE /\ after' = Files /\ s = row[f].state /\ UNCHANGED faults
             /\ cache' = [fresh |-> TRUE, good |-> TRUE, state |-> [g \in Files |-> row[g].state]]
    BY <1>1, <1>2, <1>4 DEF MayFail, CacheSame
  <1>5. CASE /\ after' = Files /\ s = "unknown" /\ Fault
             /\ cache' = [fresh |-> TRUE, good |-> FALSE, state |-> [g \in Files |-> "none"]]
    BY <1>5 DEF MayFail, CacheSame, Statuses
  <1> QED
    BY <1>3, <1>4, <1>5 DEF GetStatus

(* The post-job looks for its transfer, and goes on, is deferred or cancels.   *)
LEMMA LooksKeep ==
    ASSUME IInv, NEW f \in Files, CheckTransfers(f) \/ TimesOut(f), UNCHANGED bound
    PROVE  IInv'
  <1>1. Types
    BY DEF IInv
  <1>2. PICK s \in Statuses :
          /\ GetStatus(f, s) /\ step[f] = "monitor"
          /\ \/ s = "done" /\ Goes(f, "staged")
             \/ s \in {"failed", "kill"} /\ Goes(f, "idle")
             \/ UNCHANGED step
             \/ Goes(f, "cancel")
    BY DEF CheckTransfers, TimesOut, WaitStates, Statuses
  <1>3. UNCHANGED <<run, error, row, metadata, source, dest, stale, managed, fts, transfers>>
    BY DEF CheckTransfers, TimesOut, databases, storage
  <1>4. PICK t \in {"idle", "monitor", "cancel", "staged"} :
          step' = [step EXCEPT ![f] = t] /\ step'[f] = t /\ (t = "staged" => s = "done")
    BY <1>1, <1>2, NothingChanges DEF Goes, Types, PostTypes
  <1>5. PostMoves(f)
    <2>1. \E m \in Nat : metadata' = [metadata EXCEPT ![f] = m]
      BY <1>1, <1>3, NothingChanges DEF Types, PostTypes
    <2>2. \E r \in RowType : row' = [row EXCEPT ![f] = r]
      BY <1>1, <1>3, Rows
    <2>3. t \in Steps /\ error \subseteq Files
      BY <1>1 DEF Steps, Types, PostTypes
    <2> QED
      BY <1>1, <1>2, <1>3, <1>4, <2>1, <2>2, <2>3, StatusSays DEF PostMoves
  <1>6. ASSUME f \notin stale PROVE OwnRight(f) /\ OwnOffer(f)
    <2>1. Before(f)
      BY <1>6, KnownBefore
    <2>2. /\ row[f].state = "done" => Copied(f)
          /\ f \in after /\ cache.state[f] = "done" => Copied(f)
      BY <1>2, <2>1 DEF Before, Looking
    <2>3. s = "done" => Copied(f)
      BY <1>1, <1>2, <2>2, StatusSays
    <2>4. f \in after' /\ cache'.state[f] = "done" => Copied(f)
      BY <1>1, <1>2, <2>2, StatusSays DEF CacheSame
    <2>5. OwnRight(f)
      BY <1>3, <1>4, <2>2, <2>3, <2>4 DEF OwnRight, Asking, Looking, Staged
    <2>6. faults \in Nat /\ faults' \in Nat /\ faults <= faults'
      BY <1>1, <1>5, FaultsCount DEF PostMoves
    <2>7. OwnOffer(f)
      BY <1>2, <1>3, <1>4, <2>1, <2>6 DEF OwnOffer, Before, OfferOK
    <2> QED
      BY <2>5, <2>7
  <1> QED
    BY <1>3, <1>5, <1>6, OwnKeeps

(* A row is cancelled only while it is new; the job ends.                      *)
LEMMA CancelKeeps ==
    ASSUME IInv, NEW f \in Files, Cancel(f), UNCHANGED bound
    PROVE  IInv'
  <1>1. Types
    BY DEF IInv
  <1>2. MayFail /\ UNCHANGED <<run, error, metadata, source, dest, stale, managed, fts, cache, after, transfers>>
    BY DEF Cancel, MayFail, storage, cached
  <1>3. step' = [step EXCEPT ![f] = "idle"] /\ step'[f] = "idle" /\ step[f] = "cancel"
    BY <1>1 DEF Cancel, Goes, Types, PostTypes
  <1>4. PICK r \in {row[f], [row[f] EXCEPT !.state = "kill"]} : row' = [row EXCEPT ![f] = r]
    BY <1>1, Rows DEF Cancel
  <1>5. /\ r \in RowType /\ row'[f] = r
        /\ row'[f].publish = row[f].publish /\ row'[f].state \in {row[f].state, "kill"}
    <2>1. row[f] \in RowType /\ r \in RowType
      BY <1>1, <1>4, Rows
    <2>2. row'[f] = r
      BY <1>1, <1>4 DEF Types, PostTypes
    <2>3. r.publish = row[f].publish /\ r.state \in {row[f].state, "kill"}
      BY <1>4, <2>1 DEF RowType
    <2> QED
      BY <2>1, <2>2, <2>3
  <1>6. PostMoves(f)
    <2>1. \E m \in Nat : metadata' = [metadata EXCEPT ![f] = m]
      BY <1>1, <1>2, NothingChanges DEF Types, PostTypes
    <2>2. "idle" \in Steps
      BY DEF Steps
    <2> QED
      BY <1>1, <1>2, <1>3, <1>4, <1>5, <2>1, <2>2, CacheStays DEF PostMoves, Types, PostTypes
  <1>7. ASSUME f \notin stale PROVE OwnRight(f) /\ OwnOffer(f)
    <2>1. Before(f)
      BY <1>7, KnownBefore
    <2>2. faults \in Nat /\ faults' \in Nat /\ faults <= faults'
      BY <1>1, <1>2, <1>6, FaultsCount DEF PostMoves
    <2>3. OwnRight(f)
      BY <1>3 DEF OwnRight, Asking, Looking, Staged
    <2>4. OwnOffer(f)
      BY <1>2, <1>3, <1>5, <2>1, <2>2 DEF OwnOffer, Before, OfferOK
    <2> QED
      BY <2>3, <2>4
  <1> QED
    BY <1>2, <1>6, <1>7, OwnKeeps

(* The metadata are those of the file that was found transferred.              *)
LEMMA UploadMetadataKeeps ==
    ASSUME IInv, NEW f \in Files, UploadMetadata(f), UNCHANGED bound
    PROVE  IInv'
  <1>1. Types
    BY DEF IInv
  <1>2. MayFail /\ UNCHANGED <<run, error, row, source, dest, stale, managed, fts, cache, after, transfers>>
    BY DEF UploadMetadata, MayFail, storage, cached
  <1>3. PICK t \in {"flag", "idle"}, m \in {metadata[f], run[f]} :
          /\ step' = [step EXCEPT ![f] = t] /\ metadata' = [metadata EXCEPT ![f] = m]
          /\ t = "flag" => m = run[f]
    BY <1>1, NothingChanges DEF UploadMetadata, Goes
  <1>4. step'[f] = t /\ step[f] = "staged" /\ metadata'[f] = m /\ m \in Nat
    BY <1>1, <1>3 DEF UploadMetadata, Types, PostTypes
  <1>5. PostMoves(f)
    <2>1. \E r \in RowType : row' = [row EXCEPT ![f] = r]
      BY <1>1, <1>2, Rows
    <2>2. t \in Steps
      BY DEF Steps
    <2> QED
      BY <1>1, <1>2, <1>3, <1>4, <2>1, <2>2, CacheStays DEF PostMoves, Types, PostTypes
  <1>6. ASSUME f \notin stale PROVE OwnRight(f) /\ OwnOffer(f)
    <2>1. Before(f)
      BY <1>6, KnownBefore
    <2>2. faults \in Nat /\ faults' \in Nat /\ faults <= faults'
      BY <1>1, <1>2, <1>5, FaultsCount DEF PostMoves
    <2>3. dest[f] = run[f]
      BY <1>4, <2>1 DEF Before, Staged, Copied
    <2>4. OwnRight(f)
      BY <1>2, <1>4, <2>1 DEF OwnRight, Before, Asking, Looking, Staged
    <2>5. OwnOffer(f)
      BY <1>2, <1>3, <1>4, <2>1, <2>2, <2>3 DEF OwnOffer, Before, OfferOK
    <2> QED
      BY <2>4, <2>5
  <1> QED
    BY <1>2, <1>5, <1>6, OwnKeeps

(* What is offered from now on is described; without an answer a call failed.  *)
LEMMA AskPublicationKeeps ==
    ASSUME IInv, NEW f \in Files, AskPublication(f), UNCHANGED bound
    PROVE  IInv'
  <1>1. Types
    BY DEF IInv
  <1>2. MayFail /\ UNCHANGED <<run, error, metadata, source, dest, stale, managed, fts, cache, after, transfers>>
    BY DEF AskPublication, MayFail, storage, cached
  <1>3. PICK landed \in BOOLEAN, answered \in BOOLEAN :
          /\ row' = IF landed THEN [row EXCEPT ![f].publish = TRUE] ELSE row
          /\ Goes(f, IF answered THEN "done" ELSE "idle")
          /\ IF landed /\ answered THEN UNCHANGED faults ELSE Fault /\ ~answered
    BY DEF AskPublication
  <1>4. PICK r \in {row[f], [row[f] EXCEPT !.publish = TRUE]} : row' = [row EXCEPT ![f] = r]
    BY <1>1, <1>3, Rows
  <1>5. r \in RowType /\ row'[f] = r /\ row'[f].state = row[f].state
    <2>1. row[f] \in RowType /\ r \in RowType
      BY <1>1, <1>4, Rows
    <2>2. row'[f] = r
      BY <1>1, <1>4 DEF Types, PostTypes
    <2>3. r.state = row[f].state
      BY <1>4, <2>1 DEF RowType
    <2> QED
      BY <2>1, <2>2, <2>3
  <1>6. PICK t \in {"done", "idle"} :
          /\ step' = [step EXCEPT ![f] = t] /\ step'[f] = t /\ step[f] = "flag"
          /\ t = "idle" => Fault
    BY <1>1, <1>3 DEF AskPublication, Goes, Types, PostTypes
  <1>7. PostMoves(f)
    <2>1. \E m \in Nat : metadata' = [metadata EXCEPT ![f] = m]
      BY <1>1, <1>2, NothingChanges DEF Types, PostTypes
    <2>2. t \in Steps
      BY DEF Steps
    <2> QED
      BY <1>1, <1>2, <1>4, <1>5, <1>6, <2>1, <2>2, CacheStays DEF PostMoves, Types, PostTypes
  <1>8. ASSUME f \notin stale PROVE OwnRight(f) /\ OwnOffer(f)
    <2>1. Before(f)
      BY <1>8, KnownBefore
    <2>2. /\ faults \in Nat /\ faults' \in Nat /\ faults <= faults'
          /\ t = "idle" => faults' >= 1
      BY <1>1, <1>2, <1>6, <1>7, FaultsCount DEF PostMoves
    <2>3. dest[f] = run[f] /\ metadata[f] = run[f]
      BY <1>6, <2>1 DEF Before, OfferOK, Staged, Copied
    <2>4. OwnRight(f)
      BY <1>2, <1>5, <1>6, <2>1 DEF OwnRight, Before, Asking, Looking, Staged
    <2>5. OwnOffer(f)
      BY <1>2, <1>6, <2>2, <2>3 DEF OwnOffer
    <2> QED
      BY <2>4, <2>5
  <1> QED
    BY <1>2, <1>7, <1>8, OwnKeeps

(* The post-job starts again, or looks once more.                              *)
LEMMA PostJobKilledKeeps ==
    ASSUME IInv, NEW f \in Files, PostJobKilled(f), UNCHANGED bound
    PROVE  IInv'
  <1>1. Types
    BY DEF IInv
  <1>2. /\ Fault
        /\ UNCHANGED <<run, error, row, metadata, source, dest, stale, managed, fts, cache, after, transfers>>
    BY DEF PostJobKilled, databases, storage, cached
  <1>3. PICK t \in {"idle", "monitor"} :
          /\ step' = [step EXCEPT ![f] = t] /\ step'[f] = t
          /\ t = "monitor" => step[f] \in Looking
          /\ step[f] # "done"
    BY <1>1 DEF PostJobKilled, Goes, Injecting, Looking, Types, PostTypes
  <1>4. PostMoves(f)
    <2>1. \E m \in Nat : metadata' = [metadata EXCEPT ![f] = m]
      BY <1>1, <1>2, NothingChanges DEF Types, PostTypes
    <2>2. \E r \in RowType : row' = [row EXCEPT ![f] = r]
      BY <1>1, <1>2, Rows
    <2>3. t \in Steps
      BY DEF Steps
    <2> QED
      BY <1>1, <1>2, <1>3, <2>1, <2>2, <2>3, CacheStays DEF PostMoves, MayFail, Types, PostTypes
  <1>5. ASSUME f \notin stale PROVE OwnRight(f) /\ OwnOffer(f)
    <2>1. Before(f)
      BY <1>5, KnownBefore
    <2>2. faults \in Nat /\ faults' \in Nat /\ faults <= faults' /\ faults' >= 1
      BY <1>1, <1>2, <1>4, FaultsCount DEF PostMoves
    <2>3. OwnRight(f)
      BY <1>2, <1>3, <2>1 DEF OwnRight, Before, Asking, Looking, Staged
    <2>4. OwnOffer(f)
      BY <1>2, <1>3, <2>1, <2>2 DEF OwnOffer, Before, OfferOK
    <2> QED
      BY <2>3, <2>4
  <1> QED
    BY <1>2, <1>4, <1>5, OwnKeeps

-------------------------------------------------------------------------------
(* The steps of the others.                                                    *)

(* A step that leaves what the files have of the post-jobs keeps what is known *)
(* of each of them.                                                            *)
LEMMA AllKeep ==
    ASSUME IInv, Types', ListsOK', ManagerOK', SourcesOK', faults' = 0 => NothingLost',
           UNCHANGED <<stale, bound>>, MayFail,
           \A f \in Files \ stale : FileSame(f) /\ CacheSame(f) /\ FlightSame(f)
    PROVE  IInv'
  <1>1. ASSUME NEW f \in Files \ stale PROVE RightOK(f)' /\ OfferOK(f)'
    BY FileKeeps DEF IInv
  <1> QED
    BY <1>1 DEF IInv

(* The cache gets old.                                                         *)
LEMMA CacheExpiresKeeps ==
    ASSUME IInv, CacheExpires, UNCHANGED bound
    PROVE  IInv'
  <1>1. Types
    BY DEF IInv
  <1>2. /\ UNCHANGED <<run, step, error, row, metadata, source, dest, after, transfers, managed, fts, stale, faults>>
        /\ cache' = [cache EXCEPT !.fresh = FALSE]
    BY DEF CacheExpires, postjobs, databases, storage
  <1>3. cache' \in [fresh : BOOLEAN, good : BOOLEAN, state : [Files -> Statuses]] /\ cache'.state = cache.state
    BY <1>1, <1>2 DEF Types, PostTypes
  <1>4. Types'
    BY <1>1, <1>2, <1>3 DEF Types, PostTypes, ManagerTypes, managed
  <1>5. ListsOK' /\ ManagerOK' /\ SourcesOK' /\ (faults' = 0 => NothingLost')
    BY <1>2 DEF IInv, ListsOK, ManagerOK, SourcesOK, NothingLost, Tracked, managed
  <1>6. ASSUME NEW f \in Files \ stale PROVE FileSame(f) /\ CacheSame(f) /\ FlightSame(f)
    BY <1>2, <1>3, FlightStays DEF FileSame, RowTold, CacheSame, IInv
  <1> QED
    BY <1>2, <1>4, <1>5, <1>6, AllKeep DEF MayFail

(* A job of FTS in which one file changes.                                     *)
LEMMA JobChanges ==
    ASSUME Types, NEW i \in DOMAIN fts, NEW f \in DOMAIN fts[i], NEW s \in FileStates, FtsChanges(i, f, s)
    PROVE  /\ fts' \in Seq(FtsJob) /\ Len(fts') = Len(fts) /\ DOMAIN fts = 1..Len(fts) /\ f \in Files
           /\ \A j \in 1..Len(fts) : DOMAIN fts'[j] = DOMAIN fts[j] /\ fts[j] \in FtsJob
           /\ \A j \in 1..Len(fts) : \A g \in DOMAIN fts[j] :
                 fts'[j][g] = IF j = i /\ g = f THEN s ELSE fts[j][g]
  <1>1. fts \in Seq(FtsJob) /\ DOMAIN fts = 1..Len(fts)
    BY DEF Types, ManagerTypes
  <1>2. PICK D \in SUBSET Files : fts[i] \in [D -> FileStates]
    BY <1>1 DEF FtsJob
  <1>3. f \in Files /\ DOMAIN fts[i] = D
    BY <1>2
  <1>4. [fts[i] EXCEPT ![f] = s] \in FtsJob /\ DOMAIN [fts[i] EXCEPT ![f] = s] = DOMAIN fts[i]
    BY <1>2 DEF FtsJob
  <1>5. fts' = [fts EXCEPT ![i] = [fts[i] EXCEPT ![f] = s]]
    BY DEF FtsChanges
  <1>6. fts' \in Seq(FtsJob) /\ Len(fts') = Len(fts)
    BY <1>1, <1>4, <1>5
  <1>7. \A j \in 1..Len(fts) : fts'[j] = IF j = i THEN [fts[i] EXCEPT ![f] = s] ELSE fts[j]
    BY <1>1, <1>5
  <1>8. ASSUME NEW j \in 1..Len(fts) PROVE DOMAIN fts'[j] = DOMAIN fts[j] /\ fts[j] \in FtsJob
    BY <1>1, <1>4, <1>7
  <1>9. ASSUME NEW j \in 1..Len(fts), NEW g \in DOMAIN fts[j]
        PROVE  fts'[j][g] = IF j = i /\ g = f THEN s ELSE fts[j][g]
    <2>1. [fts[i] EXCEPT ![f] = s][f] = s /\ \A a \in D \ {f} : [fts[i] EXCEPT ![f] = s][a] = fts[i][a]
      BY <1>2
    <2> QED
      BY <1>3, <1>7, <2>1
  <1> QED
    BY <1>1, <1>3, <1>6, <1>8, <1>9

(* FTS ends with a file: it has copied it from the temporary storage, or not.  *)
FtsStep(i, f, s) ==
    /\ fts[i][f] = "active" /\ FtsChanges(i, f, s)
    /\ \/ s = "finished" /\ source[f] # 0 /\ dest' = [dest EXCEPT ![f] = source[f]]
       \/ s # "finished" /\ UNCHANGED dest
    /\ UNCHANGED <<run, step, error, row, metadata, source, cache, after, transfers, managed, stale, bound>>
    /\ MayFail /\ (s = "stuck" => Fault)

(* The file that was copied is the one of the last run, and so is the one that *)
(* the row offers, if it does.                                                 *)
LEMMA FtsStepKeeps ==
    ASSUME IInv, NEW i \in DOMAIN fts, NEW f \in DOMAIN fts[i], NEW s \in FileStates, FtsStep(i, f, s)
    PROVE  IInv'
  <1>1. Types /\ ListsOK
    BY DEF IInv
  <1>2. /\ fts' \in Seq(FtsJob) /\ Len(fts') = Len(fts) /\ DOMAIN fts = 1..Len(fts) /\ f \in Files
        /\ \A j \in 1..Len(fts) : DOMAIN fts'[j] = DOMAIN fts[j] /\ fts[j] \in FtsJob
        /\ \A j \in 1..Len(fts) : \A g \in DOMAIN fts[j] :
              fts'[j][g] = IF j = i /\ g = f THEN s ELSE fts[j][g]
    BY <1>1, JobChanges DEF FtsStep
  <1>3. DOMAIN fts' = 1..Len(fts)
    BY <1>2
  <1>4. source[f] \in {0, run[f]} /\ source[f] \in Nat /\ dest \in [Files -> Nat]
    BY <1>1, <1>2 DEF IInv, SourcesOK, Types, PostTypes
  <1>5. /\ dest' \in [Files -> Nat] /\ \A g \in Files \ {f} : dest'[g] = dest[g]
        /\ dest'[f] = IF s = "finished" THEN run[f] ELSE dest[f]
    BY <1>2, <1>4 DEF FtsStep
  <1>6. Types'
    BY <1>1, <1>2, <1>5, FaultsCount DEF FtsStep, Types, PostTypes, ManagerTypes, managed
  <1>7. ListsOK' /\ SourcesOK'
    BY <1>2 DEF IInv, ListsOK, SourcesOK, FtsStep, managed
  <1>8. ManagerOK'
    <2>1. mgr.at = "mark" => content[Len(fts)] = DOMAIN fts'[Len(fts)]
      <3>1. mgr.at = "mark" => content[Len(fts)] = DOMAIN fts[Len(fts)]
        BY DEF IInv, ManagerOK
      <3>2. i \in 1..Len(fts) /\ Len(fts) \in Nat
        BY <1>1, <1>2 DEF Types, ManagerTypes
      <3>3. Len(fts) \in 1..Len(fts)
        BY <3>2
      <3> QED
        BY <1>2, <3>1, <3>3
    <2> QED
      BY <1>2, <2>1 DEF IInv, ManagerOK, FtsStep, managed
  <1>9. faults' = 0 => NothingLost'
    <2>1. faults' = 0 => faults = 0 /\ s # "stuck"
      BY <1>1, FaultsCount DEF FtsStep
    <2>2. \A g \in Files : Tracked(g)' <=> Tracked(g)
      BY DEF Tracked, FtsStep, managed
    <2>3. SUFFICES ASSUME faults' = 0, NothingLost, s # "stuck" PROVE NothingLost'
      BY <2>1 DEF IInv
    <2>4. \A j \in 1..Len(fts) : \A g \in DOMAIN fts[j] : fts'[j][g] # "stuck"
      BY <1>2, <2>3 DEF NothingLost
    <2> QED
      BY <1>2, <2>2, <2>3, <2>4 DEF NothingLost, FtsStep, managed
  <1>10. ASSUME NEW g \in Files \ stale PROVE RightOK(g)' /\ OfferOK(g)'
    <2>1. RightOK(g) /\ OfferOK(g)
      BY DEF IInv
    <2>2. Pending(g)' => Pending(g)
      <3>1. ASSUME NEW j \in 1..Len(fts), g \in DOMAIN fts'[j], fts'[j][g] = "active" \/ g \in content[j]
            PROVE  g \in DOMAIN fts[j] /\ (fts[j][g] = "active" \/ g \in content[j])
        BY <1>2, <3>1 DEF FtsStep
      <3> QED
        BY <1>2, <1>3, <3>1 DEF Pending, FtsStep, managed
    <2>3. CASE g = f
      <3>1. Pending(f)
        BY <1>2 DEF Pending, FtsStep
      <3>2. step[f] \notin Asking
        BY <2>1, <2>3, <3>1 DEF RightOK
      <3>3. Copied(f) => Copied(f)'
        BY <1>5 DEF Copied, FtsStep
      <3>4. \A j \in 1..Len(fts) : f \in content[j] /\ fts'[j][f] = "finished" => Copied(f)'
        <4>1. ASSUME NEW j \in 1..Len(fts), f \in content[j], fts'[j][f] = "finished" PROVE Copied(f)'
          <5>1. f \in DOMAIN fts[j]
            BY <1>1, <4>1 DEF ListsOK
          <5>2. fts[j][f] = "finished" \/ s = "finished"
            BY <1>2, <4>1, <5>1
          <5>3. s = "finished" => Copied(f)'
            BY <1>5 DEF Copied, FtsStep
          <5> QED
            BY <2>1, <2>3, <3>3, <4>1, <5>2, <5>3 DEF RightOK
        <4> QED
          BY <4>1
      <3>5. RightOK(f)'
        BY <1>2, <2>1, <2>3, <3>2, <3>3, <3>4 DEF RightOK, FtsStep, managed, Asking
      <3>6. faults \in Nat /\ faults' \in Nat /\ faults <= faults'
        BY <1>1, FaultsCount DEF FtsStep
      <3>7. faults' <= 1 /\ row[f].publish => metadata[f] = dest'[f]
        BY <1>5, <2>1, <2>3, <3>1, <3>6 DEF OfferOK
      <3>8. OfferOK(f)'
        BY <2>1, <2>2, <2>3, <3>6, <3>7 DEF OfferOK, FtsStep
      <3> QED
        BY <2>3, <3>5, <3>8
    <2>4. CASE g # f
      <3>1. \A j \in 1..Len(fts) : g \in content[j] /\ fts'[j][g] = "finished" => Copied(g)
        BY <1>1, <1>2, <2>1, <2>4 DEF RightOK, ListsOK
      <3>2. FlightSame(g)
        BY <1>2, <2>1, <2>2, <3>1 DEF FlightSame, RightOK, FtsStep, managed
      <3>3. FileSame(g) /\ CacheSame(g)
        BY <1>5, <2>4 DEF FileSame, RowTold, CacheSame, FtsStep
      <3> QED
        BY <1>1, <2>1, <3>2, <3>3, FileKeeps DEF FtsStep
    <2> QED
      BY <2>3, <2>4
  <1> QED
    BY <1>6, <1>7, <1>8, <1>9, <1>10 DEF IInv, FtsStep

(* FTS copies a file, fails, or leaves it as it is.                            *)
LEMMA FtsKeeps ==
    ASSUME IInv, Fts, UNCHANGED bound
    PROVE  IInv'
  <1>1. PICK i \in DOMAIN fts : \E f \in DOMAIN fts[i] : FtsCopies(i, f) \/ FtsFails(i, f) \/ FtsForgets(i, f)
    BY DEF Fts
  <1>2. PICK f \in DOMAIN fts[i] : FtsCopies(i, f) \/ FtsFails(i, f) \/ FtsForgets(i, f)
    BY <1>1
  <1>3. CASE FtsCopies(i, f)
    <2>1. FtsStep(i, f, "finished")
      BY <1>3 DEF FtsCopies, FtsStep, MayFail, postjobs, databases, cached
    <2> QED
      BY <2>1, FtsStepKeeps DEF FileStates
  <1>4. CASE FtsFails(i, f)
    <2>1. FtsStep(i, f, "failed")
      BY <1>4 DEF FtsFails, FtsStep, MayFail, postjobs, databases, storage, cached
    <2> QED
      BY <2>1, FtsStepKeeps DEF FileStates
  <1>5. CASE FtsForgets(i, f)
    <2>1. FtsStep(i, f, "stuck")
      BY <1>5 DEF FtsForgets, FtsStep, MayFail, postjobs, databases, storage, cached
    <2> QED
      BY <2>1, FtsStepKeeps DEF FileStates
  <1> QED
    BY <1>2, <1>3, <1>4, <1>5

(* The steps of the manager: the rows they write are of files in flight, and   *)
(* nothing goes into flight that was not handed over.                          *)
ManagerStep ==
    /\ UNCHANGED <<run, step, error, metadata, dest, cache, after, transfers, stale, bound>> /\ MayFail
    /\ ManagerTypes' /\ row' \in [Files -> RowType] /\ source' \in [Files -> Nat]
    /\ ListsOK' /\ ManagerOK' /\ SourcesOK'
    /\ faults' = 0 => NothingLost'
    /\ \A f \in Files : RightOK(f) => RowTold(f) /\ FlightSame(f)

(* Such a step keeps the invariant.                                            *)
LEMMA ManagerStepKeeps ==
    ASSUME IInv, ManagerStep
    PROVE  IInv'
  <1>1. Types'
    BY FaultsCount DEF IInv, ManagerStep, Types, PostTypes
  <1>2. ASSUME NEW f \in Files \ stale PROVE FileSame(f) /\ CacheSame(f) /\ FlightSame(f)
    BY DEF IInv, ManagerStep, FileSame, CacheSame
  <1> QED
    BY <1>1, <1>2, AllKeep DEF ManagerStep

(* The lines from a later one on.                                              *)
LEMMA FewerLines ==
    ASSUME NEW a \in Nat, NEW b \in Nat, NEW n \in Nat, a <= b, NEW k \in b + 1..n
    PROVE  k \in a + 1..n
  OBVIOUS

(* The steps of the manager on its own files only.                             *)
LEMMA OwnFilesKeep ==
    ASSUME IInv, UNCHANGED <<row, source, content, fts>>, MgrUnchanged, UNCHANGED bound, MayFail,
           last' \in Nat, last <= last', jobids' \subseteq Nat, mgr' \in MgrType, mgr'.told \subseteq mgr.told,
           ManagerOK', faults' = 0 /\ NothingLost => NothingLost'
    PROVE  IInv'
  <1>1. Types /\ last \in Nat
    BY DEF IInv, Types, ManagerTypes
  <1>2. UNCHANGED <<run, step, error, metadata, dest, cache, after, transfers, stale, bound>>
    BY DEF MgrUnchanged, postjobs, cached
  <1>3. ManagerTypes' /\ ListsOK' /\ SourcesOK' /\ row' \in [Files -> RowType] /\ source' \in [Files -> Nat]
    BY <1>1, <1>2 DEF IInv, ManagerTypes, ListsOK, SourcesOK, Types, PostTypes
  <1>4. faults' = 0 => NothingLost'
    BY <1>1, FaultsCount DEF IInv
  <1>5. ASSUME NEW f \in Files, RightOK(f) PROVE RowTold(f) /\ FlightSame(f)
    <2>1. ASSUME NEW k \in last' + 1..Len(transfers) PROVE k \in last + 1..Len(transfers)
      <3>1. PICK n \in Nat, a \in Nat, b \in Nat : n = Len(transfers) /\ a = last /\ b = last' /\ a <= b
        BY <1>1 DEF Types, PostTypes
      <3>2. k \in b + 1..n
        BY <3>1
      <3> QED
        BY <3>1, <3>2, FewerLines
    <2>2. Pending(f)' => Pending(f)
      BY <1>2, <2>1 DEF Pending
    <2> QED
      BY <1>5, <2>2 DEF RowTold, FlightSame, RightOK
  <1> QED
    BY <1>2, <1>3, <1>4, <1>5, ManagerStepKeeps DEF ManagerStep

(* The manager before it starts, and after it ends.                            *)
LEMMA IdleIsFine == Idle \in MgrType
  BY DEF Idle, MgrType

(* What the invariant says of the manager, with its numbers.                   *)
LEMMA ManagerKnows ==
    ASSUME IInv
    PROVE  /\ Types /\ ListsOK /\ ManagerOK /\ SourcesOK /\ mgr \in MgrType /\ last \in Nat /\ jobids \subseteq Nat
           /\ content \in Seq(SUBSET Files) /\ fts \in Seq(FtsJob) /\ Len(fts) \in Nat
           /\ DOMAIN fts = 1..Len(fts) /\ DOMAIN content = 1..Len(fts)
           /\ transfers \in Seq(Files) /\ Len(transfers) \in Nat
           /\ row \in [Files -> RowType] /\ source \in [Files -> Nat]
  BY DEF IInv, Types, PostTypes, ManagerTypes, ListsOK

(* The manager starts with the jobs of fts_jobids.txt.                         *)
LEMMA ManagerStartsKeeps ==
    ASSUME IInv, ManagerStarts, UNCHANGED bound
    PROVE  IInv'
  <1>1. Types /\ ManagerOK /\ last \in Nat /\ jobids \subseteq Nat
    BY ManagerKnows
  <1>2. mgr' = [Idle EXCEPT !.at = "check", !.todo = jobids, !.ongoing = jobids] /\ mgr = Idle
    BY <1>1 DEF ManagerStarts, ManagerOK
  <1>3. /\ mgr' \in MgrType /\ mgr'.at = "check" /\ mgr'.todo = jobids /\ mgr'.ongoing = jobids
        /\ mgr'.ended = {} /\ mgr'.told = {} /\ mgr'.new = {} /\ mgr'.to = 0
    BY <1>1, <1>2 DEF Idle, MgrType
  <1>4. mgr.told = {} /\ mgr.new = {}
    BY <1>2 DEF Idle
  <1>5. ManagerOK'
    BY <1>1, <1>3 DEF ManagerOK, ManagerStarts, MgrUnchanged
  <1>6. NothingLost => NothingLost'
    BY <1>3, <1>4 DEF NothingLost, Tracked, ManagerStarts
  <1> QED
    BY <1>1, <1>3, <1>5, <1>6, OwnFilesKeep DEF ManagerStarts, MayFail

(* The jobs that are dropped have no file left in their list.                  *)
LEMMA SaveJobsKeeps ==
    ASSUME IInv, SaveJobs, UNCHANGED bound
    PROVE  IInv'
  <1>1. Types /\ ManagerOK /\ last \in Nat /\ jobids \subseteq Nat
    BY ManagerKnows
  <1>2. mgr' = [Idle EXCEPT !.at = "submit"]
    BY DEF SaveJobs
  <1>3. /\ mgr' \in MgrType /\ mgr'.at = "submit" /\ mgr'.todo = {} /\ mgr'.ongoing = {}
        /\ mgr'.told = {} /\ mgr'.new = {}
    BY <1>2 DEF Idle, MgrType
  <1>4. mgr.at = "check" /\ mgr.told = {} /\ mgr.new = {} /\ jobids \subseteq 1..Len(fts)
    BY <1>1 DEF SaveJobs, ManagerOK
  <1>5. jobids' = mgr.ongoing /\ mgr.ongoing \subseteq jobids
    BY <1>1 DEF SaveJobs, ManagerOK
  <1>6. ManagerOK'
    BY <1>1, <1>3, <1>4, <1>5 DEF ManagerOK, SaveJobs, MgrUnchanged
  <1>7. NothingLost => NothingLost'
    <2>1. ASSUME NothingLost, NEW f \in Files, Tracked(f) PROVE Tracked(f)'
      BY <1>4, <1>5, <2>1 DEF NothingLost, Tracked, SaveJobs
    <2> QED
      BY <1>3, <2>1 DEF NothingLost, SaveJobs
  <1> QED
    BY <1>1, <1>3, <1>5, <1>6, <1>7, OwnFilesKeep DEF SaveJobs, MayFail

(* The number of the lines that were read, and no more.                        *)
LEMMA MoveLastKeeps ==
    ASSUME IInv, MoveLast, UNCHANGED bound
    PROVE  IInv'
  <1>1. Types /\ ManagerOK /\ last \in Nat /\ jobids \subseteq Nat /\ mgr \in MgrType
    BY ManagerKnows
  <1>2. mgr' = [mgr EXCEPT !.at = "append"] /\ mgr.at = "move" /\ last' = mgr.to
    BY DEF MoveLast, LinesRead
  <1>3. /\ mgr' \in MgrType /\ mgr'.at = "append" /\ mgr'.todo = mgr.todo /\ mgr'.ongoing = mgr.ongoing
        /\ mgr'.told = mgr.told /\ mgr'.new = mgr.new
    BY <1>1, <1>2 DEF MgrType
  <1>4. mgr.told = {} /\ mgr.to \in Nat /\ last <= mgr.to /\ mgr.to <= Len(transfers)
    BY <1>1, <1>2 DEF ManagerOK, MgrType
  <1>5. ManagerOK'
    BY <1>1, <1>2, <1>3, <1>4 DEF ManagerOK, MoveLast, MgrUnchanged
  <1>6. NothingLost => NothingLost'
    BY <1>3 DEF NothingLost, Tracked, MoveLast
  <1> QED
    BY <1>1, <1>2, <1>3, <1>4, <1>5, <1>6, OwnFilesKeep DEF MoveLast, MayFail

(* The new job is known from now on.                                           *)
LEMMA AddJobsKeeps ==
    ASSUME IInv, AddJobs, UNCHANGED bound
    PROVE  IInv'
  <1>1. Types /\ ManagerOK /\ last \in Nat /\ jobids \subseteq Nat /\ mgr \in MgrType
    BY ManagerKnows
  <1>2. mgr' = Idle /\ mgr.at = "append" /\ jobids' = jobids \cup mgr.new
    BY DEF AddJobs
  <1>3. /\ mgr'.at = "idle" /\ mgr'.todo = {} /\ mgr'.ongoing = {} /\ mgr'.told = {} /\ mgr'.new = {}
    BY <1>2 DEF Idle
  <1>4. mgr.told = {} /\ mgr.new \subseteq 1..Len(fts) /\ mgr.new \subseteq Nat
    BY <1>1, <1>2 DEF ManagerOK, MgrType
  <1>5. ManagerOK'
    BY <1>1, <1>2, <1>3, <1>4 DEF ManagerOK, AddJobs, MgrUnchanged
  <1>6. NothingLost => NothingLost'
    BY <1>2, <1>3, <1>4 DEF NothingLost, Tracked, AddJobs
  <1>7. mgr' \in MgrType /\ jobids' \subseteq Nat
    BY <1>1, <1>2, <1>4, IdleIsFine
  <1>8. UNCHANGED <<row, source, last, content, fts, faults>> /\ MgrUnchanged
    BY DEF AddJobs
  <1> QED
    BY <1>1, <1>3, <1>5, <1>6, <1>7, <1>8, OwnFilesKeep DEF MayFail

(* The manager is killed: its variables are gone.                              *)
LEMMA ManagerKilledKeeps ==
    ASSUME IInv, ManagerKilled, UNCHANGED bound
    PROVE  IInv'
  <1>1. Types /\ ManagerOK /\ last \in Nat /\ jobids \subseteq Nat
    BY ManagerKnows
  <1>2. mgr' = Idle
    BY DEF ManagerKilled
  <1>3. /\ mgr'.at = "idle" /\ mgr'.todo = {} /\ mgr'.ongoing = {} /\ mgr'.told = {} /\ mgr'.new = {}
    BY <1>2 DEF Idle
  <1>4. ManagerOK'
    BY <1>1, <1>2, <1>3 DEF ManagerOK, ManagerKilled, MgrUnchanged
  <1>5. faults' # 0
    BY <1>1, FaultsCount DEF ManagerKilled, MayFail
  <1> QED
    BY <1>1, <1>2, <1>3, <1>4, <1>5, IdleIsFine, OwnFilesKeep DEF ManagerKilled, MayFail

(* A job of FTS is looked at: the files that are over leave its list, and are  *)
(* told of; what was copied is known to be the file of the last run.           *)
LEMMA CheckKeeps ==
    ASSUME IInv, NEW i \in mgr.todo, CheckFTSJob(i), UNCHANGED bound
    PROVE  IInv'
  <1>1. /\ Types /\ ListsOK /\ ManagerOK /\ SourcesOK /\ mgr \in MgrType /\ last \in Nat /\ jobids \subseteq Nat
        /\ content \in Seq(SUBSET Files) /\ fts \in Seq(FtsJob) /\ DOMAIN fts = 1..Len(fts)
        /\ DOMAIN content = 1..Len(fts) /\ source \in [Files -> Nat] /\ row \in [Files -> RowType]
    BY ManagerKnows
  <1>2. /\ mgr.at = "check" /\ mgr.todo \subseteq jobids /\ mgr.ongoing \subseteq jobids
        /\ jobids \subseteq 1..Len(fts) /\ i \in 1..Len(fts) /\ i \in Nat /\ mgr.new = {}
    BY <1>1 DEF CheckFTSJob, ManagerOK
  <1>3. content[i] \subseteq DOMAIN fts[i] /\ content[i] \subseteq Files
    BY <1>1, <1>2 DEF ListsOK
  <1>4. \A f \in DOMAIN fts[i] : fts[i][f] \in FileStates
    <2>1. PICK D \in SUBSET Files : fts[i] \in [D -> FileStates]
      BY <1>1, <1>2 DEF FtsJob
    <2> QED
      BY <2>1
  <1>5. UNCHANGED <<run, step, error, row, metadata, dest, cache, after, transfers, stale, last, jobids, fts>>
    BY DEF CheckFTSJob, MgrUnchanged, postjobs, cached
  <1>6. CASE /\ Fault /\ UNCHANGED <<content, source>>
             /\ \E known \in BOOLEAN :
                   mgr' = [mgr EXCEPT !.todo = @ \ {i}, !.ongoing = IF known THEN @ ELSE @ \ {i}]
    <2>1. PICK known \in BOOLEAN :
            mgr' = [mgr EXCEPT !.todo = @ \ {i}, !.ongoing = IF known THEN @ ELSE @ \ {i}]
      BY <1>6
    <2>2. /\ mgr' \in MgrType /\ mgr'.at = "check" /\ mgr'.todo \subseteq mgr.todo
          /\ mgr'.ongoing \subseteq mgr.ongoing /\ mgr'.told = mgr.told /\ mgr'.new = mgr.new
      BY <1>1, <1>2, <2>1 DEF MgrType
    <2>3. ManagerOK'
      BY <1>1, <1>2, <1>5, <2>2 DEF ManagerOK
    <2>4. faults' # 0
      BY <1>1, <1>6, FaultsCount DEF MayFail
    <2>5. /\ UNCHANGED <<row, source, last, content, fts>> /\ MgrUnchanged /\ MayFail
          /\ jobids' \subseteq Nat /\ mgr'.told \subseteq mgr.told
      BY <1>1, <1>5, <1>6, <2>2 DEF CheckFTSJob, MayFail
    <2> QED
      BY <1>1, <2>2, <2>3, <2>4, <2>5, OwnFilesKeep
  <1>7. CASE /\ mgr' = [mgr EXCEPT !.todo = @ \ {i}, !.ended = IF Ended(i) THEN @ \cup {i} ELSE @,
                         !.told = @ \cup {[job |-> i, done |-> InState(i, "finished"),
                                    failed |-> InState(i, "failed")
                                        \cup (IF Ended(i) THEN InState(i, "stuck") ELSE {})]}]
             /\ content' = [content EXCEPT ![i] = @ \ Handled(i)]
             /\ source' = [f \in Files |-> IF f \in Handled(i) THEN 0 ELSE source[f]]
             /\ UNCHANGED faults
    <2>1. PICK r \in Reports :
            /\ r.done = InState(i, "finished") /\ InState(i, "failed") \subseteq r.failed /\ r.failed \subseteq content[i]
            /\ mgr' = [mgr EXCEPT !.todo = @ \ {i}, !.ended = IF Ended(i) THEN @ \cup {i} ELSE @, !.told = @ \cup {r}]
      <3> DEFINE R == [job |-> i, done |-> InState(i, "finished"),
                       failed |-> InState(i, "failed") \cup (IF Ended(i) THEN InState(i, "stuck") ELSE {})]
      <3>1. R \in Reports /\ R.failed \subseteq content[i]
        BY <1>2, <1>3 DEF Reports, InState
      <3>2. R.done = InState(i, "finished") /\ InState(i, "failed") \subseteq R.failed
        OBVIOUS
      <3> QED
        BY <1>7, <3>1, <3>2
    <2>2. /\ mgr' \in MgrType /\ mgr'.at = "check" /\ mgr'.todo \subseteq mgr.todo /\ mgr'.ongoing = mgr.ongoing
          /\ mgr'.told = mgr.told \cup {r} /\ mgr'.new = {} /\ mgr'.ended = IF Ended(i) THEN mgr.ended \cup {i} ELSE mgr.ended
      BY <1>1, <1>2, <2>1 DEF MgrType
    <2>3. /\ content' \in Seq(SUBSET Files) /\ Len(content') = Len(content) /\ Len(content) = Len(fts)
          /\ \A j \in 1..Len(fts) : content'[j] = IF j = i THEN content[i] \ Handled(i) ELSE content[j]
      <3>1. content[i] \ Handled(i) \in SUBSET Files
        BY <1>3
      <3> QED
        BY <1>1, <1>2, <1>7, <3>1 DEF ListsOK
    <2>4. source' \in [Files -> Nat] /\ SourcesOK'
      BY <1>1, <1>5, <1>7 DEF SourcesOK
    <2>5. ManagerTypes' /\ ListsOK'
      BY <1>1, <1>5, <2>2, <2>3 DEF ManagerTypes, ListsOK
    <2>6. ManagerOK'
      BY <1>1, <1>2, <1>5, <2>2 DEF ManagerOK
    <2>7. faults' = 0 => NothingLost'
      <3>1. SUFFICES ASSUME NothingLost PROVE NothingLost'
        BY <1>7 DEF IInv
      <3>2. Ended(i) => content'[i] = {}
        <4>1. ASSUME Ended(i), NEW f \in content[i] PROVE f \in Handled(i)
          <5>1. fts[i][f] \in FileStates /\ fts[i][f] # "active" /\ fts[i][f] # "stuck"
            BY <1>2, <1>3, <1>4, <3>1, <4>1 DEF Ended, NothingLost
          <5> QED
            BY <5>1 DEF FileStates, Handled, InState
        <4> QED
          BY <1>2, <2>3, <4>1
      <3>3. \A j \in mgr'.ended \cup (jobids' \ mgr'.ongoing) : j \in 1..Len(fts) => content'[j] = {}
        BY <1>2, <1>5, <2>2, <2>3, <3>1, <3>2 DEF NothingLost
      <3>4. ASSUME NEW f \in Files, Tracked(f) PROVE Tracked(f)'
        <4>1. CASE \E e \in mgr.told : f \in e.done \cup e.failed
          BY <2>2, <4>1 DEF Tracked
        <4>2. CASE \E j \in jobids \cup mgr.new : f \in content[j]
          <5>1. PICK j \in jobids : f \in content[j]
            BY <1>2, <4>2
          <5>2. CASE f \in content'[j]
            BY <1>5, <5>2 DEF Tracked
          <5>3. CASE f \notin content'[j]
            <6>1. j = i /\ f \in Handled(i)
              BY <1>2, <2>3, <5>1, <5>3
            <6>2. f \in r.done \cup r.failed
              BY <2>1, <6>1 DEF Handled
            <6> QED
              BY <2>2, <6>2 DEF Tracked
          <5> QED
            BY <5>2, <5>3
        <4> QED
          BY <3>4, <4>1, <4>2 DEF Tracked
      <3> QED
        BY <1>5, <3>1, <3>3, <3>4 DEF NothingLost
    <2>8. ASSUME NEW f \in Files, RightOK(f) PROVE RowTold(f) /\ FlightSame(f)
      <3>1. \A j \in 1..Len(fts) : content'[j] \subseteq content[j]
        BY <2>3
      <3>2. f \in r.done \cup r.failed => f \in content[i]
        BY <2>1 DEF InState
      <3>3. \A e \in mgr'.told : f \in e.done \cup e.failed => Pending(f)
        <4>1. f \in content[i] => Pending(f)
          BY <1>1, <1>2, <1>3 DEF Pending
        <4> QED
          BY <2>2, <3>2, <4>1 DEF Pending
      <3>4. Pending(f)' => Pending(f)
        BY <1>1, <1>5, <3>1, <3>3 DEF Pending
      <3>5. \A e \in mgr'.told : f \in e.done => Copied(f)
        <4>1. f \in r.done => Copied(f)
          BY <1>2, <2>1, <2>8 DEF InState, RightOK
        <4> QED
          BY <2>2, <2>8, <4>1 DEF RightOK
      <3> QED
        BY <1>5, <2>8, <3>1, <3>4, <3>5 DEF RowTold, FlightSame, RightOK
    <2> QED
      BY <1>1, <1>5, <1>7, <2>4, <2>5, <2>6, <2>7, <2>8, ManagerStepKeeps DEF ManagerStep, MayFail
  <1> QED
    BY <1>6, <1>7 DEF CheckFTSJob

(* Rows are told what became of their files.                                   *)
LEMMA TellKeeps ==
    ASSUME IInv, NEW e \in mgr.told, Tell(e), UNCHANGED bound
    PROVE  IInv'
  <1>1. /\ Types /\ ListsOK /\ ManagerOK /\ SourcesOK /\ mgr \in MgrType /\ last \in Nat /\ jobids \subseteq Nat
        /\ content \in Seq(SUBSET Files) /\ fts \in Seq(FtsJob) /\ DOMAIN fts = 1..Len(fts)
        /\ source \in [Files -> Nat] /\ row \in [Files -> RowType]
    BY ManagerKnows
  <1>2. PICK done \in {e.done, {}}, failed \in {e.failed, {}}, answered \in BOOLEAN :
          /\ row' = [f \in Files |-> CASE f \in failed -> [row[f] EXCEPT !.state = "failed"]
                                      [] f \in done \ failed -> [row[f] EXCEPT !.state = "done"]
                                      [] OTHER -> row[f]]
          /\ IF <<done, failed, answered>> = <<e.done, e.failed, TRUE>>
             THEN UNCHANGED faults ELSE Fault /\ ~answered
          /\ mgr' = [mgr EXCEPT !.told = @ \ {e},
                  !.ongoing = IF answered /\ Dropped(e) THEN @ \ {e.job} ELSE @]
    BY DEF Tell
  <1>3. /\ UNCHANGED <<run, step, error, source, metadata, dest, cache, after, transfers, stale>>
        /\ UNCHANGED <<last, jobids, content, fts>> /\ MayFail
    BY <1>2 DEF Tell, MgrUnchanged, postjobs, cached, MayFail
  <1>4. mgr.at = "check" /\ mgr.todo = {} /\ mgr.new = {} /\ jobids \subseteq 1..Len(fts) /\ mgr.ongoing \subseteq jobids
    BY <1>1 DEF Tell, ManagerOK
  <1>5. /\ mgr' \in MgrType /\ mgr'.at = "check" /\ mgr'.todo = {} /\ mgr'.ended = mgr.ended
        /\ mgr'.ongoing \subseteq mgr.ongoing /\ mgr'.told = mgr.told \ {e} /\ mgr'.new = {}
    BY <1>1, <1>2, <1>4 DEF MgrType
  <1>6. \A j \in mgr.ongoing \ mgr'.ongoing : j \in mgr.ended
    BY <1>1, <1>2 DEF MgrType, Dropped
  <1>7. ASSUME NEW f \in Files
        PROVE  /\ row'[f] \in RowType /\ row'[f].publish = row[f].publish
               /\ row'[f].state = IF f \in failed THEN "failed" ELSE IF f \in done THEN "done" ELSE row[f].state
    <2>1. row[f] \in RowType
      BY <1>1
    <2>2. \A s \in Statuses : [row[f] EXCEPT !.state = s] \in RowType /\ [row[f] EXCEPT !.state = s].publish = row[f].publish
                              /\ [row[f] EXCEPT !.state = s].state = s
      BY <2>1 DEF RowType
    <2>3. "failed" \in Statuses /\ "done" \in Statuses
      BY DEF Statuses
    <2>4. row'[f] = IF f \in failed THEN [row[f] EXCEPT !.state = "failed"]
                    ELSE IF f \in done THEN [row[f] EXCEPT !.state = "done"] ELSE row[f]
      BY <1>2
    <2> QED
      BY <2>1, <2>2, <2>3, <2>4
  <1>8. row' \in [Files -> RowType]
    BY <1>2, <1>7
  <1>9. ManagerTypes' /\ ListsOK' /\ SourcesOK' /\ ManagerOK'
    BY <1>1, <1>3, <1>4, <1>5 DEF Types, ManagerTypes, ListsOK, SourcesOK, ManagerOK
  <1>10. faults' = 0 => NothingLost'
    <2>1. SUFFICES ASSUME NothingLost, done = e.done, failed = e.failed PROVE NothingLost'
      <3>1. faults' = 0 => faults = 0 /\ ~Fault
        BY <1>1, <1>3, FaultsCount
      <3> QED
        BY <1>2, <3>1 DEF IInv
    <2>2. \A j \in mgr'.ended \cup (jobids' \ mgr'.ongoing) : j \in 1..Len(fts) => content'[j] = {}
      BY <1>3, <1>4, <1>5, <1>6, <2>1 DEF NothingLost
    <2>3. ASSUME NEW f \in Files, row'[f].state = "submitted" PROVE Tracked(f)'
      <3>1. row[f].state = "submitted" /\ f \notin e.done \cup e.failed
        BY <1>7, <2>1, <2>3
      <3>2. Tracked(f)
        BY <2>1, <3>1 DEF NothingLost
      <3> QED
        BY <1>3, <1>4, <1>5, <3>1, <3>2 DEF Tracked
    <2> QED
      BY <1>3, <2>1, <2>2, <2>3 DEF NothingLost
  <1>11. ASSUME NEW f \in Files, RightOK(f) PROVE RowTold(f) /\ FlightSame(f)
    <2>1. RowTold(f)
      <3>1. f \in done \cup failed => Pending(f)
        BY <1>2 DEF Pending
      <3>2. f \in done => Copied(f)
        BY <1>2, <1>11 DEF RightOK
      <3> QED
        BY <1>7, <3>1, <3>2 DEF RowTold
    <2>2. Pending(f)' => Pending(f)
      BY <1>3, <1>5 DEF Pending
    <2> QED
      BY <1>3, <1>5, <1>11, <2>1, <2>2 DEF FlightSame, RightOK
  <1> QED
    BY <1>1, <1>3, <1>8, <1>9, <1>10, <1>11, ManagerStepKeeps DEF ManagerStep

(* The rows of some files are written with a state.                            *)
LEMMA RowsWritten ==
    ASSUME row \in [Files -> RowType], NEW F, NEW s \in Statuses, row' = InStates(F, s)
    PROVE  /\ row' \in [Files -> RowType]
           /\ \A f \in Files : /\ row'[f].publish = row[f].publish
                               /\ row'[f].state = IF f \in F THEN s ELSE row[f].state
  <1>1. ASSUME NEW f \in Files
        PROVE  /\ row'[f] \in RowType /\ row'[f].publish = row[f].publish
               /\ row'[f].state = IF f \in F THEN s ELSE row[f].state
    <2>1. row[f] \in RowType
      OBVIOUS
    <2>2. [row[f] EXCEPT !.state = s] \in RowType /\ [row[f] EXCEPT !.state = s].publish = row[f].publish
          /\ [row[f] EXCEPT !.state = s].state = s
      BY <2>1 DEF RowType
    <2>3. row'[f] = IF f \in F THEN [row[f] EXCEPT !.state = s] ELSE row[f]
      BY DEF InStates
    <2> QED
      BY <2>1, <2>2, <2>3
  <1> QED
    BY <1>1 DEF InStates

(* A job of FTS more: its files are the lines that were not read, all active.  *)
LEMMA JobAdded ==
    ASSUME Types, ListsOK, fts' = Append(fts, [f \in NewFiles |-> "active"]), content' = Append(content, NewFiles)
    PROVE  /\ fts' \in Seq(FtsJob) /\ content' \in Seq(SUBSET Files) /\ Len(fts) \in Nat
           /\ Len(fts') = Len(fts) + 1 /\ Len(content') = Len(fts) + 1
           /\ DOMAIN fts = 1..Len(fts) /\ DOMAIN fts' = 1..(Len(fts) + 1)
           /\ \A j \in 1..Len(fts) : fts'[j] = fts[j] /\ content'[j] = content[j]
           /\ fts'[Len(fts) + 1] = [f \in NewFiles |-> "active"] /\ content'[Len(fts) + 1] = NewFiles
           /\ 1..(Len(fts) + 1) = 1..Len(fts) \cup {Len(fts) + 1}
  <1>1. fts \in Seq(FtsJob) /\ content \in Seq(SUBSET Files) /\ Len(content) = Len(fts) /\ Len(fts) \in Nat
    BY DEF Types, ManagerTypes, ListsOK
  <1>2. NewFiles \in SUBSET Files
    <2>1. transfers \in Seq(Files) /\ last \in Nat
      BY DEF Types, PostTypes, ManagerTypes
    <2> QED
      BY <2>1 DEF NewFiles
  <1>3. [f \in NewFiles |-> "active"] \in FtsJob
    <2>1. [f \in NewFiles |-> "active"] \in [NewFiles -> FileStates]
      BY DEF FileStates
    <2> QED
      BY <1>2, <2>1 DEF FtsJob
  <1>4. PICK J \in FtsJob : J = [f \in NewFiles |-> "active"]
    BY <1>3
  <1>5. /\ fts' \in Seq(FtsJob) /\ Len(fts') = Len(fts) + 1 /\ fts'[Len(fts) + 1] = J
        /\ \A j \in 1..Len(fts) : fts'[j] = fts[j]
    BY <1>1, <1>4
  <1>6. /\ content' \in Seq(SUBSET Files) /\ Len(content') = Len(content) + 1
        /\ content'[Len(content) + 1] = NewFiles
        /\ \A j \in 1..Len(content) : content'[j] = content[j]
    BY <1>1, <1>2
  <1>7. DOMAIN fts = 1..Len(fts) /\ DOMAIN fts' = 1..(Len(fts) + 1)
    BY <1>1, <1>5
  <1>8. 1..(Len(fts) + 1) = 1..Len(fts) \cup {Len(fts) + 1}
    BY <1>1
  <1> QED
    BY <1>1, <1>4, <1>5, <1>6, <1>7, <1>8

(* The new lines are submitted, or fail before they are.                       *)
LEMMA SubmitKeeps ==
    ASSUME IInv, Submit, UNCHANGED bound
    PROVE  IInv'
  <1>1. /\ Types /\ ListsOK /\ ManagerOK /\ SourcesOK /\ mgr \in MgrType /\ last \in Nat /\ jobids \subseteq Nat
        /\ content \in Seq(SUBSET Files) /\ fts \in Seq(FtsJob) /\ DOMAIN fts = 1..Len(fts)
        /\ source \in [Files -> Nat] /\ row \in [Files -> RowType] /\ Len(transfers) \in Nat
    BY ManagerKnows
  <1>2. /\ UNCHANGED <<run, step, error, source, metadata, dest, cache, after, transfers, stale, last, jobids>>
        /\ MgrUnchanged /\ mgr.at = "submit"
    BY DEF Submit, MgrUnchanged, postjobs, cached
  <1>3. mgr.told = {} /\ mgr.new = {} /\ last <= Len(transfers) /\ jobids \subseteq 1..Len(fts)
        /\ mgr.todo \subseteq jobids /\ mgr.ongoing \subseteq jobids
    BY <1>1, <1>2 DEF ManagerOK
  <1>4. CASE mgr' = Idle /\ UNCHANGED <<row, content, fts, faults>>
    <2>1. mgr'.at = "idle" /\ mgr'.todo = {} /\ mgr'.ongoing = {} /\ mgr'.told = {} /\ mgr'.new = {}
      BY <1>4 DEF Idle
    <2>2. ManagerOK'
      BY <1>1, <1>2, <1>3, <1>4, <2>1 DEF ManagerOK
    <2>3. NothingLost => NothingLost'
      BY <1>2, <1>3, <1>4, <2>1 DEF NothingLost, Tracked
    <2>4. mgr' \in MgrType /\ jobids' \subseteq Nat /\ last' = last /\ mgr'.told \subseteq mgr.told /\ MayFail
      BY <1>1, <1>2, <1>4, <2>1, IdleIsFine DEF MayFail
    <2> QED
      BY <1>1, <1>2, <1>4, <2>2, <2>3, <2>4, OwnFilesKeep
  <1>5. CASE /\ fts' = Append(fts, [f \in NewFiles |-> "active"])
             /\ content' = Append(content, NewFiles)
             /\ mgr' = [mgr EXCEPT !.at = "mark", !.new = {Len(fts')}, !.to = Len(transfers)]
             /\ UNCHANGED <<row, faults>>
    <2>1. /\ fts' \in Seq(FtsJob) /\ content' \in Seq(SUBSET Files) /\ Len(fts) \in Nat
          /\ Len(fts') = Len(fts) + 1 /\ Len(content') = Len(fts) + 1
          /\ DOMAIN fts = 1..Len(fts) /\ DOMAIN fts' = 1..(Len(fts) + 1)
          /\ \A j \in 1..Len(fts) : fts'[j] = fts[j] /\ content'[j] = content[j]
          /\ fts'[Len(fts) + 1] = [f \in NewFiles |-> "active"] /\ content'[Len(fts) + 1] = NewFiles
          /\ 1..(Len(fts) + 1) = 1..Len(fts) \cup {Len(fts) + 1}
      BY <1>1, <1>5, JobAdded
    <2>2. /\ mgr' \in MgrType /\ mgr'.at = "mark" /\ mgr'.new = {Len(fts) + 1} /\ mgr'.to = Len(transfers)
          /\ mgr'.told = {} /\ mgr'.todo = mgr.todo /\ mgr'.ongoing = mgr.ongoing
      <3>1. PICK n \in Nat, l \in Nat : n = Len(fts) + 1 /\ n = Len(fts') /\ l = Len(transfers)
        BY <1>1, <2>1
      <3>2. mgr' = [mgr EXCEPT !.at = "mark", !.new = {n}, !.to = l]
        BY <1>5, <3>1
      <3>3. /\ mgr' \in MgrType /\ mgr'.at = "mark" /\ mgr'.new = {n} /\ mgr'.to = l
            /\ mgr'.told = mgr.told /\ mgr'.todo = mgr.todo /\ mgr'.ongoing = mgr.ongoing
        BY <1>1, <3>2 DEF MgrType
      <3> QED
        BY <1>3, <3>1, <3>3
    <2>3. ManagerTypes'
      BY <1>1, <1>2, <2>1, <2>2 DEF ManagerTypes
    <2>4. ListsOK' /\ SourcesOK'
      BY <1>1, <1>2, <2>1 DEF ListsOK, SourcesOK
    <2>5. ManagerOK'
      BY <1>1, <1>2, <1>3, <2>1, <2>2 DEF ManagerOK
    <2>6. faults' = 0 => NothingLost'
      <3>1. SUFFICES ASSUME NothingLost PROVE NothingLost'
        BY <1>5 DEF IInv
      <3>2. \A j \in 1..(Len(fts) + 1) : \A f \in DOMAIN fts'[j] : fts'[j][f] # "stuck"
        BY <2>1, <3>1 DEF NothingLost
      <3>3. ASSUME NEW f \in Files, Tracked(f) PROVE Tracked(f)'
        BY <1>2, <1>3, <2>1, <2>2, <3>3 DEF Tracked
      <3> QED
        BY <1>5, <2>1, <2>2, <3>1, <3>2, <3>3 DEF NothingLost
    <2>7. ASSUME NEW f \in Files, RightOK(f) PROVE RowTold(f) /\ FlightSame(f)
      <3>1. f \in NewFiles => Pending(f)
        BY DEF NewFiles, Pending
      <3>2. Pending(f)' => Pending(f)
        <4>1. ASSUME NEW j \in 1..(Len(fts) + 1), f \in DOMAIN fts'[j], fts'[j][f] = "active" \/ f \in content'[j]
              PROVE  Pending(f)
          <5>1. CASE j = Len(fts) + 1
            BY <2>1, <3>1, <4>1, <5>1
          <5>2. CASE j \in 1..Len(fts)
            BY <2>1, <4>1, <5>2 DEF Pending
          <5> QED
            BY <2>1, <5>1, <5>2
        <4> QED
          BY <1>2, <2>1, <2>2, <4>1 DEF Pending
      <3>3. \A j \in 1..(Len(fts) + 1) : f \in content'[j] /\ fts'[j][f] = "finished" => Copied(f)
        BY <2>1, <2>7 DEF RightOK
      <3> QED
        BY <1>5, <2>1, <2>2, <3>2, <3>3 DEF RowTold, FlightSame
    <2> QED
      BY <1>1, <1>2, <1>5, <2>3, <2>4, <2>5, <2>6, <2>7, ManagerStepKeeps DEF ManagerStep, MayFail
  <1>6. CASE /\ Fault /\ \E told \in BOOLEAN : row' = IF told THEN InStates(NewFiles, "failed") ELSE row
             /\ mgr' = [mgr EXCEPT !.at = "move", !.to = Len(transfers)]
             /\ UNCHANGED <<content, fts>>
    <2>1. /\ mgr' \in MgrType /\ mgr'.at = "move" /\ mgr'.new = {} /\ mgr'.to = Len(transfers)
          /\ mgr'.told = {} /\ mgr'.todo = mgr.todo /\ mgr'.ongoing = mgr.ongoing
      BY <1>1, <1>3, <1>6 DEF MgrType
    <2>2. /\ row' \in [Files -> RowType]
          /\ \A f \in Files : /\ row'[f].publish = row[f].publish
                              /\ row'[f].state = row[f].state \/ (f \in NewFiles /\ row'[f].state = "failed")
      BY <1>1, <1>6, RowsWritten DEF Statuses
    <2>3. ManagerTypes' /\ ListsOK' /\ SourcesOK'
      BY <1>1, <1>2, <1>6, <2>1 DEF ManagerTypes, ListsOK, SourcesOK
    <2>4. ManagerOK'
      BY <1>1, <1>2, <1>3, <1>6, <2>1 DEF ManagerOK
    <2>5. faults' # 0
      BY <1>1, <1>6, FaultsCount DEF MayFail
    <2>6. ASSUME NEW f \in Files, RightOK(f) PROVE RowTold(f) /\ FlightSame(f)
      <3>1. f \in NewFiles => Pending(f)
        BY DEF NewFiles, Pending
      <3>2. Pending(f)' => Pending(f)
        BY <1>2, <1>6, <2>1 DEF Pending
      <3> QED
        BY <1>6, <2>1, <2>2, <2>6, <3>1, <3>2 DEF RowTold, FlightSame, RightOK
    <2> QED
      BY <1>1, <1>2, <1>6, <2>2, <2>3, <2>4, <2>5, <2>6, ManagerStepKeeps DEF ManagerStep, MayFail
  <1> QED
    BY <1>4, <1>5, <1>6 DEF Submit

(* The rows of the new job are marked: all of its files are in its list.       *)
LEMMA MarkSubmittedKeeps ==
    ASSUME IInv, MarkSubmitted, UNCHANGED bound
    PROVE  IInv'
  <1>1. /\ Types /\ ListsOK /\ ManagerOK /\ SourcesOK /\ mgr \in MgrType /\ last \in Nat /\ jobids \subseteq Nat
        /\ content \in Seq(SUBSET Files) /\ fts \in Seq(FtsJob) /\ DOMAIN fts = 1..Len(fts)
        /\ source \in [Files -> Nat] /\ row \in [Files -> RowType] /\ Len(transfers) \in Nat
    BY ManagerKnows
  <1>2. PICK i \in mgr.new : i = (CHOOSE j \in mgr.new : TRUE)
    BY <1>1 DEF MarkSubmitted, ManagerOK
  <1>3. /\ UNCHANGED <<run, step, error, source, metadata, dest, cache, after, transfers, stale>>
        /\ UNCHANGED <<last, jobids, content, fts>> /\ mgr.at = "mark"
    BY DEF MarkSubmitted, MgrUnchanged, postjobs, cached
  <1>4. /\ mgr.new = {i} /\ i = Len(fts) /\ i \in 1..Len(fts) /\ content[i] = DOMAIN fts[i] /\ mgr.told = {}
        /\ mgr.todo \subseteq jobids /\ mgr.ongoing \subseteq jobids
        /\ last <= mgr.to /\ mgr.to <= Len(transfers)
    BY <1>1, <1>2, <1>3 DEF ManagerOK
  <1>5. \A f \in DOMAIN fts[i] : Pending(f)
    BY <1>1, <1>4 DEF Pending
  <1>6. /\ row' = InStates(DOMAIN fts[i], "submitted") \/ row' = row
        /\ \/ mgr' = [mgr EXCEPT !.at = "move"] /\ UNCHANGED faults
           \/ Fault /\ mgr' = Idle
    BY <1>2 DEF MarkSubmitted
  <1>7. /\ row' \in [Files -> RowType]
        /\ \A f \in Files : /\ row'[f].publish = row[f].publish
                            /\ row'[f].state = row[f].state \/ (f \in content[i] /\ row'[f].state = "submitted")
    BY <1>1, <1>4, <1>6, RowsWritten DEF Statuses
  <1>8. /\ mgr' \in MgrType /\ mgr'.at \in {"move", "idle"} /\ mgr'.told = {} /\ mgr'.new \subseteq mgr.new
        /\ mgr'.todo \subseteq mgr.todo /\ mgr'.ongoing \subseteq mgr.ongoing
        /\ mgr'.at = "move" => mgr'.to = mgr.to
        /\ mgr'.at = "idle" => mgr' = Idle
    <2>1. CASE mgr' = [mgr EXCEPT !.at = "move"]
      BY <1>1, <1>4, <2>1 DEF MgrType
    <2>2. CASE mgr' = Idle
      BY <1>4, <2>2, IdleIsFine DEF Idle
    <2> QED
      BY <1>6, <2>1, <2>2
  <1>9. ManagerTypes' /\ ListsOK' /\ SourcesOK'
    BY <1>1, <1>3, <1>8 DEF ManagerTypes, ListsOK, SourcesOK
  <1>10. ManagerOK'
    BY <1>1, <1>3, <1>4, <1>8 DEF ManagerOK
  <1>11. MayFail
    BY <1>6 DEF MayFail
  <1>12. faults' = 0 => NothingLost'
    <2>1. SUFFICES ASSUME NothingLost, mgr' = [mgr EXCEPT !.at = "move"] PROVE NothingLost'
      <3>1. faults' = 0 => faults = 0 /\ ~Fault
        BY <1>1, <1>11, FaultsCount
      <3> QED
        BY <1>6, <3>1 DEF IInv
    <2>2. mgr'.new = mgr.new /\ mgr'.at = "move"
      BY <1>1, <2>1 DEF MgrType
    <2>3. ASSUME NEW f \in Files, row'[f].state = "submitted" PROVE Tracked(f)'
      <3>1. f \in content[i] => Tracked(f)'
        BY <1>3, <1>4, <2>2 DEF Tracked
      <3>2. row[f].state = "submitted" => Tracked(f)'
        BY <1>3, <1>4, <1>8, <2>1, <2>2 DEF NothingLost, Tracked
      <3> QED
        BY <1>7, <2>3, <3>1, <3>2
    <2> QED
      BY <1>3, <2>1, <2>2, <2>3 DEF NothingLost
  <1>13. ASSUME NEW f \in Files, RightOK(f) PROVE RowTold(f) /\ FlightSame(f)
    <2>1. RowTold(f)
      BY <1>4, <1>5, <1>7 DEF RowTold
    <2>2. Pending(f)' => Pending(f)
      BY <1>3, <1>8 DEF Pending
    <2> QED
      BY <1>3, <1>8, <1>13, <2>1, <2>2 DEF FlightSame, RightOK
  <1> QED
    BY <1>1, <1>3, <1>7, <1>9, <1>10, <1>11, <1>12, <1>13, ManagerStepKeeps DEF ManagerStep

(* Every step keeps the invariant.                                             *)
LEMMA StepKeeps ==
    ASSUME IInv, [Next]_vars
    PROVE  IInv'
  <1>1. CASE UNCHANGED vars
    <2>1. UNCHANGED <<run, step, error, row, metadata, source, dest, cache, after, transfers, last, jobids, content,
                      mgr, fts, stale, faults, bound>>
      BY <1>1 DEF vars, postjobs, databases, storage, cached, managed
    <2>2. Types' /\ ListsOK' /\ ManagerOK' /\ SourcesOK' /\ (faults' = 0 => NothingLost')
      <3>1. Types'
        BY <2>1 DEF IInv, Types, PostTypes, ManagerTypes
      <3>2. ListsOK' /\ ManagerOK' /\ SourcesOK'
        BY <2>1 DEF IInv, ListsOK, ManagerOK, SourcesOK
      <3>3. faults' = 0 => NothingLost'
        BY <2>1 DEF IInv, NothingLost, Tracked
      <3> QED
        BY <3>1, <3>2, <3>3
    <2>3. ASSUME NEW f \in Files \ stale PROVE FileSame(f) /\ CacheSame(f) /\ FlightSame(f)
      BY <2>1, FlightStays DEF IInv, FileSame, RowTold, CacheSame, managed
    <2> QED
      BY <2>1, <2>2, <2>3, AllKeep DEF MayFail
  <1>2. CASE Next
    <2>1. UNCHANGED bound
      BY <1>2 DEF Next
    <2>2. CASE \E f \in Files : RunJob(f) \/ PostJob(f) \/ PostJobKilled(f)
      <3>1. PICK f \in Files : RunJob(f) \/ PostJob(f) \/ PostJobKilled(f)
        BY <2>2
      <3> QED
        BY <2>1, <3>1, RunJobKeeps, InjectKeeps, UpdateDocKeeps, MarkNewKeeps, HandOverKeeps, LooksKeep, CancelKeeps,
           UploadMetadataKeeps, AskPublicationKeeps, PostJobKilledKeeps DEF PostJob
    <2>3. CASE CacheExpires
      BY <2>1, <2>3, CacheExpiresKeeps
    <2>4. CASE Fts
      BY <2>1, <2>4, FtsKeeps
    <2>5. CASE Manager
      BY <2>1, <2>5, ManagerStartsKeeps, CheckKeeps, TellKeeps, SaveJobsKeeps, SubmitKeeps, MarkSubmittedKeeps,
         MoveLastKeeps, AddJobsKeeps DEF Manager
    <2>6. CASE ManagerKilled
      BY <2>1, <2>6, ManagerKilledKeeps
    <2> QED
      BY <1>2, <2>2, <2>3, <2>4, <2>5, <2>6 DEF Next, Step
  <1> QED
    BY <1>1, <1>2

(* Before anything is run the invariant holds.                                 *)
LEMMA InitKeeps ==
    ASSUME Init
    PROVE  IInv
  <1>1. bound.faults \in Nat /\ bound.runs \in [Files -> Nat]
    BY BoundsAreNumbers DEF Init
  <1>2. Types
    <2>1. PostTypes
      BY DEF Init, PostTypes, Steps, RowType, NoRow, Statuses
    <2>2. ManagerTypes
      <3>1. content \in Seq(SUBSET Files) /\ fts \in Seq(FtsJob)
        BY DEF Init
      <3> QED
        BY <3>1, IdleIsFine DEF Init, ManagerTypes
    <2> QED
      BY <1>1, <2>1, <2>2 DEF Init, Types
  <1>3. Len(fts) = 0 /\ Len(content) = 0 /\ Len(transfers) = 0 /\ DOMAIN fts = {}
    BY DEF Init
  <1>4. mgr = Idle /\ mgr.at = "idle" /\ mgr.told = {} /\ mgr.todo = {} /\ mgr.ongoing = {} /\ mgr.new = {}
    BY DEF Init, Idle
  <1>5. ListsOK /\ ManagerOK /\ SourcesOK /\ NothingLost
    BY <1>1, <1>3, <1>4 DEF Init, ListsOK, ManagerOK, SourcesOK, NothingLost, NoRow
  <1>6. ASSUME NEW f \in Files PROVE RightOK(f) /\ OfferOK(f)
    <2>1. ~Pending(f)
      BY <1>3, <1>4 DEF Init, Pending
    <2> QED
      BY <1>3, <1>4, <2>1 DEF Init, RightOK, OfferOK, Asking, Looking, Staged, NoRow
  <1> QED
    BY <1>2, <1>5, <1>6 DEF IInv

-------------------------------------------------------------------------------
(* The theorems.                                                               *)

(* The invariant holds in every reachable state.                               *)
THEOREM Invariance == Spec => []IInv
  <1>1. Init => IInv
    BY InitKeeps
  <1>2. IInv /\ [Next]_vars => IInv'
    BY StepKeeps
  <1> QED
    BY <1>1, <1>2, PTL DEF Spec

(* Every variable keeps its type, and the manager to the lines and the jobs    *)
(* that exist, for any number of files, runs, calls without answer and kills.  *)
THEOREM TypeCorrect == Spec => []TypeOK
  <1>1. IInv => TypeOK
    <2> SUFFICES ASSUME IInv PROVE TypeOK
      OBVIOUS
    <2>1. /\ Types /\ ListsOK /\ ManagerOK /\ SourcesOK /\ mgr \in MgrType /\ last \in Nat /\ jobids \subseteq Nat
          /\ content \in Seq(SUBSET Files) /\ fts \in Seq(FtsJob) /\ Len(fts) \in Nat
          /\ DOMAIN fts = 1..Len(fts) /\ DOMAIN content = 1..Len(fts)
          /\ transfers \in Seq(Files) /\ Len(transfers) \in Nat
      BY ManagerKnows
    <2>2. \A f \in Files : run[f] <= bound.runs[f]
      BY <2>1 DEF SourcesOK
    <2>3. last \in 0..Len(transfers) /\ jobids \subseteq DOMAIN fts /\ mgr.ongoing \subseteq jobids
      BY <2>1 DEF ManagerOK
    <2>4. ASSUME NEW i \in DOMAIN fts
          PROVE  fts[i] \in [DOMAIN fts[i] -> {"active", "finished", "failed", "stuck"}] /\ content[i] \subseteq DOMAIN fts[i]
      <3>1. PICK D \in SUBSET Files : fts[i] \in [D -> FileStates]
        BY <2>1 DEF FtsJob
      <3>2. fts[i] \in [DOMAIN fts[i] -> {"active", "finished", "failed", "stuck"}]
        BY <3>1 DEF FileStates
      <3> QED
        BY <2>1, <3>2 DEF ListsOK
    <2> QED
      BY <2>1, <2>2, <2>3, <2>4 DEF TypeOK, Types, PostTypes, ManagerTypes, Steps, RowType
  <1> QED
    BY <1>1, Invariance, PTL

(* What a post-job found transferred is the file of its run, and with at most  *)
(* one failed call a file the Publisher may take is the one its metadata       *)
(* describe: for any number of files, runs and steps in between, unless a run  *)
(* of the job began before the transfer of an earlier one was over.            *)
THEOREM StagedFilesAreRight == Spec => []FilesAreRight
  <1>1. IInv => FilesAreRight
    <2> SUFFICES ASSUME IInv PROVE FilesAreRight
      OBVIOUS
    <2>1. StagedIsThere
      BY DEF IInv, RightOK, Staged, Copied, StagedIsThere
    <2>2. OfferedIsDescribed
      BY DEF IInv, OfferOK, OfferedIsDescribed
    <2> QED
      BY <2>1, <2>2 DEF FilesAreRight
  <1> QED
    BY <1>1, Invariance, PTL

(* As long as no call fails and nothing is killed, the manager knows a job for *)
(* each file marked submitted, for any number of files and jobs of FTS.        *)
THEOREM SubmittedAreTracked == Spec => []SubmittedIsTracked
  <1>1. IInv => SubmittedIsTracked
    BY DEF IInv, NothingLost, SubmittedIsTracked
  <1> QED
    BY <1>1, Invariance, PTL
===============================================================================
