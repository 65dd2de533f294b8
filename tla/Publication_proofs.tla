-------------------------- MODULE Publication_proofs --------------------------
(* Proofs about the publication of the files of a task, for any number of      *)
(* files, parents and faults: whatever is marked as published is in DBS, in    *)
(* one block, with its parents there (DoneIsPublished), whoever is stopped and *)
(* whoever publishes beside it.                                                *)
(*                                                                             *)
(* The invariant follows what a TaskPublish.py knows (SlaveOK): the files it   *)
(* will mark, or takes for published, are in DBS, and the parents that it has  *)
(* had migrated so far are at the destination. Both stay true when another one *)
(* publishes, because DBS only grows (Grows).                                  *)
EXTENDS Publication, FiniteSetTheorems, TLAPS

States == {"idle", "metadata", "tell", "list", "source", "global", "insert", "mark"}

SlaveType ==
    [at : States, active : SUBSET Files, files : SUBSET Files, new : SUBSET Files,
     kept : [Files -> SUBSET Parents], good : SUBSET Files, bad : SUBSET Files, timed : BOOLEAN]

BoundType ==
    [files : SUBSET Files, bare : SUBSET Files, parents : [Files -> SUBSET Parents],
     where : [Parents -> Places], refused : SUBSET {"source", "global"}, faults : Nat]

Types ==
    /\ publication \in [Files -> {"none", "new", "acquired", "done", "failed"}]
    /\ recent \in BOOLEAN /\ ended \in BOOLEAN /\ blackList \in BOOLEAN
    /\ json \subseteq Files /\ mine \in Slaves \cup {0}
    /\ slave \in [Slaves -> SlaveType]
    /\ blocks \subseteq SUBSET Files /\ listed \in [Files -> SUBSET Parents] /\ there \subseteq Parents
    /\ bound \in BoundType

(* A TaskPublish.py that deals with its files.                                 *)
Publishing(s) == s.at \in {"source", "global", "insert"}

(* The parents of its files that it has made sure of so far are there.         *)
Sure(s) == \A f \in Files : \A p \in s.kept[f] :
    /\ Where(p) # "nowhere"
    /\ Where(p) = "source" /\ s.at \in {"global", "insert"} => p \in there
    /\ Where(p) = "global" /\ s.at = "insert" => p \in there

(* What a slave and its TaskPublish.py know is true of DBS.                    *)
SlaveOK(s) ==
    /\ s.new \subseteq s.files /\ s.good \cap s.bad = {}
    /\ s.at # "mark" => s.good = {}
    /\ s.at \in {"list", "source", "global"} => s.bad = {}
    /\ Publishing(s) => s.new # {} /\ s.files \ (s.new \cup s.bad) \subseteq InDBS /\ Sure(s)
    /\ s.good \subseteq InDBS

SlavesOK == \A i \in Slaves : SlaveOK(slave[i])

(* The master waits for a slave that is at work.                               *)
MineOK == mine # 0 => slave[mine].at # "idle"

(* What DBS has, and what the transfers database says of it.                   *)
DBSOK ==
    /\ \A b \in blocks : b # {} /\ Cardinality(b) <= PerBlock
    /\ \A b, c \in blocks : b \cap c # {} => b = c
    /\ \A f \in Files : publication[f] = "done" => f \in InDBS
    /\ \A f \in Files : \A p \in listed[f] : Where(p) = "illegal" \/ p \in there
    /\ \A p \in Parents : Where(p) = "destination" => p \in there

IInv == Types /\ SlavesOK /\ MineOK /\ DBSOK

-------------------------------------------------------------------------------
(* Steps that change one slave, while DBS only grows.                          *)

Grows == InDBS \subseteq InDBS' /\ there \subseteq there' /\ bound' = bound

(* The bounds of a behaviour have their type.                                  *)
LEMMA BoundHasType == bound \in Bounds => bound \in BoundType
  BY PublicationAssumption DEF BoundType

(* What a slave knows stays true.                                              *)
LEMMA KnowledgeLasts ==
    ASSUME Grows, NEW s, SlaveOK(s)
    PROVE  SlaveOK(s)'
  <1>1. Sure(s) => Sure(s)'
    BY DEF Grows, Sure, Where
  <1> QED
    BY <1>1 DEF Grows, SlaveOK, Publishing

(* When no slave changes, what they know stays true.                           *)
LEMMA SlavesKeep ==
    ASSUME SlavesOK, Grows, UNCHANGED slave
    PROVE  SlavesOK'
  <1>1. ASSUME NEW i \in Slaves PROVE SlaveOK(slave[i])'
    <2>1. PICK s : s = slave[i] /\ s = slave'[i]
      OBVIOUS
    <2>2. SlaveOK(s)'
      BY <2>1, KnowledgeLasts DEF SlavesOK
    <2> QED
      BY <2>1, <2>2
  <1> QED
    BY <1>1 DEF SlavesOK

(* The slave i becomes s: the master does not wait for it if it is idle.       *)
Awaited(i, s) == \/ mine' = 0
                 \/ mine' \in {mine, i} /\ s.at # "idle"
                 \/ mine' = mine /\ mine # i

(* One slave changes.                                                          *)
LEMMA SlaveChanges ==
    ASSUME Types, SlavesOK, MineOK, Grows, NEW i \in Slaves, NEW s \in SlaveType,
           slave' = [slave EXCEPT ![i] = s], SlaveOK(s)', Awaited(i, s)
    PROVE  slave' \in [Slaves -> SlaveType] /\ SlavesOK' /\ MineOK' /\ mine' \in Slaves \cup {0}
  <1>1. slave' \in [Slaves -> SlaveType]
    BY DEF Types
  <1>2. ASSUME NEW j \in Slaves PROVE SlaveOK(slave[j])'
    <2>1. CASE j = i
      <3>1. slave'[j] = s
        BY <2>1 DEF Types
      <3> QED
        BY <3>1
    <2>2. CASE j # i
      <3>1. PICK o : o = slave[j] /\ o = slave'[j]
        BY <2>2 DEF Types
      <3>2. SlaveOK(o)'
        BY <3>1, KnowledgeLasts DEF SlavesOK
      <3> QED
        BY <3>1, <3>2
    <2> QED
      BY <2>1, <2>2
  <1>3. MineOK'
    BY DEF Awaited, MineOK, Types
  <1>4. mine' \in Slaves \cup {0}
    BY DEF Awaited, Types
  <1> QED
    BY <1>1, <1>2, <1>3, <1>4 DEF SlavesOK

(* A slave that does nothing knows nothing.                                    *)
LEMMA IdleIsOK == Idle \in SlaveType /\ SlaveOK(Idle) /\ SlaveOK(Idle)'
  <1>1. Idle \in SlaveType
    BY DEF Idle, SlaveType, States
  <1>2. Idle.at = "idle" /\ Idle.new = {} /\ Idle.files = {} /\ Idle.good = {} /\ Idle.bad = {}
    BY DEF Idle
  <1> QED
    BY <1>1, <1>2 DEF SlaveOK, Publishing

(* The slave i goes on.                                                        *)
LEMMA SlaveGoes ==
    ASSUME Types, SlavesOK, MineOK, Grows, NEW i \in Slaves, NEW a, NEW s \in SlaveType, SlaveOK(s)',
           Goes(i, a, s), s.at # "idle", mine' \in {mine, i}
    PROVE  slave' \in [Slaves -> SlaveType] /\ SlavesOK' /\ MineOK' /\ mine' \in Slaves \cup {0}
  BY SlaveChanges DEF Goes, Awaited

(* The slave i ends.                                                           *)
LEMMA SlaveEnds ==
    ASSUME Types, SlavesOK, MineOK, Grows, NEW i \in Slaves, NEW a, Ends(i, a)
    PROVE  slave' \in [Slaves -> SlaveType] /\ SlavesOK' /\ MineOK' /\ mine' \in Slaves \cup {0}
  <1>1. slave' = [slave EXCEPT ![i] = Idle] /\ Awaited(i, Idle)
    BY DEF Ends, Goes, Types, Awaited
  <1> QED
    BY <1>1, IdleIsOK, SlaveChanges

(* DBS stays as it is, and only files it has become published.                 *)
LEMMA DBSStays ==
    ASSUME DBSOK, UNCHANGED <<dbs, bound>>,
           \A f \in Files : publication'[f] = "done" => publication[f] = "done" \/ f \in InDBS
    PROVE  DBSOK' /\ Grows
  BY DEF DBSOK, Grows, InDBS, dbs, Where

-------------------------------------------------------------------------------
(* The blocks.                                                                 *)

(* The files of F before x.                                                    *)
Before(F, x) == {g \in F : g < x}

(* A later file has more files before it.                                      *)
LEMMA MoreBefore ==
    ASSUME NEW F \in SUBSET Files, NEW x \in F, NEW y \in F, x < y
    PROVE  Cardinality(Before(F, x)) < Cardinality(Before(F, y))
  <1>1. \A z \in F : z \in Nat
    BY PublicationAssumption
  <1>2. IsFiniteSet(F)
    BY FS_Subset, PublicationAssumption
  <1>3. IsFiniteSet(Before(F, x)) /\ IsFiniteSet(Before(F, y))
    BY <1>2, FS_Subset DEF Before
  <1>4. x \notin Before(F, x) /\ Before(F, x) \cup {x} \in SUBSET Before(F, y)
    BY <1>1 DEF Before
  <1>5. Cardinality(Before(F, x) \cup {x}) = Cardinality(Before(F, x)) + 1
    BY <1>3, <1>4, FS_AddElement
  <1>6. Cardinality(Before(F, x) \cup {x}) <= Cardinality(Before(F, y))
    BY <1>3, <1>4, FS_Subset
  <1>7. Cardinality(Before(F, x)) \in Nat /\ Cardinality(Before(F, y)) \in Nat
    BY <1>3, FS_CardinalityType
  <1> QED
    BY <1>5, <1>6, <1>7

(* Different files have a different number of files before them.               *)
LEMMA BeforeDiffers ==
    ASSUME NEW F \in SUBSET Files, NEW S \in SUBSET F, NEW T,
           \A f \in S : Cardinality(Before(F, f)) \in T
    PROVE  [f \in S |-> Cardinality(Before(F, f))] \in Injection(S, T)
  <1> DEFINE count == [f \in S |-> Cardinality(Before(F, f))]
  <1>1. \A x \in F : x \in Nat
    BY PublicationAssumption
  <1>2. \A x \in F : Cardinality(Before(F, x)) \in Nat
    <2>1. \A x \in F : Before(F, x) \in SUBSET Files
      BY DEF Before
    <2> QED
      BY <2>1, FS_Subset, FS_CardinalityType, PublicationAssumption
  <1>3. \A x, y \in S : x < y => count[x] < count[y]
    BY MoreBefore
  <1>4. \A x, y \in S : count[x] = count[y] => x = y
    BY <1>1, <1>2, <1>3
  <1> QED
    BY <1>4 DEF Injection, IsInjective

(* A block is not empty, and takes PerBlock files at most.                     *)
LEMMA NextBlockIs ==
    ASSUME NEW F \in SUBSET Files, F # {}
    PROVE  NextBlock(F) # {} /\ Cardinality(NextBlock(F)) <= PerBlock
  <1>1. PICK n \in Nat : n = PerBlock /\ 1 <= n
    BY PublicationAssumption
  <1>2. NextBlock(F) = {f \in F : Cardinality(Before(F, f)) < n} /\ NextBlock(F) \in SUBSET F
    BY <1>1 DEF NextBlock, Before
  <1>3. IsFiniteSet(F)
    BY FS_Subset, PublicationAssumption
  <1>4. PICK m \in Nat : m = Cardinality(F) /\ 1 <= m
    BY <1>3, FS_CardinalityType, FS_EmptySet
  <1>5. \A f \in F : Cardinality(Before(F, f)) \in 0..m - 1
    <2> SUFFICES ASSUME NEW f \in F PROVE Cardinality(Before(F, f)) \in 0..m - 1
      OBVIOUS
    <2>1. IsFiniteSet(F \ {f}) /\ Cardinality(F \ {f}) = m - 1
      BY <1>3, <1>4, FS_RemoveElement
    <2>2. Before(F, f) \in SUBSET (F \ {f})
      BY PublicationAssumption DEF Before
    <2>3. IsFiniteSet(Before(F, f)) /\ Cardinality(Before(F, f)) <= Cardinality(F \ {f})
      BY <2>1, <2>2, FS_Subset
    <2>4. Cardinality(Before(F, f)) \in Nat
      BY <2>3, FS_CardinalityType
    <2> QED
      BY <2>1, <2>3, <2>4
  <1>6. ASSUME NextBlock(F) = {} PROVE FALSE
    <2>1. \A f \in F : Cardinality(Before(F, f)) \in 1..m - 1
      BY <1>1, <1>2, <1>5, <1>6
    <2>2. [f \in F |-> Cardinality(Before(F, f))] \in Injection(F, 1..m - 1)
      BY <2>1, BeforeDiffers
    <2>3. PICK k \in Int : k = m - 1 /\ 0 <= k
      BY <1>4
    <2>4. IsFiniteSet(1..k) /\ Cardinality(1..k) = k
      BY <2>3, FS_Interval
    <2>5. Cardinality(F) <= k
      BY <2>2, <2>3, <2>4, FS_Injection
    <2> QED
      BY <1>4, <2>3, <2>5
  <1>7. Cardinality(NextBlock(F)) <= n
    <2>1. \A f \in NextBlock(F) : Cardinality(Before(F, f)) \in 0..n - 1
      BY <1>2, <1>5
    <2>2. [f \in NextBlock(F) |-> Cardinality(Before(F, f))] \in Injection(NextBlock(F), 0..n - 1)
      BY <1>2, <2>1, BeforeDiffers
    <2>3. PICK k \in Int : k = n - 1 /\ 0 <= k
      BY <1>1
    <2>4. IsFiniteSet(0..k) /\ Cardinality(0..k) = n
      BY <2>3, FS_Interval
    <2> QED
      BY <2>2, <2>3, <2>4, FS_Injection
  <1> QED
    BY <1>1, <1>6, <1>7

-------------------------------------------------------------------------------
(* The steps.                                                                  *)

(* A post-job asks, the task ends: no slave is concerned.                      *)
LEMMA InvOthers ==
    ASSUME IInv, UNCHANGED bound, \/ \E f \in Files : AskPublication(f)
                                  \/ TaskEnds \/ UNCHANGED vars
    PROVE  IInv'
  <1>1. Types /\ SlavesOK /\ MineOK /\ DBSOK
    BY DEF IInv
  <1>2. UNCHANGED <<dbs, slave, mine, json>>
    BY DEF AskPublication, TaskEnds, vars
  <1>3. /\ publication' \in [Files -> {"none", "new", "acquired", "done", "failed"}]
        /\ \A f \in Files : publication'[f] = "done" => publication[f] = "done"
    BY <1>1 DEF AskPublication, TaskEnds, vars, Mark, Types
  <1>4. recent' \in BOOLEAN /\ ended' \in BOOLEAN /\ blackList' \in BOOLEAN
    BY <1>1 DEF AskPublication, TaskEnds, vars, task, Types
  <1>5. DBSOK' /\ Grows
    BY <1>1, <1>2, <1>3, DBSStays
  <1>6. SlavesOK' /\ MineOK'
    BY <1>1, <1>2, <1>5, SlavesKeep DEF MineOK
  <1>7. Types'
    BY <1>1, <1>2, <1>3, <1>4 DEF Types, dbs
  <1> QED
    BY <1>5, <1>6, <1>7 DEF IInv

(* The master acquires files and starts a slave.                               *)
LEMMA InvMasterCycle ==
    ASSUME IInv, UNCHANGED bound, NEW old \in BOOLEAN, MasterCycle(old)
    PROVE  IInv'
  <1>1. Types /\ SlavesOK /\ MineOK /\ DBSOK
    BY DEF IInv
  <1>2. UNCHANGED <<dbs, json, recent, task>>
    BY DEF MasterCycle
  <1>3. PICK active \in SUBSET Files, i \in Slaves :
            /\ Mark(active, "acquired")
            /\ \/ Goes(i, "idle", [Idle EXCEPT !.at = "metadata", !.active = active]) /\ mine' = i
               \/ UNCHANGED <<slave, mine>>
    <2>1. {f \in Files : publication[f] \in {"new", "acquired"}} \in SUBSET Files
      OBVIOUS
    <2> QED
      BY <2>1 DEF MasterCycle
  <1>4. /\ publication' \in [Files -> {"none", "new", "acquired", "done", "failed"}]
        /\ \A f \in Files : publication'[f] = "done" => publication[f] = "done"
    BY <1>1, <1>3 DEF Mark, Types
  <1>5. DBSOK' /\ Grows
    BY <1>1, <1>2, <1>4, DBSStays
  <1>6. slave' \in [Slaves -> SlaveType] /\ SlavesOK' /\ MineOK' /\ mine' \in Slaves \cup {0}
    <2>1. CASE UNCHANGED <<slave, mine>>
      BY <1>1, <1>5, <2>1, SlavesKeep DEF Types, MineOK
    <2>2. CASE Goes(i, "idle", [Idle EXCEPT !.at = "metadata", !.active = active]) /\ mine' = i
      <3>1. PICK s : s = [Idle EXCEPT !.at = "metadata", !.active = active]
        OBVIOUS
      <3>2. s \in SlaveType /\ s.at = "metadata" /\ s.new = {} /\ s.files = {} /\ s.good = {} /\ s.bad = {}
        BY <3>1 DEF Idle, SlaveType, States
      <3>3. SlaveOK(s)'
        BY <3>2 DEF SlaveOK, Publishing
      <3> QED
        BY <1>1, <1>5, <2>2, <3>1, <3>2, <3>3, SlaveGoes
    <2> QED
      BY <1>3, <2>1, <2>2
  <1>7. Types'
    BY <1>1, <1>2, <1>4, <1>6 DEF Types, dbs, task
  <1> QED
    BY <1>5, <1>6, <1>7 DEF IInv

(* The slave looks for the metadata.                                           *)
LEMMA InvGetMetadata ==
    ASSUME IInv, UNCHANGED bound, NEW i \in Slaves, GetMetadata(i)
    PROVE  IInv'
  <1>1. Types /\ SlavesOK /\ MineOK /\ DBSOK
    BY DEF IInv
  <1>2. UNCHANGED <<dbs, publication, recent, ended, mine>>
    BY DEF GetMetadata
  <1>3. PICK o \in SlaveType : o = slave[i] /\ SlaveOK(o)
    BY <1>1 DEF Types, SlavesOK
  <1>4. PICK found \in SUBSET Files :
            /\ Goes(i, "metadata", [o EXCEPT !.at = "tell", !.bad = o.active \ found])
            /\ json' = found
    <2>1. PICK found : /\ found \in {{}, o.active \ bound.bare}
                       /\ Goes(i, "metadata", [o EXCEPT !.at = "tell", !.bad = o.active \ found])
                       /\ json' = found
      BY <1>3 DEF GetMetadata
    <2>2. found \in SUBSET Files
      BY <2>1 DEF SlaveType
    <2> QED
      BY <2>1, <2>2
  <1>5. blackList' \in BOOLEAN
    BY <1>1 DEF GetMetadata, Types
  <1>6. DBSOK' /\ Grows
    BY <1>1, <1>2, DBSStays
  <1>7. PICK s : s = [o EXCEPT !.at = "tell", !.bad = o.active \ found]
    OBVIOUS
  <1>8. s \in SlaveType /\ s.at = "tell" /\ s.new = o.new /\ s.files = o.files /\ s.good = o.good
    BY <1>7 DEF SlaveType, States
  <1>9. o.at = "metadata"
    BY <1>3, <1>4 DEF Goes
  <1>10. SlaveOK(s)'
    BY <1>3, <1>8, <1>9 DEF SlaveOK, Publishing
  <1>11. slave' \in [Slaves -> SlaveType] /\ SlavesOK' /\ MineOK'
    BY <1>1, <1>2, <1>4, <1>6, <1>7, <1>8, <1>10, SlaveGoes
  <1>12. Types'
    BY <1>1, <1>2, <1>4, <1>5, <1>11 DEF Types, dbs
  <1> QED
    BY <1>6, <1>11, <1>12 DEF IInv

(* It marks the files without metadata.                                        *)
LEMMA InvTellFailed ==
    ASSUME IInv, UNCHANGED bound, NEW i \in Slaves, TellFailed(i)
    PROVE  IInv'
  <1>1. Types /\ SlavesOK /\ MineOK /\ DBSOK
    BY DEF IInv
  <1>2. UNCHANGED <<dbs, recent, task, json, mine>>
    BY DEF TellFailed
  <1>3. PICK o \in SlaveType : o = slave[i] /\ SlaveOK(o)
    BY <1>1 DEF Types, SlavesOK
  <1>4. /\ publication' \in [Files -> {"none", "new", "acquired", "done", "failed"}]
        /\ \A f \in Files : publication'[f] = "done" => publication[f] = "done"
    BY <1>1 DEF TellFailed, Mark, Types
  <1>5. DBSOK' /\ Grows
    BY <1>1, <1>2, <1>4, DBSStays
  <1>6. PICK s : s = [o EXCEPT !.at = "list", !.bad = {}]
    OBVIOUS
  <1>7. /\ s \in SlaveType /\ s.at = "list" /\ s.new = o.new /\ s.files = o.files /\ s.good = o.good
        /\ s.bad = {}
    BY <1>6 DEF SlaveType, States
  <1>8. o.at = "tell" /\ Goes(i, "tell", s)
    BY <1>3, <1>6 DEF TellFailed, Goes
  <1>9. SlaveOK(s)'
    BY <1>3, <1>7, <1>8 DEF SlaveOK, Publishing
  <1>10. slave' \in [Slaves -> SlaveType] /\ SlavesOK' /\ MineOK'
    BY <1>1, <1>2, <1>5, <1>7, <1>8, <1>9, SlaveGoes
  <1>11. Types'
    BY <1>1, <1>2, <1>4, <1>10 DEF Types, dbs, task
  <1> QED
    BY <1>5, <1>10, <1>11 DEF IInv

(* A step of TaskPublish.py that changes only its own state.                   *)
LEMMA InvGoes ==
    ASSUME IInv, UNCHANGED <<bound, publication, recent, task, json, dbs>>,
           NEW i \in Slaves, NEW s \in SlaveType, slave' = [slave EXCEPT ![i] = s], SlaveOK(s),
           Awaited(i, s)
    PROVE  IInv'
  <1>1. Types /\ SlavesOK /\ MineOK /\ DBSOK
    BY DEF IInv
  <1>2. DBSOK' /\ Grows
    BY <1>1, DBSStays
  <1>3. SlaveOK(s)'
    BY <1>2, KnowledgeLasts
  <1>4. slave' \in [Slaves -> SlaveType] /\ SlavesOK' /\ MineOK' /\ mine' \in Slaves \cup {0}
    BY <1>1, <1>2, <1>3, SlaveChanges
  <1>5. Types'
    BY <1>1, <1>4 DEF Types, dbs, task
  <1> QED
    BY <1>2, <1>4, <1>5 DEF IInv

(* It is stopped, ends early, or its master is stopped with it.                *)
LEMMA InvStops ==
    ASSUME IInv, UNCHANGED bound, \/ MasterStops
                                  \/ \E i \in Slaves : PublishStops(i) \/ NothingToDo(i)
    PROVE  IInv'
  <1>1. Types /\ SlavesOK /\ MineOK /\ DBSOK
    BY DEF IInv
  <1>2. CASE MasterStops
    <2>1. UNCHANGED <<publication, recent, task, json, dbs>> /\ mine' = 0
      BY <1>2 DEF MasterStops
    <2>2. PICK i \in Slaves : i = mine
      BY <1>1, <1>2 DEF MasterStops, Types
    <2>3. \/ slave' = [slave EXCEPT ![i] = Idle]
          \/ slave' = slave
      BY <1>2, <2>2 DEF MasterStops
    <2>4. CASE slave' = [slave EXCEPT ![i] = Idle]
      BY <2>1, <2>4, IdleIsOK, InvGoes DEF Awaited
    <2>5. CASE slave' = slave
      <3>1. DBSOK' /\ Grows
        BY <1>1, <2>1, DBSStays
      <3>2. SlavesOK' /\ MineOK'
        BY <1>1, <2>1, <2>5, <3>1, SlavesKeep DEF MineOK
      <3>3. Types'
        BY <1>1, <2>1, <2>5 DEF Types, dbs, task
      <3> QED
        BY <3>1, <3>2, <3>3 DEF IInv
    <2> QED
      BY <2>3, <2>4, <2>5
  <1>3. ASSUME NEW i \in Slaves, PublishStops(i) \/ NothingToDo(i) PROVE IInv'
    <2>1. /\ UNCHANGED <<publication, recent, task, json, dbs>> /\ Awaited(i, Idle)
          /\ slave' = [slave EXCEPT ![i] = Idle]
      BY <1>1, <1>3 DEF PublishStops, NothingToDo, Ends, Goes, Types, Awaited
    <2> QED
      BY <2>1, IdleIsOK, InvGoes
  <1> QED
    BY <1>2, <1>3

(* TaskPublish.py looks for its files in DBS.                                  *)
LEMMA InvListFiles ==
    ASSUME IInv, UNCHANGED bound, NEW i \in Slaves, ListFiles(i)
    PROVE  IInv'
  <1>1. Types /\ SlavesOK /\ MineOK /\ DBSOK
    BY DEF IInv
  <1>2. UNCHANGED <<publication, recent, task, json, mine, dbs>>
    BY DEF ListFiles
  <1>3. PICK o \in SlaveType : o = slave[i] /\ SlaveOK(o)
    BY <1>1 DEF Types, SlavesOK
  <1>4. PICK new : new = json \ InDBS
    OBVIOUS
  <1>5. json \subseteq Files /\ new \subseteq json /\ o.at = "list"
    BY <1>1, <1>2, <1>3, <1>4 DEF Types, ListFiles, Goes
  <1>6. CASE new = {}
    <2>1. PICK s : s = [Idle EXCEPT !.at = "mark", !.active = o.active, !.good = json]
      OBVIOUS
    <2>2. /\ s \in SlaveType /\ s.at = "mark" /\ s.new = {} /\ s.files = {} /\ s.good = json
          /\ s.bad = {}
      BY <1>5, <2>1 DEF Idle, SlaveType, States
    <2>3. slave' = [slave EXCEPT ![i] = s]
      BY <1>3, <1>4, <1>6, <2>1 DEF ListFiles, Goes
    <2>4. SlaveOK(s)
      BY <1>4, <1>6, <2>2 DEF SlaveOK, Publishing
    <2> QED
      BY <1>2, <2>2, <2>3, <2>4, InvGoes DEF Awaited
  <1>7. CASE new # {}
    <2>1. PICK kept : kept = Kept(new)
      OBVIOUS
    <2>2. kept \in [Files -> SUBSET Parents] /\ \A f \in Files : \A p \in kept[f] : Where(p) # "nowhere"
      <3>1. \A f \in Files : bound.parents[f] \subseteq Parents
        BY <1>1 DEF Types, BoundType
      <3> QED
        BY <2>1, <3>1 DEF Kept
    <2>3. PICK s : s = [o EXCEPT !.at = "source", !.files = json, !.new = new, !.kept = kept]
      OBVIOUS
    <2>4. /\ s \in SlaveType /\ s.at = "source" /\ s.new = new /\ s.files = json /\ s.good = o.good
          /\ s.bad = o.bad /\ s.kept = kept
      BY <1>5, <2>2, <2>3 DEF SlaveType, States
    <2>5. slave' = [slave EXCEPT ![i] = s]
      BY <1>3, <1>4, <1>7, <2>1, <2>3 DEF ListFiles, Goes
    <2>6. Sure(s)
      BY <2>2, <2>4 DEF Sure
    <2>7. SlaveOK(s)
      BY <1>3, <1>4, <1>5, <1>7, <2>4, <2>6 DEF SlaveOK
    <2> QED
      BY <1>2, <2>4, <2>5, <2>7, InvGoes DEF Awaited
  <1> QED
    BY <1>6, <1>7

(* It has the blocks of the parents migrated.                                  *)
LEMMA InvMigrate ==
    ASSUME IInv, UNCHANGED bound, NEW i \in Slaves, NEW place \in {"source", "global"},
           Migrate(i, place)
    PROVE  IInv'
  <1>1. Types /\ SlavesOK /\ MineOK /\ DBSOK
    BY DEF IInv
  <1>2. UNCHANGED <<publication, recent, task, json, blocks, listed>> /\ slave[i].at = place
    BY DEF Migrate
  <1>3. PICK o \in SlaveType : o = slave[i] /\ SlaveOK(o)
    BY <1>1 DEF Types, SlavesOK
  <1>4. \A f \in Files : \A p \in o.kept[f] :
            Where(p) = place /\ p \notin there => p \in ToMigrate(i, place)
    BY <1>3 DEF ToMigrate
  <1>5. there \subseteq there' /\ there' \subseteq Parents
    <2>1. ToMigrate(i, place) \subseteq Parents
      BY <1>3 DEF ToMigrate, SlaveType
    <2> QED
      BY <1>1, <2>1 DEF Migrate, Types
  <1>6. Grows /\ DBSOK'
    BY <1>1, <1>2, <1>5 DEF Grows, DBSOK, InDBS, Where
  <1>7. slave' \in [Slaves -> SlaveType] /\ SlavesOK' /\ MineOK' /\ mine' \in Slaves \cup {0}
    <2>1. CASE Migrated(i, place)
      <3>1. PICK s : s = [o EXCEPT !.at = After(place)]
        OBVIOUS
      <3>2. /\ s \in SlaveType /\ s.at = After(place) /\ s.new = o.new /\ s.files = o.files
            /\ s.good = o.good /\ s.bad = o.bad /\ s.kept = o.kept
        BY <3>1 DEF SlaveType, States, After
      <3>3. Goes(i, place, s) /\ mine' = mine
        BY <1>3, <2>1, <3>1 DEF Migrate
      <3>4. SlaveOK(o)'
        BY <1>3, <1>6, KnowledgeLasts
      <3>5. /\ o.at = place /\ After(place) \in {"global", "insert"}
            /\ After(place) = "insert" => place = "global"
            /\ After(place) = "global" => place = "source"
        BY <1>2, <1>3 DEF After
      <3>6. \A f \in Files : \A p \in o.kept[f] : Where(p)' = Where(p) /\ (Where(p) = place => p \in there')
        BY <1>4, <1>5, <2>1 DEF Migrated, Where
      <3>7. Sure(o)'
        BY <3>4, <3>5 DEF SlaveOK, Publishing
      <3>8. Sure(s)'
        BY <3>2, <3>5, <3>6, <3>7 DEF Sure
      <3>9. SlaveOK(s)'
        BY <3>2, <3>4, <3>5, <3>8 DEF SlaveOK, Publishing
      <3> QED
        BY <1>1, <1>6, <3>2, <3>3, <3>5, <3>9, SlaveGoes
    <2>2. CASE ~Migrated(i, place)
      <3>1. Ends(i, place)
        BY <2>2 DEF Migrate
      <3> QED
        BY <1>1, <1>6, <3>1, SlaveEnds
    <2> QED
      BY <2>1, <2>2
  <1>8. Types'
    BY <1>1, <1>2, <1>5, <1>7 DEF Types, task
  <1> QED
    BY <1>6, <1>7, <1>8 DEF IInv

(* Their blocks may not migrate.                                               *)
LEMMA InvCannotMigrate ==
    ASSUME IInv, UNCHANGED bound, NEW i \in Slaves, NEW place \in {"source", "global"},
           CannotMigrate(i, place)
    PROVE  IInv'
  <1>1. Types /\ SlavesOK /\ MineOK /\ DBSOK
    BY DEF IInv
  <1>2. UNCHANGED <<publication, recent, task, json, dbs>> /\ slave[i].at = place
    BY DEF CannotMigrate
  <1>3. PICK o \in SlaveType : o = slave[i] /\ SlaveOK(o)
    BY <1>1 DEF Types, SlavesOK
  <1>4. CASE place = "source"
    <2>1. PICK s : s = [o EXCEPT !.at = "mark", !.bad = o.files]
      OBVIOUS
    <2>2. /\ s \in SlaveType /\ s.at = "mark" /\ s.new = o.new /\ s.files = o.files
          /\ s.good = o.good /\ s.bad = o.files
      BY <2>1 DEF SlaveType, States
    <2>3. slave' = [slave EXCEPT ![i] = s] /\ mine' = mine
      BY <1>3, <1>4, <2>1 DEF CannotMigrate, Goes
    <2>4. SlaveOK(s)
      BY <1>2, <1>3, <1>4, <2>2 DEF SlaveOK, Publishing
    <2> QED
      BY <1>2, <2>2, <2>3, <2>4, InvGoes DEF Awaited
  <1>5. CASE place # "source"
    <2>1. Ends(i, place)
      BY <1>5 DEF CannotMigrate
    <2>2. slave' = [slave EXCEPT ![i] = Idle] /\ Awaited(i, Idle)
      BY <1>1, <2>1 DEF Ends, Goes, Types, Awaited
    <2> QED
      BY <1>2, <2>2, IdleIsOK, InvGoes
  <1> QED
    BY <1>4, <1>5

(* It inserts a block in DBS, if DBS has none of its files.                    *)
LEMMA InvInsertBlock ==
    ASSUME IInv, UNCHANGED bound, NEW i \in Slaves, InsertBlock(i)
    PROVE  IInv'
  <1>1. Types /\ SlavesOK /\ MineOK /\ DBSOK
    BY DEF IInv
  <1>2. UNCHANGED <<publication, recent, task, json, mine, there>>
    BY DEF InsertBlock
  <1>3. PICK o \in SlaveType : o = slave[i] /\ SlaveOK(o)
    BY <1>1 DEF Types, SlavesOK
  <1>4. PICK fails \in BOOLEAN, lands \in BOOLEAN :
            LET block == NextBlock(slave[i].new)
                rest == slave[i].new \ block
                refused == block \cap InDBS # {}
                s == [slave[i] EXCEPT !.new = rest, !.bad = IF fails THEN slave[i].files ELSE @]
            IN /\ refused => fails /\ ~lands
               /\ ~refused /\ ~fails => lands
               /\ blocks' = IF lands THEN blocks \cup {block} ELSE blocks
               /\ listed' = IF lands THEN [f \in Files |-> IF f \in block THEN s.kept[f] ELSE listed[f]]
                            ELSE listed
               /\ Goes(i, "insert", IF Cardinality(rest) < PerBlock
                                    THEN [s EXCEPT !.at = "mark", !.good = Published(s, rest),
                                                   !.timed = TRUE]
                                    ELSE s)
    BY Zenon DEF InsertBlock
  <1>5. PICK block : block = NextBlock(slave[i].new)
    OBVIOUS
  <1>6. PICK rest : rest = slave[i].new \ block
    OBVIOUS
  <1>7. PICK s : s = [slave[i] EXCEPT !.new = rest, !.bad = IF fails THEN slave[i].files ELSE @]
    OBVIOUS
  <1>8. /\ block \cap InDBS # {} => fails /\ ~lands
        /\ block \cap InDBS = {} /\ ~fails => lands
        /\ blocks' = IF lands THEN blocks \cup {block} ELSE blocks
    BY <1>4, <1>5
  <1>9. listed' = IF lands THEN [f \in Files |-> IF f \in block THEN s.kept[f] ELSE listed[f]] ELSE listed
    BY <1>4, <1>5, <1>6, <1>7
  <1>10. Goes(i, "insert", IF Cardinality(rest) < PerBlock
                           THEN [s EXCEPT !.at = "mark", !.good = Published(s, rest), !.timed = TRUE]
                           ELSE s)
    BY <1>4, <1>5, <1>6, <1>7
  <1>11. /\ block = NextBlock(o.new) /\ rest = o.new \ block
         /\ s = [o EXCEPT !.new = rest, !.bad = IF fails THEN o.files ELSE @]
    BY <1>3, <1>5, <1>6, <1>7
  <1>12. block \subseteq o.new /\ o.new \subseteq o.files /\ o.files \subseteq Files /\ o.at = "insert"
    BY <1>3, <1>8, <1>9, <1>10, <1>11 DEF NextBlock, SlaveOK, Goes, SlaveType
  <1>13. /\ s \in SlaveType /\ s.at = "insert" /\ s.new = rest /\ s.files = o.files /\ s.good = {}
        /\ s.kept = o.kept /\ s.bad = IF fails THEN o.files ELSE o.bad
    <2>1. o.good = {}
      BY <1>3, <1>12 DEF SlaveOK
    <2> QED
      BY <1>8, <1>9, <1>10, <1>11, <1>12, <2>1 DEF SlaveType
  <1>14. blocks' \subseteq SUBSET Files /\ listed' \in [Files -> SUBSET Parents]
    BY <1>1, <1>8, <1>9, <1>10, <1>11, <1>12, <1>13 DEF Types, SlaveType
  <1>15. Grows
    BY <1>2, <1>8, <1>9, <1>10, <1>11 DEF Grows, InDBS
  <1>16. lands => block \subseteq InDBS'
    BY <1>8, <1>9, <1>10, <1>11 DEF InDBS
  <1>17. Sure(o) /\ Sure(o)'
    <2>1. SlaveOK(o)'
      BY <1>3, <1>15, KnowledgeLasts
    <2> QED
      BY <1>3, <1>12, <2>1 DEF SlaveOK, Publishing
  <1>18. DBSOK'
    <2>1. (\A b, c \in blocks : b \cap c # {} => b = c)'
      <3>1. \A b, c \in blocks : b \cap c # {} => b = c
        BY <1>1 DEF DBSOK
      <3>2. \A b \in blocks : lands => b \cap block = {}
        BY <1>8, <1>9, <1>10, <1>11 DEF InDBS
      <3> QED
        BY <1>8, <1>9, <1>10, <1>11, <3>1, <3>2
    <2>2. (\A f \in Files : publication[f] = "done" => f \in InDBS)'
      BY <1>1, <1>2, <1>15 DEF DBSOK, Grows
    <2>3. (\A f \in Files : \A p \in listed[f] : Where(p) = "illegal" \/ p \in there)'
      <3>1. \A f \in Files : \A p \in o.kept[f] : Where(p) = "illegal" \/ p \in there
        <4>1. \A f \in Files : \A p \in o.kept[f] : p \in Parents /\ Where(p) \in Places
          BY <1>1 DEF Types, BoundType, SlaveType, Where
        <4>2. \A p \in Parents : Where(p) = "destination" => p \in there
          BY <1>1 DEF DBSOK
        <4> QED
          BY <1>12, <1>17, <4>1, <4>2 DEF Sure, Places
      <3>2. \A f \in Files : listed'[f] = listed[f] \/ listed'[f] = o.kept[f]
        BY <1>8, <1>9, <1>10, <1>11, <1>13
      <3> QED
        BY <1>1, <1>2, <3>1, <3>2 DEF DBSOK, Where
    <2>4. (\A p \in Parents : Where(p) = "destination" => p \in there)'
      BY <1>1, <1>2 DEF DBSOK, Where
    <2>5. (\A b \in blocks : b # {} /\ Cardinality(b) <= PerBlock)'
      <3>1. block # {} /\ Cardinality(block) <= PerBlock
        <4>1. o.new \in SUBSET Files /\ o.new # {}
          BY <1>3, <1>12 DEF SlaveOK, Publishing
        <4> QED
          BY <1>8, <1>9, <1>10, <1>11, <4>1, NextBlockIs
      <3> QED
        BY <1>1, <1>8, <1>9, <1>10, <1>11, <3>1 DEF DBSOK
    <2> QED
      BY <2>1, <2>2, <2>3, <2>4, <2>5 DEF DBSOK
  <1>19. o.files \ (rest \cup s.bad) \subseteq InDBS'
    <2>1. o.files \ (o.new \cup o.bad) \subseteq InDBS'
      BY <1>3, <1>12, <1>15 DEF SlaveOK, Publishing, Grows
    <2>2. CASE fails
      BY <1>13, <2>2
    <2>3. CASE ~fails
      <3>1. lands
        BY <1>8, <1>9, <1>10, <1>11, <2>3
      <3> QED
        BY <1>8, <1>9, <1>10, <1>11, <1>13, <1>16, <2>1, <2>3, <3>1
    <2> QED
      BY <2>2, <2>3
  <1>20. slave' \in [Slaves -> SlaveType] /\ SlavesOK' /\ MineOK'
    <2>1. CASE Cardinality(rest) < PerBlock
      <3>1. PICK e : e = [s EXCEPT !.at = "mark", !.good = Published(s, rest), !.timed = TRUE]
        OBVIOUS
      <3>2. Published(s, rest) = (o.files \ s.bad) \ rest
        BY <1>13 DEF Published
      <3>3. /\ e \in SlaveType /\ e.at = "mark" /\ e.new = rest /\ e.files = o.files
            /\ e.good = (o.files \ s.bad) \ rest /\ e.bad = s.bad
        BY <1>12, <1>13, <3>1, <3>2 DEF SlaveType, States
      <3>4. SlaveOK(e)'
        BY <1>8, <1>9, <1>10, <1>11, <1>12, <1>19, <3>3 DEF SlaveOK, Publishing
      <3> QED
        BY <1>1, <1>2, <1>8, <1>9, <1>10, <1>11, <1>15, <2>1, <3>1, <3>3, <3>4, SlaveGoes
    <2>2. CASE ~(Cardinality(rest) < PerBlock)
      <3>1. rest # {}
        BY <2>2, FS_EmptySet, PublicationAssumption
      <3>2. Sure(s)'
        BY <1>12, <1>13, <1>17 DEF Sure
      <3>3. SlaveOK(s)'
        BY <1>8, <1>9, <1>10, <1>11, <1>12, <1>13, <1>19, <3>1, <3>2 DEF SlaveOK, Publishing
      <3> QED
        BY <1>1, <1>2, <1>8, <1>9, <1>10, <1>11, <1>13, <1>15, <2>2, <3>3, SlaveGoes
    <2> QED
      BY <2>1, <2>2
  <1>21. Types'
    BY <1>1, <1>2, <1>14, <1>20 DEF Types, task
  <1> QED
    BY <1>18, <1>20, <1>21 DEF IInv

(* It marks its files.                                                         *)
LEMMA InvMarkFiles ==
    ASSUME IInv, UNCHANGED bound, NEW i \in Slaves, MarkFiles(i)
    PROVE  IInv'
  <1>1. Types /\ SlavesOK /\ MineOK /\ DBSOK
    BY DEF IInv
  <1>2. UNCHANGED <<task, json, dbs>> /\ Ends(i, "mark") /\ recent' \in BOOLEAN
    BY <1>1 DEF MarkFiles, Types
  <1>3. slave[i].good \subseteq InDBS
    BY <1>1 DEF SlavesOK, SlaveOK
  <1>4. /\ publication' \in [Files -> {"none", "new", "acquired", "done", "failed"}]
        /\ \A f \in Files : publication'[f] = "done" => publication[f] = "done" \/ f \in InDBS
    BY <1>1, <1>3 DEF MarkFiles, Types
  <1>5. DBSOK' /\ Grows
    BY <1>1, <1>2, <1>4, DBSStays
  <1>6. slave' \in [Slaves -> SlaveType] /\ SlavesOK' /\ MineOK' /\ mine' \in Slaves \cup {0}
    BY <1>1, <1>2, <1>5, SlaveEnds
  <1>7. Types'
    BY <1>1, <1>2, <1>4, <1>6 DEF Types, dbs, task
  <1> QED
    BY <1>5, <1>6, <1>7 DEF IInv

-------------------------------------------------------------------------------
(* The theorems.                                                               *)

(* Initially DBS is empty, and no slave works.                                 *)
LEMMA InvInit == Init => IInv
  <1> SUFFICES ASSUME Init PROVE IInv
    OBVIOUS
  <1>1. bound \in BoundType
    BY BoundHasType DEF Init
  <1>2. Types
    BY <1>1, IdleIsOK DEF Init, Types, Slaves
  <1>3. SlavesOK
    BY IdleIsOK DEF Init, SlavesOK
  <1>4. DBSOK /\ MineOK
    BY DEF Init, DBSOK, MineOK
  <1> QED
    BY <1>2, <1>3, <1>4 DEF IInv

(* The inductive invariant holds in every reachable state.                     *)
THEOREM Invariance == Spec => []IInv
  <1>1. IInv /\ [Next]_vars => IInv'
    <2> SUFFICES ASSUME IInv, [Next]_vars PROVE IInv'
      OBVIOUS
    <2>1. UNCHANGED bound
      BY DEF Next, vars
    <2> QED
      BY <2>1, InvOthers, InvMasterCycle, InvStops, InvGetMetadata, InvTellFailed, InvListFiles,
         InvMigrate, InvCannotMigrate, InvInsertBlock, InvMarkFiles DEF Next, Step, TaskPublish
  <1> QED
    BY <1>1, InvInit, PTL DEF Spec

(* Type correctness: and the files that a TaskPublish.py will mark as good are *)
(* not those that it will mark as bad.                                         *)
THEOREM TypeCorrect == Spec => []TypeOK
  <1>1. IInv => TypeOK
    <2> SUFFICES ASSUME IInv PROVE TypeOK
      OBVIOUS
    <2>1. Types
      BY DEF IInv
    <2>2. \A i \in Slaves : slave[i] \in SlaveType /\ SlaveOK(slave[i])
      BY DEF IInv, Types, SlavesOK
    <2>3. ASSUME NEW i \in Slaves
          PROVE  /\ slave[i].at \in States
                 /\ slave[i].new \subseteq slave[i].files /\ slave[i].files \subseteq Files
                 /\ slave[i].good \cap slave[i].bad = {}
                 /\ slave[i].at = "insert" => slave[i].new # {}
      <3>1. PICK s \in SlaveType : s = slave[i] /\ SlaveOK(s)
        BY <2>2
      <3>2. s.at \in States /\ s.files \subseteq Files
        BY DEF SlaveType
      <3>3. s.new \subseteq s.files /\ s.good \cap s.bad = {} /\ (s.at = "insert" => s.new # {})
        BY <3>1 DEF SlaveOK, Publishing
      <3> QED
        BY <3>1, <3>2, <3>3
    <2> QED
      BY <2>1, <2>3 DEF IInv, MineOK, DBSOK, Types, States, TypeOK
  <1> QED
    BY <1>1, Invariance, PTL

(* For any files, parents, bounds and faults: a file that is marked as         *)
(* published is in DBS, in one block, with the parents it is listed with.      *)
THEOREM PublishedIsDone == Spec => []DoneIsPublished
  <1>1. IInv => DoneIsPublished
    <2> SUFFICES ASSUME IInv, NEW f \in Files
                 PROVE  /\ publication[f] = "done" => f \in InDBS
                        /\ Cardinality({b \in blocks : f \in b}) <= 1
                        /\ {p \in listed[f] : Where(p) # "illegal"} \subseteq there
      BY DEF DoneIsPublished
    <2>1. DBSOK
      BY DEF IInv
    <2>2. CASE {b \in blocks : f \in b} = {}
      <3>1. Cardinality({b \in blocks : f \in b}) = 0
        BY <2>2, FS_EmptySet
      <3> QED
        BY <2>1, <3>1 DEF DBSOK
    <2>3. ASSUME NEW c \in blocks, f \in c
          PROVE  Cardinality({b \in blocks : f \in b}) = 1
      <3>1. {b \in blocks : f \in b} = {c}
        BY <2>1, <2>3 DEF DBSOK
      <3> QED
        BY <3>1, FS_Singleton
    <2> QED
      BY <2>1, <2>2, <2>3 DEF DBSOK
  <1> QED
    BY <1>1, Invariance, PTL
===============================================================================
