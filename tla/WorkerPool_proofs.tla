-------------------------- MODULE WorkerPool_proofs --------------------------
(* Proofs about the pool of slaves for any number of slaves and works, any     *)
(* pipe and any number of deaths: its workids and its capacity are right       *)
(* (WorkidOwnership, NoCapacityLeak), a graceful stop leaves no work behind    *)
(* (GracefulStop), and it implements the abstract dispatch of WorkDispatch.    *)
(*                                                                             *)
(* WorkidOwnership alone is not inductive: deleting the entry of one result    *)
(* must not touch the entry of another message, so the workids in flight have  *)
(* to be distinct (the Distinct... definitions), and a new workid has to be    *)
(* unused (FreshId). GracefulStop needs that the STOP messages stay behind the *)
(* works (StopsBehind), and the refinement that a work has one entry and one   *)
(* place (Books).                                                              *)
EXTENDS WorkerPool, FiniteSetTheorems, TLAPS

(* The messages of the queue that carry a work.                                *)
WorkAt(k) == k \in 1..Len(inputs) /\ inputs[k].work # NoWork

(* A slave at work holds a message.                                            *)
SlaveMessage == \A s \in Slaves : slave[s].pc = "work" =>
                    slave[s].id \in Nat /\ slave[s].work \in Works

(* No two messages in flight have the same workid.                             *)
DistinctQueue ==
    /\ \A j, k \in 1..Len(inputs) : WorkAt(j) /\ WorkAt(k) /\ inputs[j].id = inputs[k].id => j = k
    /\ \A k \in 1..Len(inputs) : WorkAt(k) =>
        /\ \A s \in Slaves : slave[s].pc = "work" => slave[s].id # inputs[k].id
        /\ \A r \in buffer : r.id # inputs[k].id
        /\ \A r \in pipe : r.id # inputs[k].id

DistinctSlaves ==
    /\ \A s, t \in Slaves : slave[s].pc = "work" /\ slave[t].pc = "work"
                            /\ slave[s].id = slave[t].id => s = t
    /\ \A s \in Slaves : slave[s].pc = "work" =>
        /\ \A r \in buffer : r.id # slave[s].id
        /\ \A r \in pipe : r.id # slave[s].id

DistinctResults ==
    /\ \A q, r \in buffer : q.id = r.id => q = r
    /\ \A q \in buffer, r \in pipe : q.id # r.id
    /\ \A q, r \in pipe : q.id = r.id => q = r

(* The workid that injectWorks is about to use is larger than any in use.      *)
FreshId == mpc = "inject" => \A i \in DOMAIN working : i < workid

IInv == /\ TypeOK
        /\ SlaveMessage
        /\ WorkidOwnership
        /\ DistinctQueue /\ DistinctSlaves /\ DistinctResults
        /\ FreshId

-------------------------------------------------------------------------------
(* Type correctness.                                                           *)

(* The new entry of injectWorks keeps working a finite dictionary.             *)
LEMMA WorkingGrows ==
    ASSUME IsFiniteSet(DOMAIN working), NEW i
    PROVE  IsFiniteSet(DOMAIN working \cup {i})
  BY FS_AddElement

(* Deleting an entry keeps it finite, and the others unchanged.                *)
LEMMA WorkingShrinks ==
    ASSUME IsFiniteSet(DOMAIN working), NEW i
    PROVE  /\ IsFiniteSet(DOMAIN Deleted(i))
           /\ DOMAIN Deleted(i) = DOMAIN working \ {i}
           /\ \A j \in DOMAIN working \ {i} : Deleted(i)[j] = working[j]
  <1>1. DOMAIN Deleted(i) = DOMAIN working \ {i}
    BY DEF Deleted
  <1>2. IsFiniteSet(DOMAIN working \ {i})
    BY FS_RemoveElement
  <1> QED
    BY <1>1, <1>2 DEF Deleted

(* The initial state has the types.                                            *)
LEMMA TypeInit == Init => TypeOK
  <1> SUFFICES ASSUME Init PROVE TypeOK
    OBVIOUS
  <1>1. DOMAIN working = {}
    BY DEF Init
  <1>2. IsFiniteSet(DOMAIN working)
    BY <1>1, FS_EmptySet
  <1>3. inputs \in Seq(Message \cup {StopMessage})
    BY DEF Init
  <1>4. slave \in [Slaves -> [pc : {"get", "work", "exiting", "exited"},
                            id : Nat \cup {-1}, work : Works \cup {NoWork}]]
    BY DEF Init, Idle
  <1>5. working \in [DOMAIN working -> Works]
    BY <1>1 DEF Init
  <1> QED
    BY <1>1, <1>2, <1>3, <1>4, <1>5 DEF Init, TypeOK

(* Every action of the master and of the slaves keeps the types.               *)
LEMMA TypeNext == TypeOK /\ SlaveMessage /\ [Next]_vars => TypeOK'
  <1> SUFFICES ASSUME TypeOK, SlaveMessage, [Next]_vars PROVE TypeOK'
    OBVIOUS
  <1> USE PoolAssumption
  <1>1. ASSUME NEW ws \in SUBSET Works, CallInjectWorks(ws)
        PROVE  workid' \in Nat /\ todo' \subseteq Works
                /\ mpc' \in {"top", "inject", "recurring", "check", "end", "ended"}
    <2>1. PICK id \in {0} \cup {j + 1 : j \in DOMAIN working} : workid' = id
      BY <1>1 DEF CallInjectWorks
    <2>2. id \in Nat
      BY <2>1 DEF TypeOK
    <2> QED
      BY <1>1, <2>1, <2>2 DEF CallInjectWorks
  <1>2. CASE AcquireWork
    <2>1. PICK ws \in SUBSET (Works \ (Recurring \cup injected)) : CallInjectWorks(ws)
      BY <1>2 DEF AcquireWork
    <2> QED
      BY <1>1, <1>2, <2>1 DEF AcquireWork, TypeOK
  <1>3. CASE Inject
    <2>1. PICK w \in todo :
            /\ inputs' = Append(inputs, [id |-> workid, work |-> w])
            /\ working' = [i \in DOMAIN working \cup {workid} |->
                                IF i = workid THEN w ELSE working[i]]
            /\ todo' = todo \ {w}
            /\ injected' = injected \cup {w}
      BY <1>3 DEF Inject
    <2>2. [id |-> workid, work |-> w] \in Message
      BY <2>1 DEF TypeOK, Message
    <2>3. inputs' \in Seq(Message \cup {StopMessage})
      BY <2>1, <2>2 DEF TypeOK
    <2>4. DOMAIN working' = DOMAIN working \cup {workid}
      BY <2>1
    <2>5. IsFiniteSet(DOMAIN working')
      <3>1. IsFiniteSet(DOMAIN working)
        BY DEF TypeOK
      <3> QED
        BY <2>4, <3>1, WorkingGrows
    <2>6. working' \in [DOMAIN working' -> Works]
      <3>1. w \in Works /\ \A i \in DOMAIN working : working[i] \in Works
        BY <2>1 DEF TypeOK
      <3>2. working' = [i \in DOMAIN working' |-> IF i = workid THEN w ELSE working[i]]
        BY <2>1, <2>4
      <3>3. \A i \in DOMAIN working' : (IF i = workid THEN w ELSE working[i]) \in Works
        BY <2>4, <3>1
      <3> QED
        BY <3>2, <3>3
    <2> QED
      BY <1>3, <2>1, <2>3, <2>4, <2>5, <2>6 DEF Inject, TypeOK
  <1>4. CASE InjectDone
    BY <1>4 DEF InjectDone, TypeOK
  <1>5. CASE InjectRecurring
    <2>1. PICK r \in Recurring \ injected : CallInjectWorks({r})
      BY <1>5 DEF InjectRecurring
    <2> QED
      BY <1>1, <1>5, <2>1 DEF InjectRecurring, TypeOK
  <1>6. CASE CallCheckFinished
    <2>1. Cardinality(DOMAIN working) \in Nat
      BY FS_CardinalityType DEF TypeOK
    <2> QED
      BY <1>6, <2>1 DEF CallCheckFinished, Iterations, queuedTasks, TypeOK
  <1>7. CASE Collect
    <2>1. PICK r \in pipe : pipe' = pipe \ {r} /\ working' = Deleted(r.id)
      BY <1>7 DEF Collect
    <2>2. DOMAIN working' = DOMAIN working \ {r.id} /\ IsFiniteSet(DOMAIN working')
      BY <2>1, WorkingShrinks DEF TypeOK
    <2>3. working' \in [DOMAIN working' -> Works]
      BY <2>1, <2>2 DEF TypeOK, Deleted
    <2>4. budget' \in Nat
      BY <1>7 DEF Collect, TypeOK
    <2> QED
      BY <1>7, <2>1, <2>2, <2>3, <2>4 DEF Collect, TypeOK
  <1>8. CASE CollectNothing
    BY <1>8 DEF CollectNothing, TypeOK
  <1>9. CASE CheckFinishedDone
    BY <1>9 DEF CheckFinishedDone, TypeOK
  <1>10. CASE LeaveLoop
    BY <1>10 DEF LeaveLoop, TypeOK
  <1>11. CASE PutStop
    <2>1. inputs' \in Seq(Message \cup {StopMessage})
      BY <1>11 DEF PutStop, TypeOK
    <2> QED
      BY <1>11, <2>1 DEF PutStop, TypeOK
  <1>12. CASE Join
    BY <1>12 DEF Join, TypeOK
  <1>13. CASE Quit
    BY <1>13 DEF Quit, masterVars, TypeOK
  <1>14. ASSUME NEW s \in Slaves, GetWork(s) PROVE TypeOK'
    <2>1. Head(inputs) \in Message \cup {StopMessage} /\ inputs' \in Seq(Message \cup {StopMessage})
      BY <1>14 DEF GetWork, AfterGet, TypeOK
    <2>2. Head(inputs) \in Message
      BY <1>14, <2>1 DEF GetWork, StopMessage
    <2>3. slave' \in [Slaves -> [pc : {"get", "work", "exiting", "exited"},
                            id : Nat \cup {-1}, work : Works \cup {NoWork}]]
      BY <1>14, <2>2 DEF GetWork, Message, TypeOK
    <2> QED
      BY <1>14, <2>1, <2>3 DEF GetWork, masterVars, TypeOK
  <1>15. ASSUME NEW s \in Slaves, GetStop(s) PROVE TypeOK'
    <2>1. inputs' \in Seq(Message \cup {StopMessage})
      BY <1>15 DEF GetStop, AfterGet, TypeOK
    <2> QED
      BY <1>15, <2>1 DEF GetStop, Leaving, masterVars, TypeOK
  <1>16. ASSUME NEW s \in Slaves, PutResult(s) PROVE TypeOK'
    <2>1. [by |-> s, id |-> slave[s].id, work |-> slave[s].work] \in [by : Slaves, id : Nat, work : Works]
      BY <1>16 DEF PutResult, SlaveMessage
    <2> QED
      BY <1>16, <2>1 DEF PutResult, Idle, masterVars, TypeOK
  <1>17. ASSUME NEW s \in Slaves, Die(s) PROVE TypeOK'
    <2>1. slave[s].work \in Works \cup {NoWork}
      BY DEF TypeOK
    <2> QED
      BY <1>17, <2>1 DEF Die, Leaving, masterVars, TypeOK
  <1>18. ASSUME NEW s \in Slaves, Feed(s) PROVE TypeOK'
    <2>1. PICK r \in buffer : buffer' = buffer \ {r}
                              /\ pipe' = pipe \cup {[id |-> r.id, work |-> r.work]}
      BY <1>18 DEF Feed
    <2>2. [id |-> r.id, work |-> r.work] \in Message
      BY DEF TypeOK, Message
    <2> QED
      BY <1>18, <2>1, <2>2 DEF Feed, masterVars, TypeOK
  <1>19. ASSUME NEW s \in Slaves, Exit(s) PROVE TypeOK'
    BY <1>19 DEF Exit, Exited, masterVars, TypeOK
  <1>20. CASE UNCHANGED vars
    BY <1>20 DEF vars, TypeOK
  <1> QED
    BY <1>2, <1>3, <1>4, <1>5, <1>6, <1>7, <1>8, <1>9, <1>10, <1>11, <1>12, <1>13,
       <1>14, <1>15, <1>16, <1>17, <1>18, <1>19, <1>20 DEF Next, Master, Slave

-------------------------------------------------------------------------------
(* The messages in flight. One lemma per action that moves one.                *)

Flight == SlaveMessage /\ WorkidOwnership /\ DistinctQueue /\ DistinctSlaves /\ DistinctResults

(* Nothing in flight moves and no entry changes.                               *)
LEMMA FlightSame ==
    ASSUME Flight, inputs' = inputs, working' = working, slave' = slave,
           buffer' = buffer, pipe' = pipe
    PROVE  Flight'
  BY DEF Flight, SlaveMessage, WorkidOwnership, DistinctQueue, DistinctSlaves,
         DistinctResults, WorkAt

(* injectWorks puts a message under an unused workid.                          *)
LEMMA FlightInject ==
    ASSUME TypeOK, Flight, FreshId, Inject
    PROVE  Flight' /\ FreshId'
  <1>1. PICK w \in todo :
            /\ inputs' = Append(inputs, [id |-> workid, work |-> w])
            /\ working' = [i \in DOMAIN working \cup {workid} |->
                                IF i = workid THEN w ELSE working[i]]
    BY DEF Inject
  <1>2. mpc' = mpc /\ mpc = "inject" /\ slave' = slave /\ buffer' = buffer /\ pipe' = pipe
        /\ workid' = workid + 1
    BY DEF Inject
  <1>3. /\ \A i \in DOMAIN working : i < workid /\ i \in Nat
        /\ workid \in Nat
        /\ inputs \in Seq(Message \cup {StopMessage})
        /\ w \in Works
    BY <1>1, <1>2 DEF FreshId, TypeOK
  <1>4. /\ DOMAIN working' = DOMAIN working \cup {workid}
        /\ working'[workid] = w
        /\ \A i \in DOMAIN working : working'[i] = working[i]
    BY <1>1, <1>3
  <1>5. /\ Len(inputs') = Len(inputs) + 1 /\ Len(inputs) \in Nat
        /\ \A k \in 1..Len(inputs) : inputs'[k] = inputs[k]
        /\ inputs'[Len(inputs) + 1] = [id |-> workid, work |-> w]
    BY <1>1, <1>3
  <1>6. \A k \in 1..Len(inputs') : k \in 1..Len(inputs) \/ k = Len(inputs) + 1
    BY <1>5
  <1>7. SlaveMessage'
    BY <1>2 DEF Flight, SlaveMessage
  <1>8. WorkidOwnership'
    <2>1. \A k \in 1..Len(inputs') : inputs'[k].work # NoWork =>
            inputs'[k].id \in DOMAIN working' /\ working'[inputs'[k].id] = inputs'[k].work
      BY <1>4, <1>5, <1>6 DEF Flight, WorkidOwnership
    <2> QED
      BY <2>1, <1>2, <1>4 DEF Flight, WorkidOwnership
  <1>9. DistinctQueue'
    <2>1. \A k \in 1..Len(inputs) : WorkAt(k) => inputs[k].id # workid
      BY <1>3 DEF Flight, WorkidOwnership, WorkAt
    <2>2. \A s \in Slaves : slave[s].pc = "work" => slave[s].id # workid
      BY <1>3 DEF Flight, WorkidOwnership
    <2>3. (\A r \in buffer : r.id # workid) /\ (\A r \in pipe : r.id # workid)
      BY <1>3 DEF Flight, WorkidOwnership
    <2>4. \A j, k \in 1..Len(inputs') : WorkAt(j)' /\ WorkAt(k)' /\ inputs'[j].id = inputs'[k].id => j = k
      BY <2>1, <1>5, <1>6 DEF Flight, DistinctQueue, WorkAt
    <2>5. ASSUME NEW k \in 1..Len(inputs'), WorkAt(k)'
          PROVE  /\ \A s \in Slaves : slave'[s].pc = "work" => slave'[s].id # inputs'[k].id
                 /\ \A r \in buffer' : r.id # inputs'[k].id
                 /\ \A r \in pipe' : r.id # inputs'[k].id
      <3>1. CASE k = Len(inputs) + 1
        BY <3>1, <2>2, <2>3, <1>2, <1>5
      <3>2. CASE k \in 1..Len(inputs)
        BY <3>2, <2>5, <1>2, <1>5 DEF Flight, DistinctQueue, WorkAt
      <3> QED
        BY <3>1, <3>2, <1>6
    <2> QED
      BY <2>4, <2>5 DEF DistinctQueue
  <1>10. DistinctSlaves' /\ DistinctResults'
    BY <1>2 DEF Flight, DistinctSlaves, DistinctResults
  <1>11. FreshId'
    BY <1>2, <1>3, <1>4 DEF FreshId
  <1> QED
    BY <1>7, <1>8, <1>9, <1>10, <1>11 DEF Flight

(* checkFinished deletes the entry of one result: no other message uses it.    *)
LEMMA FlightCollect ==
    ASSUME TypeOK, Flight, Collect
    PROVE  Flight'
  <1>1. PICK r \in pipe : pipe' = pipe \ {r} /\ working' = Deleted(r.id)
    BY DEF Collect
  <1>2. inputs' = inputs /\ slave' = slave /\ buffer' = buffer
    BY DEF Collect
  <1>3. /\ DOMAIN working' = DOMAIN working \ {r.id}
        /\ \A j \in DOMAIN working \ {r.id} : working'[j] = working[j]
    BY <1>1, WorkingShrinks DEF TypeOK
  <1>4. WorkidOwnership'
    <2>1. ASSUME NEW k \in 1..Len(inputs), inputs[k].work # NoWork
          PROVE  inputs[k].id \in DOMAIN working' /\ working'[inputs[k].id] = inputs[k].work
      BY <1>1, <1>3, <2>1 DEF Flight, WorkidOwnership, DistinctQueue, WorkAt
    <2>2. ASSUME NEW s \in Slaves, slave[s].pc = "work"
          PROVE  slave[s].id \in DOMAIN working' /\ working'[slave[s].id] = slave[s].work
      BY <1>1, <1>3, <2>2 DEF Flight, WorkidOwnership, DistinctSlaves
    <2>3. ASSUME NEW q \in buffer PROVE q.id \in DOMAIN working' /\ working'[q.id] = q.work
      BY <1>1, <1>3 DEF Flight, WorkidOwnership, DistinctResults
    <2>4. ASSUME NEW q \in pipe \ {r} PROVE q.id \in DOMAIN working' /\ working'[q.id] = q.work
      BY <1>1, <1>3 DEF Flight, WorkidOwnership, DistinctResults
    <2> QED
      BY <2>1, <2>2, <2>3, <2>4, <1>1, <1>2 DEF WorkidOwnership
  <1>5. SlaveMessage' /\ DistinctQueue' /\ DistinctSlaves' /\ DistinctResults'
    BY <1>1, <1>2 DEF Flight, SlaveMessage, DistinctQueue, DistinctSlaves, DistinctResults, WorkAt
  <1> QED
    BY <1>4, <1>5 DEF Flight

(* A STOP message carries no work.                                             *)
LEMMA FlightPutStop ==
    ASSUME TypeOK, Flight, PutStop
    PROVE  Flight'
  <1>1. /\ inputs' = Append(inputs, StopMessage)
        /\ working' = working /\ slave' = slave /\ buffer' = buffer /\ pipe' = pipe
    BY DEF PutStop
  <1>2. /\ Len(inputs') = Len(inputs) + 1 /\ Len(inputs) \in Nat
        /\ \A k \in 1..Len(inputs) : inputs'[k] = inputs[k]
        /\ inputs'[Len(inputs) + 1].work = NoWork
    BY <1>1 DEF TypeOK, StopMessage
  <1>3. \A k \in 1..Len(inputs') : k \in 1..Len(inputs) \/ k = Len(inputs) + 1
    BY <1>2
  <1>4. WorkidOwnership'
    BY <1>1, <1>2, <1>3 DEF Flight, WorkidOwnership
  <1>5. DistinctQueue'
    BY <1>1, <1>2, <1>3 DEF Flight, DistinctQueue, WorkAt
  <1>6. SlaveMessage' /\ DistinctSlaves' /\ DistinctResults'
    BY <1>1 DEF Flight, SlaveMessage, DistinctSlaves, DistinctResults
  <1> QED
    BY <1>4, <1>5, <1>6 DEF Flight

(* Taking the head of the queue leaves the other messages where they are.      *)
LEMMA AfterGetElements ==
    ASSUME TypeOK, inputs # <<>>, inputs' = AfterGet
    PROVE  /\ Len(inputs) \in Nat /\ 1 \in 1..Len(inputs) /\ Head(inputs) = inputs[1]
           /\ Head(inputs) \in Message \cup {StopMessage}
           /\ \A k \in 1..Len(inputs') : k + 1 \in 1..Len(inputs) /\ inputs'[k] = inputs[k + 1]
           /\ \A k \in 1..Len(inputs') : k \in Nat /\ k + 1 # 1
  BY DEF TypeOK, AfterGet

(* A slave takes a work: its message moves from the queue to the slave.        *)
LEMMA FlightGetWork ==
    ASSUME TypeOK, Flight, NEW s \in Slaves, GetWork(s)
    PROVE  Flight'
  <1>1. /\ inputs' = AfterGet /\ inputs # <<>> /\ Head(inputs).work # NoWork
        /\ slave' = [slave EXCEPT ![s] = [pc |-> "work", id |-> Head(inputs).id,
                                          work |-> Head(inputs).work]]
        /\ working' = working /\ buffer' = buffer /\ pipe' = pipe
    BY DEF GetWork, masterVars
  <1>2. WorkAt(1) /\ Head(inputs) = inputs[1] /\ 1 \in 1..Len(inputs)
    BY <1>1, AfterGetElements DEF WorkAt
  <1>3. inputs[1] \in Message
    BY <1>1, <1>2, AfterGetElements DEF StopMessage
  <1>4. /\ slave'[s] = [pc |-> "work", id |-> inputs[1].id, work |-> inputs[1].work]
        /\ \A t \in Slaves \ {s} : slave'[t] = slave[t]
    BY <1>1, <1>2 DEF TypeOK
  <1>5. \A k \in 1..Len(inputs') : /\ k + 1 \in 1..Len(inputs) /\ inputs'[k] = inputs[k + 1]
                                   /\ k \in Nat /\ k + 1 # 1
    BY <1>1, AfterGetElements
  <1>6. SlaveMessage'
    BY <1>3, <1>4 DEF Flight, SlaveMessage, Message
  <1>7. WorkidOwnership'
    <2>1. \A k \in 1..Len(inputs') : inputs'[k].work # NoWork =>
            inputs'[k].id \in DOMAIN working /\ working[inputs'[k].id] = inputs'[k].work
      BY <1>5 DEF Flight, WorkidOwnership
    <2>2. \A t \in Slaves : slave'[t].pc = "work" =>
            slave'[t].id \in DOMAIN working /\ working[slave'[t].id] = slave'[t].work
      BY <1>2, <1>4 DEF Flight, WorkidOwnership, WorkAt
    <2> QED
      BY <2>1, <2>2, <1>1 DEF Flight, WorkidOwnership
  <1>8. DistinctQueue'
    <2>1. \A j, k \in 1..Len(inputs') : WorkAt(j)' /\ WorkAt(k)' /\ inputs'[j].id = inputs'[k].id => j = k
      BY <1>5 DEF Flight, DistinctQueue, WorkAt
    <2>2. ASSUME NEW k \in 1..Len(inputs'), WorkAt(k)'
          PROVE  /\ WorkAt(k + 1) /\ k + 1 \in 1..Len(inputs)
                 /\ inputs'[k] = inputs[k + 1] /\ inputs[k + 1].id # inputs[1].id
      BY <1>2, <1>5, <2>2 DEF Flight, DistinctQueue, WorkAt
    <2>3. ASSUME NEW k \in 1..Len(inputs'), WorkAt(k)'
          PROVE  /\ \A t \in Slaves : slave'[t].pc = "work" => slave'[t].id # inputs'[k].id
                 /\ \A r \in buffer' : r.id # inputs'[k].id
                 /\ \A r \in pipe' : r.id # inputs'[k].id
      BY <2>2, <2>3, <1>1, <1>4 DEF Flight, DistinctQueue
    <2> QED
      BY <2>1, <2>3 DEF DistinctQueue
  <1>9. DistinctSlaves'
    <2>1. \A t \in Slaves : slave[t].pc = "work" => slave[t].id # inputs[1].id
      BY <1>2 DEF Flight, DistinctQueue
    <2>2. (\A r \in buffer : r.id # inputs[1].id) /\ (\A r \in pipe : r.id # inputs[1].id)
      BY <1>2 DEF Flight, DistinctQueue
    <2> QED
      BY <2>1, <2>2, <1>1, <1>4 DEF Flight, DistinctSlaves
  <1>10. DistinctResults'
    BY <1>1 DEF Flight, DistinctResults
  <1> QED
    BY <1>6, <1>7, <1>8, <1>9, <1>10 DEF Flight

(* A slave takes a STOP message.                                               *)
LEMMA FlightGetStop ==
    ASSUME TypeOK, Flight, NEW s \in Slaves, GetStop(s)
    PROVE  Flight'
  <1>1. /\ inputs' = AfterGet /\ inputs # <<>>
        /\ slave' = [slave EXCEPT ![s] = Leaving]
        /\ working' = working /\ buffer' = buffer /\ pipe' = pipe
    BY DEF GetStop, masterVars
  <1>2. \A t \in Slaves : slave'[t].pc = "work" => slave[t].pc = "work" /\ slave'[t] = slave[t]
    BY <1>1 DEF TypeOK, Leaving
  <1>3. \A k \in 1..Len(inputs') : /\ k + 1 \in 1..Len(inputs) /\ inputs'[k] = inputs[k + 1]
                                   /\ k \in Nat
    BY <1>1, AfterGetElements
  <1>4. SlaveMessage' /\ DistinctSlaves' /\ DistinctResults'
    BY <1>1, <1>2 DEF Flight, SlaveMessage, DistinctSlaves, DistinctResults
  <1>5. WorkidOwnership'
    <2>1. \A k \in 1..Len(inputs') : inputs'[k].work # NoWork =>
            inputs'[k].id \in DOMAIN working /\ working[inputs'[k].id] = inputs'[k].work
      BY <1>3 DEF Flight, WorkidOwnership
    <2>2. \A t \in Slaves : slave'[t].pc = "work" =>
            slave'[t].id \in DOMAIN working /\ working[slave'[t].id] = slave'[t].work
      BY <1>2 DEF Flight, WorkidOwnership
    <2> QED
      BY <2>1, <2>2, <1>1 DEF Flight, WorkidOwnership
  <1>6. DistinctQueue'
    <2>1. \A j, k \in 1..Len(inputs') : WorkAt(j)' /\ WorkAt(k)' /\ inputs'[j].id = inputs'[k].id => j = k
      BY <1>3 DEF Flight, DistinctQueue, WorkAt
    <2>2. ASSUME NEW k \in 1..Len(inputs'), WorkAt(k)'
          PROVE  WorkAt(k + 1) /\ k + 1 \in 1..Len(inputs) /\ inputs'[k] = inputs[k + 1]
      BY <1>3, <2>2 DEF WorkAt
    <2> QED
      BY <2>1, <2>2, <1>1, <1>2 DEF Flight, DistinctQueue
  <1> QED
    BY <1>4, <1>5, <1>6 DEF Flight

(* A slave stops holding a message, which goes nowhere.                        *)
LEMMA FlightDrop ==
    ASSUME TypeOK, Flight, NEW s \in Slaves, NEW idle, idle.pc # "work",
           slave' = [slave EXCEPT ![s] = idle],
           inputs' = inputs, working' = working, buffer' = buffer, pipe' = pipe
    PROVE  Flight'
  <1>1. \A t \in Slaves : slave'[t].pc = "work" => slave[t].pc = "work" /\ slave'[t] = slave[t]
    BY DEF TypeOK
  <1>2. SlaveMessage' /\ WorkidOwnership'
    BY <1>1 DEF Flight, SlaveMessage, WorkidOwnership
  <1>3. DistinctQueue' /\ DistinctSlaves' /\ DistinctResults'
    BY <1>1 DEF Flight, DistinctQueue, DistinctSlaves, DistinctResults, WorkAt
  <1> QED
    BY <1>2, <1>3 DEF Flight

(* The message of a slave moves to its buffer.                                 *)
LEMMA FlightPutResult ==
    ASSUME TypeOK, Flight, NEW s \in Slaves, PutResult(s)
    PROVE  Flight'
  <1> DEFINE q == [by |-> s, id |-> slave[s].id, work |-> slave[s].work]
  <1>1. /\ slave[s].pc = "work" /\ slave' = [slave EXCEPT ![s] = Idle]
        /\ buffer' = buffer \cup {q}
        /\ working' = working /\ inputs' = inputs /\ pipe' = pipe
    BY DEF PutResult, masterVars
  <1>2. \A t \in Slaves : slave'[t].pc = "work" =>
            slave[t].pc = "work" /\ slave'[t] = slave[t] /\ t # s
    BY <1>1 DEF TypeOK, Idle
  <1>3. SlaveMessage'
    BY <1>2 DEF Flight, SlaveMessage
  <1>4. WorkidOwnership'
    <2>1. \A t \in Slaves : slave'[t].pc = "work" =>
            slave'[t].id \in DOMAIN working /\ working[slave'[t].id] = slave'[t].work
      BY <1>2 DEF Flight, WorkidOwnership
    <2>2. q.id \in DOMAIN working /\ working[q.id] = q.work
      BY <1>1 DEF Flight, WorkidOwnership
    <2> QED
      BY <2>1, <2>2, <1>1 DEF Flight, WorkidOwnership
  <1>5. DistinctQueue'
    <2>1. \A k \in 1..Len(inputs) : WorkAt(k) => q.id # inputs[k].id
      BY <1>1 DEF Flight, DistinctQueue
    <2> QED
      BY <2>1, <1>1, <1>2 DEF Flight, DistinctQueue, WorkAt
  <1>6. DistinctSlaves'
    <2>1. \A t \in Slaves : slave'[t].pc = "work" => slave'[t].id # q.id
      BY <1>1, <1>2 DEF Flight, DistinctSlaves
    <2> QED
      BY <2>1, <1>1, <1>2 DEF Flight, DistinctSlaves
  <1>7. DistinctResults'
    <2>1. (\A r \in buffer : r.id # q.id) /\ (\A r \in pipe : r.id # q.id)
      BY <1>1 DEF Flight, DistinctSlaves
    <2> QED
      BY <2>1, <1>1 DEF Flight, DistinctResults
  <1> QED
    BY <1>3, <1>4, <1>5, <1>6, <1>7 DEF Flight

(* The feeder thread moves a result from the buffer to the pipe.               *)
LEMMA FlightFeed ==
    ASSUME TypeOK, Flight, NEW s \in Slaves, Feed(s)
    PROVE  Flight'
  <1>1. PICK r \in buffer : /\ buffer' = buffer \ {r}
                            /\ pipe' = pipe \cup {[id |-> r.id, work |-> r.work]}
    BY DEF Feed
  <1> DEFINE q == [id |-> r.id, work |-> r.work]
  <1>2. q.id = r.id /\ q.work = r.work
    OBVIOUS
  <1>3. inputs' = inputs /\ working' = working /\ slave' = slave
    BY DEF Feed, masterVars
  <1>4. SlaveMessage' /\ WorkidOwnership'
    BY <1>1, <1>2, <1>3 DEF Flight, SlaveMessage, WorkidOwnership
  <1>5. DistinctQueue' /\ DistinctSlaves'
    BY <1>1, <1>2, <1>3 DEF Flight, DistinctQueue, DistinctSlaves, WorkAt
  <1>6. DistinctResults'
    <2>1. \A p \in buffer \ {r} : p.id # q.id
      BY <1>2 DEF Flight, DistinctResults
    <2>2. \A p \in pipe : p.id # q.id
      BY <1>2 DEF Flight, DistinctResults
    <2> QED
      BY <2>1, <2>2, <1>1 DEF Flight, DistinctResults
  <1> QED
    BY <1>4, <1>5, <1>6 DEF Flight

-------------------------------------------------------------------------------
(* The theorems.                                                               *)

(* injectWorks starts from a workid larger than any in use.                    *)
LEMMA CallFresh ==
    ASSUME TypeOK, NEW ws, CallInjectWorks(ws), working' = working
    PROVE  FreshId'
  <1>1. PICK id \in {0} \cup {j + 1 : j \in DOMAIN working} : IsNextWorkid(id) /\ workid' = id
    BY DEF CallInjectWorks
  <1>2. \A i \in DOMAIN working : i < id
    BY <1>1 DEF IsNextWorkid, TypeOK
  <1> QED
    BY <1>1, <1>2 DEF FreshId

(* FreshId survives any step that keeps working and workid, or leaves inject.  *)
LEMMA FreshSame ==
    ASSUME FreshId, \/ mpc' = mpc /\ working' = working /\ workid' = workid
                    \/ mpc' # "inject"
    PROVE  FreshId'
  BY DEF FreshId

(* Nothing is in flight initially.                                             *)
LEMMA FlightInit == Init => Flight /\ FreshId
  BY DEF Init, Idle, Flight, SlaveMessage, WorkidOwnership, DistinctQueue, DistinctSlaves,
         DistinctResults, FreshId, WorkAt

(* Every step keeps the workids in flight distinct and owned.                  *)
LEMMA FlightNext == TypeOK /\ Flight /\ FreshId /\ [Next]_vars => Flight' /\ FreshId'
  <1> SUFFICES ASSUME TypeOK, Flight, FreshId, [Next]_vars PROVE Flight' /\ FreshId'
    OBVIOUS
  <1>1. CASE AcquireWork
    BY <1>1, FlightSame, CallFresh DEF AcquireWork
  <1>2. CASE Inject
    BY <1>2, FlightInject
  <1>3. CASE InjectDone
    BY <1>3, FlightSame, FreshSame DEF InjectDone
  <1>4. CASE InjectRecurring
    BY <1>4, FlightSame, CallFresh DEF InjectRecurring
  <1>5. CASE CallCheckFinished
    BY <1>5, FlightSame, FreshSame DEF CallCheckFinished
  <1>6. CASE Collect
    <2>1. mpc' # "inject"
      BY <1>6 DEF Collect
    <2> QED
      BY <1>6, <2>1, FlightCollect, FreshSame
  <1>7. CASE CollectNothing
    BY <1>7, FlightSame, FreshSame DEF CollectNothing
  <1>8. CASE CheckFinishedDone
    BY <1>8, FlightSame, FreshSame DEF CheckFinishedDone
  <1>9. CASE LeaveLoop
    BY <1>9, FlightSame, FreshSame DEF LeaveLoop
  <1>10. CASE PutStop
    <2>1. mpc' # "inject"
      BY <1>10 DEF PutStop
    <2> QED
      BY <1>10, <2>1, FlightPutStop, FreshSame
  <1>11. CASE Join
    BY <1>11, FlightSame, FreshSame DEF Join
  <1>12. CASE Quit
    BY <1>12, FlightSame, FreshSame DEF Quit, masterVars
  <1>13. ASSUME NEW s \in Slaves, GetWork(s) PROVE Flight' /\ FreshId'
    BY <1>13, FlightGetWork, FreshSame DEF GetWork, masterVars
  <1>14. ASSUME NEW s \in Slaves, GetStop(s) PROVE Flight' /\ FreshId'
    BY <1>14, FlightGetStop, FreshSame DEF GetStop, masterVars
  <1>15. ASSUME NEW s \in Slaves, PutResult(s) PROVE Flight' /\ FreshId'
    BY <1>15, FlightPutResult, FreshSame DEF PutResult, masterVars
  <1>16. ASSUME NEW s \in Slaves, Die(s) PROVE Flight' /\ FreshId'
    <2>1. Leaving.pc # "work"
      BY DEF Leaving
    <2> QED
      BY <1>16, <2>1, FlightDrop, FreshSame DEF Die, masterVars
  <1>17. ASSUME NEW s \in Slaves, Feed(s) PROVE Flight' /\ FreshId'
    BY <1>17, FlightFeed, FreshSame DEF Feed, masterVars
  <1>18. ASSUME NEW s \in Slaves, Exit(s) PROVE Flight' /\ FreshId'
    <2>1. Exited.pc # "work"
      BY DEF Exited
    <2> QED
      BY <1>18, <2>1, FlightDrop, FreshSame DEF Exit, masterVars
  <1>19. CASE UNCHANGED vars
    BY <1>19, FlightSame, FreshSame DEF vars
  <1> QED
    BY <1>1, <1>2, <1>3, <1>4, <1>5, <1>6, <1>7, <1>8, <1>9, <1>10, <1>11, <1>12,
       <1>13, <1>14, <1>15, <1>16, <1>17, <1>18, <1>19 DEF Next, Master, Slave

(* The inductive invariant holds in every reachable state.                     *)
THEOREM Invariance == Spec => []IInv
  <1>1. Init => IInv
    BY TypeInit, FlightInit DEF IInv, Flight
  <1>2. IInv /\ [Next]_vars => IInv'
    BY TypeNext, FlightNext DEF IInv, Flight
  <1> QED
    BY <1>1, <1>2, PTL DEF Spec

(* Type correctness of the pool.                                               *)
THEOREM TypeCorrect == Spec => []TypeOK
  <1>1. IInv => TypeOK
    BY DEF IInv
  <1> QED
    BY <1>1, Invariance, PTL

(* For any number of slaves, works and deaths, a result is always credited to  *)
(* the work it belongs to, and the entry that checkFinished deletes is there.  *)
THEOREM WorkidsOwned == Spec => []WorkidOwnership
  <1>1. IInv => WorkidOwnership
    BY DEF IInv
  <1> QED
    BY <1>1, Invariance, PTL

-------------------------------------------------------------------------------
(* The capacity of the pool.                                                   *)

(* Nothing moves: neither a message nor an entry of working.                   *)
Still == UNCHANGED <<inputs, working, slave, buffer, pipe, injected, lost, dead>>

(* The steps that move something.                                              *)
Moves == \/ Inject \/ Collect \/ PutStop
         \/ \E s \in Slaves : \/ GetWork(s) \/ GetStop(s) \/ PutResult(s) \/ Feed(s) \/ Exit(s)
                              \/ Die(s)

(* Every step moves something or nothing.                                      *)
LEMMA StillOrMoves == [Next]_vars => Still \/ Moves
  <1>1. AcquireWork \/ InjectDone \/ InjectRecurring \/ CallCheckFinished => Still
    BY DEF AcquireWork, InjectDone, InjectRecurring, CallCheckFinished, Still
  <1>2. CollectNothing \/ CheckFinishedDone \/ LeaveLoop \/ Join => Still
    BY DEF CollectNothing, CheckFinishedDone, LeaveLoop, Join, Still
  <1>3. Quit \/ UNCHANGED vars => Still
    BY DEF Quit, vars, masterVars, Still
  <1> QED
    BY <1>1, <1>2, <1>3 DEF Next, Master, Slave, Moves

(* The work w travels under the workid i, or died with its slave.              *)
Carried(i, w) == InQueue(i, w) \/ InSlave(i, w) \/ InResults(i, w) \/ w \in lost

(* injectWorks puts the message of the entry it makes.                         *)
LEMMA CarriedInject ==
    ASSUME TypeOK, FreshId, NoCapacityLeak, Inject
    PROVE  NoCapacityLeak'
  <1>1. PICK w \in todo :
            /\ inputs' = Append(inputs, [id |-> workid, work |-> w])
            /\ working' = [i \in DOMAIN working \cup {workid} |->
                                IF i = workid THEN w ELSE working[i]]
    BY DEF Inject
  <1>2. mpc = "inject" /\ UNCHANGED <<slave, buffer, pipe, lost>>
    BY DEF Inject
  <1>3. inputs \in Seq(Message \cup {StopMessage}) /\ [id |-> workid, work |-> w] \in Message
    BY <1>1 DEF TypeOK, Message
  <1>4. /\ Len(inputs) \in Nat /\ Len(inputs') = Len(inputs) + 1
        /\ \A k \in 1..Len(inputs) : inputs'[k] = inputs[k]
        /\ inputs'[Len(inputs) + 1] = [id |-> workid, work |-> w]
    BY <1>1, <1>3
  <1>5. \A i \in DOMAIN working : i # workid
    BY <1>2 DEF FreshId, TypeOK
  <1>6. /\ DOMAIN working' = DOMAIN working \cup {workid} /\ working'[workid] = w
        /\ \A i \in DOMAIN working : working'[i] = working[i]
    BY <1>1, <1>5
  <1>7. Len(inputs) + 1 \in 1..Len(inputs') /\ 1..Len(inputs) \subseteq 1..Len(inputs')
    BY <1>4
  <1>8. PICK n : n = workid
    OBVIOUS
  <1>9. InQueue(n, w)'
    BY <1>4, <1>7, <1>8 DEF InQueue
  <1>10. ASSUME NEW i \in DOMAIN working, NEW v, v = working[i] PROVE Carried(i, v)'
    <2>1. Carried(i, v)
      BY <1>10 DEF NoCapacityLeak, Carried
    <2>2. InQueue(i, v) => InQueue(i, v)'
      BY <1>4, <1>7 DEF InQueue
    <2> QED
      BY <1>2, <2>1, <2>2 DEF Carried, InSlave, InResults
  <1>11. ASSUME NEW i \in DOMAIN working', NEW v, v = working'[i] PROVE Carried(i, v)'
    <2>1. CASE i = n
      BY <1>6, <1>8, <1>9, <1>11, <2>1 DEF Carried
    <2>2. CASE i \in DOMAIN working
      BY <1>6, <1>10, <1>11, <2>2
    <2> QED
      BY <1>6, <1>8, <2>1, <2>2
  <1> QED
    BY <1>11 DEF NoCapacityLeak, Carried

(* An entry that stays, whose work is carried on.                              *)
CarriesOn == \A i \in DOMAIN working' :
                i \in DOMAIN working /\ working'[i] = working[i]

(* An entry that stays is still carried.                                       *)
LEMMA CarriedKeeps ==
    ASSUME NoCapacityLeak, CarriesOn,
           \A i \in DOMAIN working', w \in Works : Carried(i, w) => Carried(i, w)',
           TypeOK
    PROVE  NoCapacityLeak'
  <1>1. ASSUME NEW i \in DOMAIN working', NEW w, w = working'[i] PROVE Carried(i, w)'
    <2>1. i \in DOMAIN working /\ w = working[i] /\ w \in Works
      BY <1>1 DEF CarriesOn, TypeOK
    <2>2. Carried(i, w)
      BY <2>1 DEF NoCapacityLeak, Carried
    <2> QED
      BY <2>1, <2>2
  <1> QED
    BY <1>1 DEF NoCapacityLeak, Carried

(* No message is dropped by a step of the master or of a slave.                *)
LEMMA CarriedMoves ==
    ASSUME TypeOK, Flight, FreshId, NoCapacityLeak, Moves
    PROVE  NoCapacityLeak'
  <1>1. CASE Inject
    BY <1>1, CarriedInject
  <1>2. CASE Collect
    <2>1. PICK r \in pipe : pipe' = pipe \ {r} /\ working' = Deleted(r.id)
      BY <1>2 DEF Collect
    <2>2. UNCHANGED <<inputs, slave, buffer, lost>>
      BY <1>2 DEF Collect
    <2>3. /\ DOMAIN working' = DOMAIN working \ {r.id}
          /\ \A i \in DOMAIN working \ {r.id} : working'[i] = working[i]
      BY <2>1, WorkingShrinks DEF TypeOK
    <2>4. CarriesOn
      BY <2>3 DEF CarriesOn
    <2>5. ASSUME NEW i \in DOMAIN working', NEW w, Carried(i, w) PROVE Carried(i, w)'
      <3>1. i # r.id
        BY <2>3
      <3>2. r # [id |-> i, work |-> w]
        BY <3>1
      <3> QED
        BY <2>1, <2>2, <2>5, <3>2 DEF Carried, InQueue, InSlave, InResults
    <2> QED
      BY <2>4, <2>5, CarriedKeeps
  <1>3. CASE PutStop
    <2>1. inputs' = Append(inputs, StopMessage) /\ UNCHANGED <<working, slave, buffer, pipe, lost>>
      BY <1>3 DEF PutStop
    <2>2. \A k \in 1..Len(inputs) : k \in 1..Len(inputs') /\ inputs'[k] = inputs[k]
      BY <2>1 DEF TypeOK
    <2>3. CarriesOn
      BY <2>1 DEF CarriesOn
    <2>4. \A i, w : Carried(i, w) => Carried(i, w)'
      BY <2>1, <2>2 DEF Carried, InQueue, InSlave, InResults
    <2> QED
      BY <2>3, <2>4, CarriedKeeps
  <1>4. ASSUME NEW s \in Slaves, GetWork(s) \/ GetStop(s) PROVE NoCapacityLeak'
    <2>1. /\ inputs' = AfterGet /\ inputs # <<>> /\ slave[s].pc = "get"
          /\ UNCHANGED <<working, buffer, pipe, lost>>
      BY <1>4 DEF GetWork, GetStop, masterVars
    <2>2. \A t \in Slaves \ {s} : slave'[t] = slave[t]
      BY <1>4 DEF GetWork, GetStop, TypeOK
    <2>3. /\ Head(inputs) = inputs[1] /\ Len(inputs) \in Nat
          /\ \A k \in 1..Len(inputs) : k = 1 \/ (k - 1 \in 1..Len(inputs') /\ inputs'[k - 1] = inputs[k])
      BY <2>1 DEF TypeOK, AfterGet
    <2>4. CarriesOn
      BY <2>1 DEF CarriesOn
    <2>5. ASSUME NEW i, NEW w \in Works, InQueue(i, w) PROVE InQueue(i, w)' \/ InSlave(i, w)'
      <3>1. PICK k \in 1..Len(inputs) : inputs[k] = [id |-> i, work |-> w]
        BY <2>5 DEF InQueue
      <3>2. CASE k = 1
        <4>1. Head(inputs) = [id |-> i, work |-> w] /\ w # NoWork
          BY <2>3, <3>1, <3>2, PoolAssumption
        <4>2. slave'[s] = [pc |-> "work", id |-> i, work |-> w]
          BY <1>4, <4>1 DEF GetWork, GetStop, TypeOK
        <4> QED
          BY <4>2 DEF InSlave
      <3>3. CASE k # 1
        BY <2>3, <3>1, <3>3 DEF InQueue
      <3> QED
        BY <3>2, <3>3
    <2>6. ASSUME NEW i, NEW w, InSlave(i, w) PROVE InSlave(i, w)'
      BY <2>1, <2>2, <2>6 DEF InSlave
    <2>7. ASSUME NEW i \in DOMAIN working', NEW w \in Works, Carried(i, w) PROVE Carried(i, w)'
      BY <2>1, <2>5, <2>6, <2>7 DEF Carried, InResults
    <2>8. \A i \in DOMAIN working' : working[i] \in Works
      BY <2>1 DEF TypeOK
    <2> QED
      BY <2>4, <2>7, <2>8, CarriedKeeps
  <1>5. ASSUME NEW s \in Slaves, PutResult(s) PROVE NoCapacityLeak'
    <2>1. /\ buffer' = buffer \cup {[by |-> s, id |-> slave[s].id, work |-> slave[s].work]}
          /\ UNCHANGED <<inputs, working, pipe, lost>>
          /\ \A t \in Slaves \ {s} : slave'[t] = slave[t]
      BY <1>5 DEF PutResult, masterVars, TypeOK
    <2>2. CarriesOn
      BY <2>1 DEF CarriesOn
    <2>3. ASSUME NEW i, NEW w, InSlave(i, w) PROVE InSlave(i, w)' \/ InResults(i, w)'
      <3>1. PICK t \in Slaves : slave[t] = [pc |-> "work", id |-> i, work |-> w]
        BY <2>3 DEF InSlave
      <3>2. CASE t = s
        <4>1. slave[s].id = i /\ slave[s].work = w
          BY <3>1, <3>2
        <4> QED
          BY <2>1, <4>1 DEF InResults
      <3>3. CASE t # s
        BY <2>1, <3>1, <3>3 DEF InSlave
      <3> QED
        BY <3>2, <3>3
    <2>4. ASSUME NEW i, NEW w, Carried(i, w) PROVE Carried(i, w)'
      BY <2>1, <2>3, <2>4 DEF Carried, InQueue, InResults
    <2> QED
      BY <2>2, <2>4, CarriedKeeps
  <1>6. ASSUME NEW s \in Slaves, Feed(s) PROVE NoCapacityLeak'
    <2>1. PICK r \in buffer : /\ buffer' = buffer \ {r}
                              /\ pipe' = pipe \cup {[id |-> r.id, work |-> r.work]}
      BY <1>6 DEF Feed
    <2>2. UNCHANGED <<inputs, working, slave, lost>>
      BY <1>6 DEF Feed, masterVars
    <2>3. CarriesOn
      BY <2>2 DEF CarriesOn
    <2>4. ASSUME NEW i, NEW w, InResults(i, w) PROVE InResults(i, w)'
      <3>1. CASE \E t \in Slaves : [by |-> t, id |-> i, work |-> w] = r
        <4>1. [id |-> i, work |-> w] = [id |-> r.id, work |-> r.work]
          BY <3>1
        <4> QED
          BY <2>1, <4>1 DEF InResults
      <3>2. CASE ~\E t \in Slaves : [by |-> t, id |-> i, work |-> w] = r
        BY <2>1, <2>4, <3>2 DEF InResults
      <3> QED
        BY <3>1, <3>2
    <2>5. ASSUME NEW i, NEW w, Carried(i, w) PROVE Carried(i, w)'
      BY <2>2, <2>4, <2>5 DEF Carried, InQueue, InSlave
    <2> QED
      BY <2>3, <2>5, CarriedKeeps
  <1>7. ASSUME NEW s \in Slaves, Exit(s) PROVE NoCapacityLeak'
    <2>1. /\ UNCHANGED <<inputs, working, buffer, pipe, lost>> /\ slave[s].pc = "exiting"
          /\ \A t \in Slaves \ {s} : slave'[t] = slave[t]
      BY <1>7 DEF Exit, masterVars, TypeOK
    <2>2. CarriesOn
      BY <2>1 DEF CarriesOn
    <2>3. ASSUME NEW i, NEW w, Carried(i, w) PROVE Carried(i, w)'
      BY <2>1, <2>3 DEF Carried, InQueue, InSlave, InResults
    <2> QED
      BY <2>2, <2>3, CarriedKeeps
  <1>8. ASSUME NEW s \in Slaves, Die(s) PROVE NoCapacityLeak'
    <2>1. /\ UNCHANGED <<inputs, working, buffer, pipe>> /\ lost' = lost \cup ({slave[s].work} \ {NoWork})
          /\ \A t \in Slaves \ {s} : slave'[t] = slave[t]
      BY <1>8 DEF Die, masterVars, TypeOK
    <2>2. CarriesOn
      BY <2>1 DEF CarriesOn
    <2>3. ASSUME NEW i, NEW w \in Works, InSlave(i, w) PROVE InSlave(i, w)' \/ w \in lost'
      <3>1. PICK t \in Slaves : slave[t] = [pc |-> "work", id |-> i, work |-> w]
        BY <2>3 DEF InSlave
      <3>2. CASE t = s
        BY <2>1, <3>1, <3>2, PoolAssumption
      <3>3. CASE t # s
        BY <2>1, <3>1, <3>3 DEF InSlave
      <3> QED
        BY <3>2, <3>3
    <2>4. ASSUME NEW i, NEW w \in Works, Carried(i, w) PROVE Carried(i, w)'
      BY <2>1, <2>3, <2>4 DEF Carried, InQueue, InResults
    <2>5. \A i \in DOMAIN working' : working[i] \in Works
      BY <2>1 DEF TypeOK
    <2> QED
      BY <2>2, <2>4, <2>5, CarriedKeeps
  <1> QED
    BY <1>1, <1>2, <1>3, <1>4, <1>5, <1>6, <1>7, <1>8 DEF Moves

(* An entry of working is a work in flight or one lost with its slave, so that *)
(* the capacity queueableTasks() computes leaks with the deaths only.          *)
THEOREM CapacityKept == Spec => []NoCapacityLeak
  <1>1. Init => NoCapacityLeak
    BY DEF Init, NoCapacityLeak
  <1>2. IInv /\ NoCapacityLeak /\ [Next]_vars => NoCapacityLeak'
    <2>1. SUFFICES ASSUME IInv, NoCapacityLeak, [Next]_vars PROVE NoCapacityLeak'
      OBVIOUS
    <2>2. CASE Still
      BY <2>1, <2>2 DEF Still, NoCapacityLeak, InQueue, InSlave, InResults
    <2>3. CASE Moves
      BY <2>1, <2>3, CarriedMoves DEF IInv, Flight
    <2> QED
      BY <2>1, <2>2, <2>3, StillOrMoves
  <1> QED
    BY <1>1, <1>2, Invariance, PTL DEF Spec

-------------------------------------------------------------------------------
(* The graceful stop.                                                          *)

(* No message of the queue carries a work.                                     *)
OnlyStops == \A k \in 1..Len(inputs) : inputs[k].work = NoWork

(* The STOP messages are behind the works, and only end() puts them: a slave   *)
(* that leaves without having died has read one, with no work behind it.       *)
StopsBehind ==
    /\ mpc \notin {"end", "ended"} => \A k \in 1..Len(inputs) : inputs[k].work # NoWork
    /\ \A j, k \in 1..Len(inputs) : j < k /\ inputs[j].work = NoWork => inputs[k].work = NoWork
    /\ \A s \in Slaves \ dead : slave[s].pc \in {"exiting", "exited"} =>
            mpc \in {"end", "ended"} /\ OnlyStops
    /\ mpc = "ended" => AllExited

(* A step that neither puts nor takes a message, and after which no slave has  *)
(* left that had not, unless it died.                                          *)
LEMMA StopsStay ==
    ASSUME StopsBehind, inputs' = inputs, dead \subseteq dead',
           mpc' = mpc \/ (mpc \notin {"end", "ended"} /\ mpc' # "ended"),
           \A s \in Slaves \ dead' : slave'[s].pc \in {"exiting", "exited"} =>
                slave[s].pc \in {"exiting", "exited"},
           \A s \in Slaves : slave[s].pc = "exited" => slave'[s].pc = "exited"
    PROVE  StopsBehind'
  <1>1. OnlyStops' <=> OnlyStops
    BY DEF OnlyStops
  <1>2. AllExited => AllExited'
    BY DEF AllExited
  <1>3. mpc' \notin {"end", "ended"} => mpc \notin {"end", "ended"}
    OBVIOUS
  <1>4. mpc \in {"end", "ended"} => mpc' \in {"end", "ended"}
    OBVIOUS
  <1>5. mpc' = "ended" => mpc = "ended"
    OBVIOUS
  <1>6. \A s \in Slaves \ dead' : slave'[s].pc \in {"exiting", "exited"} =>
            mpc' \in {"end", "ended"} /\ OnlyStops'
    BY <1>1, <1>4 DEF StopsBehind
  <1> QED
    BY <1>2, <1>3, <1>5, <1>6 DEF StopsBehind

(* The steps of the master.                                                    *)
LEMMA StopsMaster ==
    ASSUME TypeOK, StopsBehind, Master \/ Quit
    PROVE  StopsBehind'
  <1>1. CASE Inject
    <2>1. PICK w \in todo : inputs' = Append(inputs, [id |-> workid, work |-> w])
      BY <1>1 DEF Inject
    <2>2. mpc = "inject" /\ mpc' = mpc /\ UNCHANGED <<slave, dead>>
      BY <1>1 DEF Inject
    <2>3. w # NoWork /\ [id |-> workid, work |-> w] \in Message
      BY <2>1, PoolAssumption DEF TypeOK, Message
    <2>4. \A k \in 1..Len(inputs') : inputs'[k].work # NoWork
      <3>1. \A k \in 1..Len(inputs) : inputs[k].work # NoWork
        BY <2>2 DEF StopsBehind
      <3>2. /\ Len(inputs) \in Nat /\ Len(inputs') = Len(inputs) + 1
            /\ \A k \in 1..Len(inputs) : inputs'[k] = inputs[k]
            /\ inputs'[Len(inputs) + 1] = [id |-> workid, work |-> w]
        BY <2>1, <2>3 DEF TypeOK
      <3>3. \A k \in 1..Len(inputs') : k \in 1..Len(inputs) \/ k = Len(inputs) + 1
        BY <3>2
      <3> QED
        BY <2>3, <3>1, <3>2, <3>3
    <2>5. \A s \in Slaves \ dead : slave[s].pc \notin {"exiting", "exited"}
      BY <2>2 DEF StopsBehind
    <2> QED
      BY <2>2, <2>4, <2>5 DEF StopsBehind
  <1>2. CASE PutStop
    <2>1. inputs' = Append(inputs, StopMessage) /\ mpc = "end" /\ mpc' = mpc /\ UNCHANGED <<slave, dead>>
      BY <1>2 DEF PutStop
    <2>2. /\ Len(inputs) \in Nat /\ Len(inputs') = Len(inputs) + 1
          /\ \A k \in 1..Len(inputs) : inputs'[k] = inputs[k]
          /\ inputs'[Len(inputs) + 1].work = NoWork
      BY <2>1 DEF TypeOK, StopMessage
    <2>3. \A k \in 1..Len(inputs') : k \in 1..Len(inputs) \/ inputs'[k].work = NoWork
      BY <2>2
    <2>4. \A j, k \in 1..Len(inputs') : j < k /\ inputs'[j].work = NoWork => inputs'[k].work = NoWork
      <3>1. ASSUME NEW j \in 1..Len(inputs'), NEW k \in 1..Len(inputs), j < k, inputs'[j].work = NoWork
            PROVE  inputs[k].work = NoWork
        <4>1. j \in 1..Len(inputs)
          BY <2>2, <3>1
        <4> QED
          BY <2>2, <3>1, <4>1 DEF StopsBehind
      <3> QED
        BY <2>2, <2>3, <3>1
    <2>5. OnlyStops => OnlyStops'
      BY <2>2, <2>3 DEF OnlyStops
    <2> QED
      BY <2>1, <2>4, <2>5 DEF StopsBehind
  <1>3. CASE Join
    <2>1. mpc = "end" /\ mpc' = "ended" /\ AllExited /\ UNCHANGED <<inputs, slave, dead>>
      BY <1>3 DEF Join
    <2>2. (OnlyStops' <=> OnlyStops) /\ AllExited'
      BY <2>1 DEF OnlyStops, AllExited
    <2> QED
      BY <2>1, <2>2 DEF StopsBehind
  <1>4. CASE \/ AcquireWork \/ InjectDone \/ InjectRecurring \/ CallCheckFinished \/ Collect
             \/ CollectNothing \/ CheckFinishedDone \/ LeaveLoop \/ Quit
    <2>1. UNCHANGED <<inputs, slave, dead>>
      BY <1>4 DEF AcquireWork, InjectDone, InjectRecurring, CallCheckFinished, Collect,
                  CollectNothing, CheckFinishedDone, LeaveLoop, Quit
    <2>2. mpc' = mpc \/ (mpc \notin {"end", "ended"} /\ mpc' # "ended")
      BY <1>4 DEF AcquireWork, InjectDone, InjectRecurring, CallCheckFinished, Collect,
                  CollectNothing, CheckFinishedDone, LeaveLoop, Quit, CallInjectWorks, masterVars
    <2> QED
      BY <2>1, <2>2, StopsStay
  <1> QED
    BY <1>1, <1>2, <1>3, <1>4 DEF Master

(* The steps of the slaves.                                                    *)
LEMMA StopsSlave ==
    ASSUME TypeOK, StopsBehind, NEW s \in Slaves, Slave(s) \/ Die(s)
    PROVE  StopsBehind'
  <1>1. mpc' = mpc
    BY DEF Slave, GetWork, GetStop, PutResult, Feed, Exit, Die, masterVars
  <1>2. CASE GetWork(s) \/ GetStop(s)
    <2>1. inputs' = AfterGet /\ inputs # <<>> /\ dead' = dead /\ slave[s].pc = "get"
      BY <1>2 DEF GetWork, GetStop
    <2>2. mpc # "ended"
      BY <2>1 DEF StopsBehind, AllExited
    <2>3. /\ Len(inputs) \in Nat /\ 1 \in 1..Len(inputs) /\ Head(inputs) = inputs[1]
          /\ \A k \in 1..Len(inputs') : k \in Nat /\ k + 1 \in 1..Len(inputs) /\ inputs'[k] = inputs[k + 1]
      BY <2>1, AfterGetElements
    <2>4. mpc \notin {"end", "ended"} => \A k \in 1..Len(inputs') : inputs'[k].work # NoWork
      BY <2>3 DEF StopsBehind
    <2>5. \A j, k \in 1..Len(inputs') : j < k /\ inputs'[j].work = NoWork => inputs'[k].work = NoWork
      <3>1. SUFFICES ASSUME NEW j \in 1..Len(inputs'), NEW k \in 1..Len(inputs'), j < k,
                            inputs'[j].work = NoWork
                     PROVE  inputs'[k].work = NoWork
        OBVIOUS
      <3>2. j + 1 \in 1..Len(inputs) /\ k + 1 \in 1..Len(inputs) /\ j + 1 < k + 1
        BY <2>3, <3>1
      <3>3. inputs[j + 1].work = NoWork
        BY <2>3, <3>1
      <3>4. inputs[k + 1].work = NoWork
        BY <3>2, <3>3 DEF StopsBehind
      <3> QED
        BY <2>3, <3>4
    <2>6. OnlyStops => OnlyStops'
      BY <2>3 DEF OnlyStops
    <2>7. GetStop(s) => mpc \in {"end", "ended"} /\ OnlyStops'
      <3>1. SUFFICES ASSUME GetStop(s) PROVE mpc \in {"end", "ended"} /\ OnlyStops'
        OBVIOUS
      <3>2. inputs[1].work = NoWork
        BY <2>3, <3>1 DEF GetStop
      <3>3. mpc \in {"end", "ended"}
        BY <2>3, <3>2 DEF StopsBehind
      <3>4. ASSUME NEW k \in 1..Len(inputs') PROVE inputs'[k].work = NoWork
        <4>1. 1 < k + 1 /\ k + 1 \in 1..Len(inputs)
          BY <2>3
        <4> QED
          BY <2>3, <3>2, <4>1 DEF StopsBehind
      <3> QED
        BY <3>3, <3>4 DEF OnlyStops
    <2>8. \A t \in Slaves : slave'[t].pc \in {"exiting", "exited"} =>
                slave[t].pc \in {"exiting", "exited"} \/ GetStop(s)
      BY <1>2 DEF GetWork, TypeOK
    <2> QED
      BY <1>1, <2>1, <2>2, <2>4, <2>5, <2>6, <2>7, <2>8 DEF StopsBehind
  <1>3. CASE PutResult(s) \/ Feed(s) \/ Exit(s) \/ Die(s)
    <2>1. inputs' = inputs /\ dead \subseteq dead'
      BY <1>3 DEF PutResult, Feed, Exit, Die
    <2>2. \A t \in Slaves \ dead' : slave'[t].pc \in {"exiting", "exited"} =>
                slave[t].pc \in {"exiting", "exited"}
      BY <1>3 DEF PutResult, Feed, Exit, Die, Idle, Leaving, TypeOK
    <2>3. \A t \in Slaves : slave[t].pc = "exited" => slave'[t].pc = "exited"
      BY <1>3 DEF PutResult, Feed, Exit, Die, Exited, TypeOK
    <2> QED
      BY <1>1, <2>1, <2>2, <2>3, StopsStay
  <1> QED
    BY <1>2, <1>3 DEF Slave

(* However many slaves there are and whichever die, when the master has ended  *)
(* no work is left in the queue, if some slave survived.                       *)
THEOREM StopIsGraceful == Spec => []GracefulStop
  <1>1. Init => StopsBehind
    BY DEF Init, StopsBehind, Idle
  <1>2. TypeOK /\ StopsBehind /\ [Next]_vars => StopsBehind'
    <2>1. SUFFICES ASSUME TypeOK, StopsBehind, [Next]_vars PROVE StopsBehind'
      OBVIOUS
    <2>2. CASE UNCHANGED vars
      BY <2>1, <2>2, StopsStay DEF vars
    <2> QED
      BY <2>1, <2>2, StopsMaster, StopsSlave DEF Next
  <1>3. TypeOK /\ StopsBehind => GracefulStop
    <2>1. SUFFICES ASSUME TypeOK, StopsBehind, mpc = "ended", dead # Slaves
                   PROVE  OnlyStops
      BY DEF GracefulStop, OnlyStops
    <2>2. PICK s \in Slaves : s \notin dead
      BY <2>1 DEF TypeOK
    <2> QED
      BY <2>1, <2>2 DEF StopsBehind, AllExited
  <1> QED
    BY <1>1, <1>2, <1>3, TypeCorrect, PTL DEF Spec

-------------------------------------------------------------------------------
(* The dispatch of works: WorkDispatch.                                        *)

(* Where the work w is, with no mention of workids.                            *)
Queued(w) == \E k \in 1..Len(inputs) : inputs[k].work = w
Running(w) == \E s \in Slaves : slave[s].pc = "work" /\ slave[s].work = w
Reported(w) == (\E r \in buffer : r.work = w) \/ (\E r \in pipe : r.work = w)
Registered(w) == \E i \in DOMAIN working : working[i] = w

(* A work is injected once, under one workid, and a lost one is nowhere but in *)
(* working.                                                                    *)
Books ==
    /\ \A i \in DOMAIN working : working[i] \in injected
    /\ \A i, j \in DOMAIN working : working[i] = working[j] => i = j
    /\ todo \cap injected = {}
    /\ \A s \in Slaves : slave[s].pc # "work" => slave[s].work = NoWork
    /\ \A w \in lost : Registered(w) /\ ~Queued(w) /\ ~Running(w) /\ ~Reported(w)

(* A work in flight is registered, and is in one place.                        *)
LEMMA OnePlace ==
    ASSUME TypeOK, Flight, Books, NEW w \in Works
    PROVE  /\ Queued(w) \/ Running(w) \/ Reported(w) => Registered(w)
           /\ Registered(w) => w \in injected
           /\ Queued(w) => ~Running(w) /\ ~Reported(w)
           /\ Running(w) => ~Reported(w)
  <1>1. w # NoWork
    BY PoolAssumption
  <1>2. ASSUME NEW k \in 1..Len(inputs), inputs[k].work = w
        PROVE  inputs[k].id \in DOMAIN working /\ working[inputs[k].id] = w /\ WorkAt(k)
    BY <1>1, <1>2 DEF Flight, WorkidOwnership, WorkAt
  <1>3. ASSUME NEW s \in Slaves, slave[s].pc = "work", slave[s].work = w
        PROVE  slave[s].id \in DOMAIN working /\ working[slave[s].id] = w
    BY <1>3 DEF Flight, WorkidOwnership
  <1>4. ASSUME NEW r \in buffer \cup pipe, r.work = w
        PROVE  r.id \in DOMAIN working /\ working[r.id] = w
    BY <1>4 DEF Flight, WorkidOwnership
  <1>5. \A i, j \in DOMAIN working : working[i] = w /\ working[j] = w => i = j
    BY DEF Books
  <1>6. Queued(w) \/ Running(w) \/ Reported(w) => Registered(w)
    BY <1>2, <1>3, <1>4 DEF Queued, Running, Reported, Registered
  <1>7. Registered(w) => w \in injected
    BY DEF Registered, Books
  <1>8. ASSUME NEW k \in 1..Len(inputs), inputs[k].work = w,
               NEW s \in Slaves, slave[s].pc = "work", slave[s].work = w
        PROVE  FALSE
    <2>1. slave[s].id = inputs[k].id
      BY <1>2, <1>3, <1>5, <1>8
    <2> QED
      BY <1>2, <1>8, <2>1 DEF Flight, DistinctQueue
  <1>9. ASSUME NEW k \in 1..Len(inputs), inputs[k].work = w, NEW r \in buffer \cup pipe, r.work = w
        PROVE  FALSE
    <2>1. r.id = inputs[k].id
      BY <1>2, <1>4, <1>5, <1>9
    <2> QED
      BY <1>2, <1>9, <2>1 DEF Flight, DistinctQueue
  <1>10. ASSUME NEW s \in Slaves, slave[s].pc = "work", slave[s].work = w,
                NEW r \in buffer \cup pipe, r.work = w
         PROVE  FALSE
    <2>1. r.id = slave[s].id
      BY <1>3, <1>4, <1>5, <1>10
    <2> QED
      BY <1>10, <2>1 DEF Flight, DistinctSlaves
  <1> QED
    BY <1>6, <1>7, <1>8, <1>9, <1>10 DEF Queued, Running, Reported

(* No two places of the same kind hold the same work.                          *)
LEMMA OneMessage ==
    ASSUME TypeOK, Flight, Books, NEW w \in Works
    PROVE  /\ \A j, k \in 1..Len(inputs) : inputs[j].work = w /\ inputs[k].work = w => j = k
           /\ \A s, t \in Slaves : slave[s].pc = "work" /\ slave[s].work = w
                                   /\ slave[t].pc = "work" /\ slave[t].work = w => s = t
           /\ \A q, r \in pipe : q.work = w /\ r.work = w => q = r
           /\ \A q \in buffer, r \in pipe : ~(q.work = w /\ r.work = w)
  <1>1. w # NoWork
    BY PoolAssumption
  <1>2. \A i, j \in DOMAIN working : working[i] = w /\ working[j] = w => i = j
    BY DEF Books
  <1>3. ASSUME NEW j \in 1..Len(inputs), NEW k \in 1..Len(inputs), inputs[j].work = w, inputs[k].work = w
        PROVE  j = k
    <2>1. inputs[j].id = inputs[k].id /\ WorkAt(j) /\ WorkAt(k)
      BY <1>1, <1>2, <1>3 DEF Flight, WorkidOwnership, WorkAt
    <2> QED
      BY <2>1 DEF Flight, DistinctQueue
  <1>4. ASSUME NEW s \in Slaves, NEW t \in Slaves, slave[s].pc = "work", slave[t].pc = "work",
               slave[s].work = w, slave[t].work = w
        PROVE  s = t
    <2>1. slave[s].id = slave[t].id
      BY <1>2, <1>4 DEF Flight, WorkidOwnership
    <2> QED
      BY <1>4, <2>1 DEF Flight, DistinctSlaves
  <1>5. ASSUME NEW q \in buffer \cup pipe, NEW r \in pipe, q.work = w, r.work = w
        PROVE  q.id = r.id
    BY <1>2, <1>5 DEF Flight, WorkidOwnership
  <1>6. /\ \A q, r \in pipe : q.work = w /\ r.work = w => q = r
        /\ \A q \in buffer, r \in pipe : ~(q.work = w /\ r.work = w)
    BY <1>5 DEF Flight, DistinctResults
  <1>7. \A j, k \in 1..Len(inputs) : inputs[j].work = w /\ inputs[k].work = w => j = k
    BY <1>3
  <1>8. \A s, t \in Slaves : slave[s].pc = "work" /\ slave[s].work = w
                             /\ slave[t].pc = "work" /\ slave[t].work = w => s = t
    BY <1>4
  <1> QED
    BY <1>6, <1>7, <1>8

(* The place of a work, as the abstract dispatch names it.                     *)
LEMMA PlaceIs ==
    ASSUME TypeOK, Flight, Books, NoCapacityLeak, NEW w \in Works
    PROVE  /\ w \notin injected => WorkPlace(w) = "new"
           /\ w \in injected /\ ~Registered(w) => WorkPlace(w) = "collected"
           /\ w \in lost => WorkPlace(w) = "lost"
           /\ Queued(w) => WorkPlace(w) = "queued"
           /\ Running(w) => WorkPlace(w) = "running"
           /\ Reported(w) => WorkPlace(w) = "reported"
           /\ \/ w \notin injected \/ (w \in injected /\ ~Registered(w)) \/ w \in lost
              \/ Queued(w) \/ Running(w) \/ Reported(w)
  <1>1. /\ Queued(w) \/ Running(w) \/ Reported(w) => Registered(w)
        /\ Registered(w) => w \in injected
        /\ Queued(w) => ~Running(w) /\ ~Reported(w)
        /\ Running(w) => ~Reported(w)
    BY OnePlace
  <1>2. w \in lost => Registered(w) /\ ~Queued(w) /\ ~Running(w) /\ ~Reported(w)
    BY DEF Books
  <1>3. (\E i \in DOMAIN working : InQueue(i, w)) <=> Queued(w)
    <2>1. ASSUME NEW k \in 1..Len(inputs), inputs[k].work = w
          PROVE  \E i \in DOMAIN working : InQueue(i, w)
      <3>1. inputs[k] \in Message \cup {StopMessage} /\ w # NoWork
        BY PoolAssumption DEF TypeOK
      <3>2. inputs[k] = [id |-> inputs[k].id, work |-> w]
        BY <2>1, <3>1 DEF Message, StopMessage
      <3>3. inputs[k].id \in DOMAIN working
        BY <2>1, <3>1 DEF Flight, WorkidOwnership
      <3> QED
        BY <3>2, <3>3 DEF InQueue
    <2>2. \A i : InQueue(i, w) => Queued(w)
      BY DEF InQueue, Queued
    <2> QED
      BY <2>1, <2>2 DEF Queued
  <1>4. (\E i \in DOMAIN working : InSlave(i, w)) <=> Running(w)
    <2>1. ASSUME NEW s \in Slaves, slave[s].pc = "work", slave[s].work = w
          PROVE  \E i \in DOMAIN working : InSlave(i, w)
      <3>1. slave[s] = [pc |-> "work", id |-> slave[s].id, work |-> w]
        BY <2>1 DEF TypeOK
      <3>2. slave[s].id \in DOMAIN working
        BY <2>1 DEF Flight, WorkidOwnership
      <3> QED
        BY <3>1, <3>2 DEF InSlave
    <2>2. \A i : InSlave(i, w) => Running(w)
      BY DEF InSlave, Running
    <2> QED
      BY <2>1, <2>2 DEF Running
  <1>5. Registered(w) /\ w \notin lost => Queued(w) \/ Running(w) \/ Reported(w)
    <2>1. SUFFICES ASSUME NEW i \in DOMAIN working, working[i] = w, w \notin lost
                   PROVE  Queued(w) \/ Running(w) \/ Reported(w)
      BY DEF Registered
    <2>2. InQueue(i, w) \/ InSlave(i, w) \/ InResults(i, w)
      BY <2>1 DEF NoCapacityLeak
    <2>3. InResults(i, w) => Reported(w)
      BY DEF InResults, Reported
    <2> QED
      BY <1>3, <1>4, <2>2, <2>3
  <1>6. (\A i \in DOMAIN working : working[i] # w) <=> ~Registered(w)
    BY DEF Registered
  <1>7. WorkPlace(w) =
            CASE w \notin injected -> "new"
              [] w \in injected /\ ~Registered(w) -> "collected"
              [] w \in lost -> "lost"
              [] Queued(w) -> "queued"
              [] Running(w) -> "running"
              [] OTHER -> "reported"
    BY <1>3, <1>4, <1>6 DEF WorkPlace
  <1>8. CASE w \notin injected
    BY <1>1, <1>2, <1>7, <1>8
  <1>9. CASE w \in injected /\ ~Registered(w)
    BY <1>1, <1>2, <1>7, <1>9
  <1>10. CASE w \in lost
    BY <1>1, <1>2, <1>7, <1>10
  <1>11. CASE Queued(w)
    BY <1>1, <1>2, <1>7, <1>11
  <1>12. CASE Running(w)
    BY <1>1, <1>2, <1>7, <1>12
  <1>13. CASE Reported(w)
    BY <1>1, <1>2, <1>7, <1>13
  <1> QED
    BY <1>5, <1>8, <1>9, <1>10, <1>11, <1>12, <1>13

(* What a step does to a work u: it moves, or stays where it is.               *)
Stays(u) ==
    /\ (Queued(u)' <=> Queued(u)) /\ (Running(u)' <=> Running(u)) /\ (Reported(u)' <=> Reported(u))
    /\ Registered(u)' <=> Registered(u)
    /\ (u \in injected' <=> u \in injected) /\ (u \in lost' <=> u \in lost)

(* The work w goes to the queue, which is not full, to an idle slave, to the   *)
(* results, out of the pool, or is lost.                                       *)
Enters(w) ==
    /\ Len(inputs) < LenInQueue
    /\ w \in todo /\ w \notin injected
    /\ Queued(w)' /\ Registered(w)' /\ ~Running(w)' /\ ~Reported(w)'
    /\ injected' = injected \cup {w} /\ lost' = lost
Starts(w) ==
    /\ \E s \in Slaves : slave[s].pc # "work"
    /\ Queued(w) /\ Registered(w)' /\ ~Queued(w)' /\ Running(w)' /\ ~Reported(w)'
    /\ injected' = injected /\ lost' = lost
Ends(w) ==
    /\ Running(w) /\ Registered(w)' /\ ~Queued(w)' /\ ~Running(w)' /\ Reported(w)'
    /\ injected' = injected /\ lost' = lost
Leaves(w) ==
    /\ Reported(w) /\ ~Registered(w)' /\ ~Queued(w)' /\ ~Running(w)' /\ ~Reported(w)'
    /\ injected' = injected /\ lost' = lost
Dies(w) ==
    /\ Running(w) /\ Registered(w)' /\ ~Queued(w)' /\ ~Running(w)' /\ ~Reported(w)'
    /\ injected' = injected /\ lost' = lost \cup {w}

Step(w) == Enters(w) \/ Starts(w) \/ Ends(w) \/ Leaves(w) \/ Dies(w)

(* The step moves one work, or none.                                           *)
WorkMoves ==
    \/ \E w \in Works : Step(w) /\ \A u \in Works \ {w} : Stays(u)
    \/ injected' = injected /\ lost' = lost /\ \A u \in Works : Stays(u)

(* A queue that gets a message at its end, or loses the one at its head.       *)
LEMMA QueuedAfterPut ==
    ASSUME TypeOK, NEW m \in Message \cup {StopMessage}, inputs' = Append(inputs, m), NEW u
    PROVE  Queued(u)' <=> Queued(u) \/ m.work = u
  <1>1. /\ Len(inputs) \in Nat /\ Len(inputs') = Len(inputs) + 1
        /\ \A k \in 1..Len(inputs) : inputs'[k] = inputs[k] /\ k \in 1..Len(inputs')
        /\ inputs'[Len(inputs) + 1] = m /\ Len(inputs) + 1 \in 1..Len(inputs')
    BY DEF TypeOK
  <1>2. \A k \in 1..Len(inputs') : k \in 1..Len(inputs) \/ k = Len(inputs) + 1
    BY <1>1
  <1> QED
    BY <1>1, <1>2 DEF Queued

(* The head of the queue leaves it, and the other works stay in it.             *)
LEMMA QueuedAfterGet ==
    ASSUME TypeOK, Flight, Books, inputs # <<>>, inputs' = AfterGet, NEW u \in Works
    PROVE  /\ Head(inputs).work = u => Queued(u) /\ ~Queued(u)'
           /\ Head(inputs).work # u => (Queued(u)' <=> Queued(u))
  <1>1. /\ Len(inputs) \in Nat /\ 1 \in 1..Len(inputs) /\ Head(inputs) = inputs[1]
        /\ \A k \in 1..Len(inputs') : /\ k + 1 \in 1..Len(inputs) /\ inputs'[k] = inputs[k + 1]
                                      /\ k \in Nat /\ k + 1 # 1
    BY AfterGetElements
  <1>2. \A k \in 1..Len(inputs) : k = 1 \/ (k - 1 \in 1..Len(inputs') /\ inputs'[k - 1] = inputs[k])
    BY DEF TypeOK, AfterGet
  <1>3. Queued(u)' => Queued(u)
    BY <1>1 DEF Queued
  <1>4. Head(inputs).work = u => Queued(u) /\ ~Queued(u)'
    <2>1. SUFFICES ASSUME inputs[1].work = u PROVE Queued(u) /\ ~Queued(u)'
      BY <1>1
    <2>2. \A k \in 1..Len(inputs) : inputs[k].work = u => k = 1
      BY <1>1, <2>1, OneMessage
    <2> QED
      BY <1>1, <2>1, <2>2 DEF Queued
  <1>5. Head(inputs).work # u => (Queued(u) => Queued(u)')
    BY <1>1, <1>2 DEF Queued
  <1> QED
    BY <1>3, <1>4, <1>5

(* The slave s changes, the others do not.                                     *)
LEMMA RunningAfter ==
    ASSUME NEW s \in Slaves, \A t \in Slaves \ {s} : slave'[t] = slave[t], NEW u
    PROVE  Running(u)' <=> \/ slave'[s].pc = "work" /\ slave'[s].work = u
                           \/ \E t \in Slaves \ {s} : slave[t].pc = "work" /\ slave[t].work = u
  BY DEF Running

(* A slave that is not at work holds no work.                                  *)
LEMMA RunningBefore ==
    ASSUME NEW s \in Slaves, slave[s].pc # "work", NEW u
    PROVE  Running(u) <=> \E t \in Slaves \ {s} : slave[t].pc = "work" /\ slave[t].work = u
  BY DEF Running

(* Inject queues one work.                                                     *)
LEMMA WorkEnters ==
    ASSUME TypeOK, Flight, FreshId, Books, Inject
    PROVE  WorkMoves
  <1>1. PICK w \in todo :
            /\ inputs' = Append(inputs, [id |-> workid, work |-> w])
            /\ working' = [i \in DOMAIN working \cup {workid} |->
                                IF i = workid THEN w ELSE working[i]]
            /\ injected' = injected \cup {w}
    BY DEF Inject
  <1>2. mpc = "inject" /\ Len(inputs) < LenInQueue /\ UNCHANGED <<slave, buffer, pipe, lost>>
    BY DEF Inject
  <1>3. w \in Works /\ w \notin injected
    BY <1>1 DEF TypeOK, Books
  <1>4. \A u : Queued(u)' <=> Queued(u) \/ u = w
    <2>1. [id |-> workid, work |-> w] \in Message
      BY <1>3 DEF TypeOK, Message
    <2> QED
      BY <1>1, <2>1, QueuedAfterPut
  <1>5. \A u : (Running(u)' <=> Running(u)) /\ (Reported(u)' <=> Reported(u))
    BY <1>2 DEF Running, Reported
  <1>6. \A u : Registered(u)' <=> Registered(u) \/ u = w
    <2>1. \A i \in DOMAIN working : i # workid
      BY <1>2 DEF FreshId, TypeOK
    <2>2. /\ DOMAIN working' = DOMAIN working \cup {workid} /\ working'[workid] = w
          /\ \A i \in DOMAIN working : working'[i] = working[i]
      BY <1>1, <2>1
    <2> QED
      BY <2>2 DEF Registered
  <1>7. ~Running(w) /\ ~Reported(w)
    BY <1>3, OnePlace
  <1>8. Enters(w)
    BY <1>1, <1>2, <1>3, <1>4, <1>5, <1>6, <1>7 DEF Enters
  <1>9. \A u \in Works \ {w} : Stays(u)
    BY <1>1, <1>2, <1>4, <1>5, <1>6 DEF Stays
  <1> QED
    BY <1>3, <1>8, <1>9 DEF WorkMoves, Step

(* Collect takes the work of the result it reads out of the load.              *)
LEMMA WorkLeaves ==
    ASSUME TypeOK, Flight, Books, Collect
    PROVE  WorkMoves
  <1>1. PICK r \in pipe : pipe' = pipe \ {r} /\ working' = Deleted(r.id)
    BY DEF Collect
  <1>2. UNCHANGED <<inputs, slave, buffer, lost, injected>>
    BY DEF Collect
  <1>3. PICK w \in Works : w = r.work
    BY DEF TypeOK, Message
  <1>4. /\ DOMAIN working' = DOMAIN working \ {r.id} /\ r.id \in DOMAIN working /\ working[r.id] = w
        /\ \A i \in DOMAIN working \ {r.id} : working'[i] = working[i]
    BY <1>1, <1>3, WorkingShrinks DEF TypeOK, Flight, WorkidOwnership
  <1>5. Reported(w) /\ ~Queued(w) /\ ~Running(w)
    BY <1>3, OnePlace DEF Reported
  <1>6. ~Reported(w)'
    <2>1. /\ \A q \in pipe : q.work = w => q = r
          /\ \A q \in buffer : q.work # w
      BY <1>3, OneMessage
    <2> QED
      BY <1>1, <1>2, <2>1 DEF Reported
  <1>7. ~Registered(w)'
    BY <1>4 DEF Registered, Books
  <1>8. \A u : (Running(u)' <=> Running(u)) /\ (Queued(u)' <=> Queued(u))
    BY <1>2 DEF Running, Queued
  <1>9. Leaves(w)
    BY <1>2, <1>5, <1>6, <1>7, <1>8 DEF Leaves
  <1>10. \A u \in Works \ {w} : Stays(u)
    <2>1. \A u \in Works \ {w} : Reported(u)' <=> Reported(u)
      BY <1>1, <1>2, <1>3 DEF Reported
    <2>2. \A u \in Works \ {w} : Registered(u)' <=> Registered(u)
      BY <1>4 DEF Registered
    <2> QED
      BY <1>2, <1>8, <2>1, <2>2 DEF Stays
  <1> QED
    BY <1>9, <1>10 DEF WorkMoves, Step

(* GetWork gives one work to one idle slave, GetStop moves no work.            *)
LEMMA WorkStarts ==
    ASSUME TypeOK, Flight, Books, NEW s \in Slaves, GetWork(s) \/ GetStop(s)
    PROVE  WorkMoves
  <1>1. /\ inputs' = AfterGet /\ inputs # <<>> /\ slave[s].pc = "get"
        /\ UNCHANGED <<working, buffer, pipe, lost, injected>>
    BY DEF GetWork, GetStop, masterVars
  <1>2. \A t \in Slaves \ {s} : slave'[t] = slave[t]
    BY DEF GetWork, GetStop, TypeOK
  <1>3. \A u : (Registered(u)' <=> Registered(u)) /\ (Reported(u)' <=> Reported(u))
    BY <1>1 DEF Registered, Reported
  <1>4. CASE GetWork(s)
    <2>1. PICK w : w = Head(inputs).work
      OBVIOUS
    <2>2. w \in Works
      <3>1. Head(inputs) \in Message \cup {StopMessage}
        BY <1>1, AfterGetElements
      <3> QED
        BY <1>4, <2>1, <3>1 DEF GetWork, StopMessage, Message
    <2>3. slave'[s].pc = "work" /\ slave'[s].work = w
      BY <1>4, <2>1 DEF GetWork, TypeOK
    <2>4. Queued(w) /\ ~Queued(w)' /\ \A u \in Works \ {w} : Queued(u)' <=> Queued(u)
      BY <1>1, <2>1, <2>2, QueuedAfterGet
    <2>5. Running(w)' /\ \A u \in Works \ {w} : Running(u)' <=> Running(u)
      <3>1. slave[s].pc # "work"
        BY <1>1
      <3> QED
        BY <1>2, <2>3, <3>1, RunningAfter, RunningBefore
    <2>6. ~Reported(w) /\ Registered(w)
      BY <2>2, <2>4, OnePlace
    <2>7. Starts(w)
      BY <1>1, <1>3, <2>4, <2>5, <2>6 DEF Starts
    <2>8. \A u \in Works \ {w} : Stays(u)
      BY <1>1, <1>3, <2>4, <2>5 DEF Stays
    <2> QED
      BY <2>2, <2>7, <2>8 DEF WorkMoves, Step
  <1>5. CASE GetStop(s)
    <2>1. Head(inputs).work \notin Works
      BY <1>5, PoolAssumption DEF GetStop
    <2>2. \A u \in Works : Queued(u)' <=> Queued(u)
      BY <1>1, <2>1, QueuedAfterGet
    <2>3. \A u : Running(u)' <=> Running(u)
      <3>1. slave[s].pc # "work" /\ slave'[s].pc # "work"
        BY <1>1, <1>5 DEF GetStop, Leaving, TypeOK
      <3> QED
        BY <1>2, <3>1, RunningAfter, RunningBefore
    <2> QED
      BY <1>1, <1>3, <2>2, <2>3 DEF WorkMoves, Stays
  <1> QED
    BY <1>4, <1>5

(* The work of a slave that lets it go.                                        *)
LEMMA WorkDropped ==
    ASSUME TypeOK, Flight, Books, NEW s \in Slaves, slave[s].pc = "work", slave'[s].pc # "work",
           \A t \in Slaves \ {s} : slave'[t] = slave[t], NEW w, w = slave[s].work
    PROVE  /\ w \in Works /\ Running(w) /\ ~Running(w)'
           /\ \A u \in Works \ {w} : Running(u)' <=> Running(u)
  <1>1. w \in Works
    BY DEF Flight, SlaveMessage
  <1>2. \A t \in Slaves \ {s} : ~(slave[t].pc = "work" /\ slave[t].work = w)
    BY <1>1, OneMessage
  <1> QED
    BY <1>1, <1>2, RunningAfter DEF Running

(* PutResult reports the work of the slave, Die loses the one it holds, if any. *)
LEMMA WorkEnds ==
    ASSUME TypeOK, Flight, Books, NEW s \in Slaves, PutResult(s) \/ Die(s)
    PROVE  WorkMoves
  <1>1. /\ UNCHANGED <<inputs, working, pipe, injected>> /\ slave'[s].pc # "work"
        /\ \A t \in Slaves \ {s} : slave'[t] = slave[t]
    BY DEF PutResult, Die, Idle, Leaving, masterVars, TypeOK
  <1>2. \A u : (Registered(u)' <=> Registered(u)) /\ (Queued(u)' <=> Queued(u))
    BY <1>1 DEF Registered, Queued
  <1>3. PICK w : w = slave[s].work
    OBVIOUS
  <1>4. CASE slave[s].pc = "work"
    <2>1. /\ w \in Works /\ Running(w) /\ ~Running(w)'
          /\ \A u \in Works \ {w} : Running(u)' <=> Running(u)
      BY <1>1, <1>3, <1>4, WorkDropped
    <2>2. ~Queued(w) /\ ~Reported(w) /\ Registered(w)
      BY <2>1, OnePlace
    <2>3. CASE PutResult(s)
      <3>1. buffer' = buffer \cup {[by |-> s, id |-> slave[s].id, work |-> w]} /\ lost' = lost
        BY <1>3, <2>3 DEF PutResult
      <3>2. \A u : Reported(u)' <=> Reported(u) \/ u = w
        <4>1. PICK q : q = [by |-> s, id |-> slave[s].id, work |-> w]
          OBVIOUS
        <4>2. q.work = w /\ buffer' = buffer \cup {q}
          BY <3>1, <4>1
        <4> QED
          BY <1>1, <4>2 DEF Reported
      <3>3. Ends(w)
        BY <1>1, <1>2, <2>1, <2>2, <3>1, <3>2 DEF Ends
      <3>4. \A u \in Works \ {w} : Stays(u)
        BY <1>1, <1>2, <2>1, <3>1, <3>2 DEF Stays
      <3> QED
        BY <2>1, <3>3, <3>4 DEF WorkMoves, Step
    <2>4. CASE Die(s)
      <3>1. buffer' = buffer /\ lost' = lost \cup {w}
        BY <1>3, <2>1, <2>4, PoolAssumption DEF Die
      <3>2. \A u : Reported(u)' <=> Reported(u)
        BY <1>1, <3>1 DEF Reported
      <3>3. Dies(w)
        BY <1>1, <1>2, <2>1, <2>2, <3>1, <3>2 DEF Dies
      <3>4. \A u \in Works \ {w} : Stays(u)
        BY <1>1, <1>2, <2>1, <3>1, <3>2 DEF Stays
      <3> QED
        BY <2>1, <3>3, <3>4 DEF WorkMoves, Step
    <2> QED
      BY <2>3, <2>4
  <1>5. CASE slave[s].pc # "work"
    <2>1. w = NoWork /\ Die(s)
      BY <1>3, <1>5 DEF Books, PutResult
    <2>2. buffer' = buffer /\ lost' = lost
      BY <1>3, <2>1 DEF Die
    <2>3. \A u : (Running(u)' <=> Running(u)) /\ (Reported(u)' <=> Reported(u))
      BY <1>1, <1>5, <2>2, RunningAfter, RunningBefore DEF Reported
    <2> QED
      BY <1>1, <1>2, <2>2, <2>3 DEF WorkMoves, Stays
  <1> QED
    BY <1>4, <1>5

(* The other steps move no work; Feed carries a result to the pipe.            *)
LEMMA WorkStays ==
    ASSUME TypeOK, \/ PutStop \/ Still
                   \/ \E s \in Slaves : Feed(s) \/ Exit(s)
    PROVE  WorkMoves
  <1>1. CASE Still
    BY <1>1 DEF Still, WorkMoves, Stays, Queued, Running, Reported, Registered
  <1>2. CASE PutStop
    <2>1. inputs' = Append(inputs, StopMessage) /\ UNCHANGED <<working, slave, buffer, pipe, injected, lost>>
      BY <1>2 DEF PutStop
    <2>2. \A u \in Works : Queued(u)' <=> Queued(u)
      <3>1. StopMessage.work \notin Works
        BY PoolAssumption DEF StopMessage
      <3> QED
        BY <2>1, <3>1, QueuedAfterPut
    <2> QED
      BY <2>1, <2>2 DEF WorkMoves, Stays, Running, Reported, Registered
  <1>3. ASSUME NEW s \in Slaves, Feed(s) PROVE WorkMoves
    <2>1. PICK r \in buffer : /\ buffer' = buffer \ {r}
                              /\ pipe' = pipe \cup {[id |-> r.id, work |-> r.work]}
      BY <1>3 DEF Feed
    <2>2. UNCHANGED <<inputs, working, slave, injected, lost>>
      BY <1>3 DEF Feed, masterVars
    <2>3. \A u : Reported(u)' <=> Reported(u)
      <3>1. PICK m : m = [id |-> r.id, work |-> r.work]
        OBVIOUS
      <3>2. m.work = r.work
        BY <3>1
      <3> QED
        BY <2>1, <3>1, <3>2 DEF Reported
    <2> QED
      BY <2>2, <2>3 DEF WorkMoves, Stays, Queued, Running, Registered
  <1>4. ASSUME NEW s \in Slaves, Exit(s) PROVE WorkMoves
    <2>1. /\ UNCHANGED <<inputs, working, buffer, pipe, injected, lost>>
          /\ slave[s].pc # "work" /\ slave'[s].pc # "work"
          /\ \A t \in Slaves \ {s} : slave'[t] = slave[t]
      BY <1>4 DEF Exit, Exited, masterVars, TypeOK
    <2>2. \A u : Running(u)' <=> Running(u)
      BY <2>1, RunningAfter, RunningBefore
    <2> QED
      BY <2>1, <2>2 DEF WorkMoves, Stays, Queued, Reported, Registered
  <1> QED
    BY <1>1, <1>2, <1>3, <1>4

(* Every step moves one work, or none.                                         *)
LEMMA StepMoves ==
    ASSUME TypeOK, Flight, FreshId, Books, [Next]_vars
    PROVE  WorkMoves
  BY StillOrMoves, WorkEnters, WorkLeaves, WorkStarts, WorkEnds, WorkStays DEF Moves

(* The works that injectWorks is called on are new.                            *)
LEMMA TodoNext ==
    ASSUME TypeOK, Books, [Next]_vars
    PROVE  (todo \cap injected)' = {}
  <1>1. todo \cap injected = {}
    BY DEF Books
  <1>2. CASE UNCHANGED <<todo, injected>>
    BY <1>1, <1>2
  <1>3. CASE Inject
    BY <1>1, <1>3 DEF Inject
  <1>4. CASE AcquireWork
    BY <1>4 DEF AcquireWork, CallInjectWorks
  <1>5. CASE InjectRecurring
    BY <1>5 DEF InjectRecurring, CallInjectWorks
  <1> QED
    BY <1>2, <1>3, <1>4, <1>5
    DEF Next, vars, masterVars, Master, Slave, InjectDone, CallCheckFinished, Collect,
        CollectNothing, CheckFinishedDone, LeaveLoop, PutStop, Join, Quit, GetWork, GetStop,
        PutResult, Feed, Exit, Die

(* A work has one entry in working.                                            *)
LEMMA EntriesNext ==
    ASSUME TypeOK, Flight, FreshId, Books, [Next]_vars
    PROVE  (\A i, j \in DOMAIN working : working[i] = working[j] => i = j)'
  <1>1. /\ \A i, j \in DOMAIN working : working[i] = working[j] => i = j
        /\ \A i \in DOMAIN working : working[i] \in injected
        /\ todo \cap injected = {}
    BY DEF Books
  <1>2. CASE UNCHANGED working
    BY <1>1, <1>2
  <1>3. CASE Inject
    <2>1. PICK w \in todo : working' = [i \in DOMAIN working \cup {workid} |->
                                            IF i = workid THEN w ELSE working[i]]
      BY <1>3 DEF Inject
    <2>2. \A i \in DOMAIN working : working[i] # w
      BY <1>1
    <2> QED
      BY <1>1, <2>1, <2>2
  <1>4. CASE Collect
    BY <1>1, <1>4 DEF Collect, Deleted
  <1> QED
    BY <1>2, <1>3, <1>4
    DEF Next, vars, masterVars, Master, Slave, InjectDone, CallCheckFinished, AcquireWork,
        InjectRecurring, CollectNothing, CheckFinishedDone, LeaveLoop, PutStop, Join, Quit,
        GetWork, GetStop, PutResult, Feed, Exit, Die

(* A slave that is not at work holds none.                                     *)
LEMMA IdleNext ==
    ASSUME TypeOK, Books, [Next]_vars
    PROVE  (\A s \in Slaves : slave[s].pc # "work" => slave[s].work = NoWork)'
  <1>1. \A s \in Slaves : slave[s].pc # "work" => slave[s].work = NoWork
    BY DEF Books
  <1>2. CASE UNCHANGED slave
    BY <1>1, <1>2
  <1>3. ASSUME NEW s \in Slaves, GetWork(s) \/ GetStop(s) \/ PutResult(s) \/ Exit(s) \/ Die(s)
        PROVE  (\A t \in Slaves : slave[t].pc # "work" => slave[t].work = NoWork)'
    <2>1. /\ \A t \in Slaves \ {s} : slave'[t] = slave[t]
          /\ slave'[s].pc = "work" \/ slave'[s].work = NoWork
      BY <1>3 DEF GetWork, GetStop, PutResult, Exit, Die, TypeOK, Idle, Leaving, Exited
    <2> QED
      BY <1>1, <2>1
  <1> QED
    BY <1>2, <1>3
    DEF Next, vars, masterVars, Master, Slave, InjectDone, CallCheckFinished, AcquireWork,
        InjectRecurring, Inject, Collect, CollectNothing, CheckFinishedDone, LeaveLoop,
        PutStop, Join, Quit, Feed

(* The books are kept.                                                         *)
LEMMA BooksNext ==
    ASSUME TypeOK, TypeOK', Flight, FreshId, Books, [Next]_vars
    PROVE  Books'
  <1>1. WorkMoves
    BY StepMoves
  <1>2. ASSUME NEW u \in Works
        PROVE  /\ Registered(u)' => u \in injected'
               /\ u \in lost' => Registered(u)' /\ ~Queued(u)' /\ ~Running(u)' /\ ~Reported(u)'
    <2>1. /\ Registered(u) => u \in injected
          /\ Queued(u) \/ Running(u) \/ Reported(u) => Registered(u)
      BY OnePlace
    <2>2. u \in lost => Registered(u) /\ ~Queued(u) /\ ~Running(u) /\ ~Reported(u)
      BY DEF Books
    <2>3. Stays(u) \/ Step(u)
      BY <1>1 DEF WorkMoves
    <2>4. CASE Stays(u)
      BY <2>1, <2>2, <2>4 DEF Stays
    <2>5. CASE Step(u)
      BY <2>1, <2>2, <2>5 DEF Step, Enters, Starts, Ends, Leaves, Dies
    <2> QED
      BY <2>3, <2>4, <2>5
  <1>3. (\A i \in DOMAIN working : working[i] \in injected)'
    BY <1>2 DEF Registered, TypeOK
  <1>4. (\A w \in lost : Registered(w) /\ ~Queued(w) /\ ~Running(w) /\ ~Reported(w))'
    BY <1>2 DEF TypeOK
  <1> QED
    BY <1>3, <1>4, TodoNext, EntriesNext, IdleNext DEF Books

(* Initially they are empty.                                                   *)
LEMMA BooksInit == Init => Books
  BY DEF Init, Books, Idle

(* Every work is in the place that the abstract dispatch names.                *)
Placed == \A w \in Works :
    /\ w \notin injected => WorkPlace(w) = "new"
    /\ w \in injected /\ ~Registered(w) => WorkPlace(w) = "collected"
    /\ w \in lost => WorkPlace(w) = "lost"
    /\ Queued(w) => WorkPlace(w) = "queued"
    /\ Running(w) => WorkPlace(w) = "running"
    /\ Reported(w) => WorkPlace(w) = "reported" /\ w \in injected
    /\ \/ w \notin injected \/ (w \in injected /\ ~Registered(w)) \/ w \in lost
       \/ Queued(w) \/ Running(w) \/ Reported(w)

(* It follows from the books.                                                  *)
LEMMA PlacesAre == TypeOK /\ Flight /\ Books /\ NoCapacityLeak => Placed
  BY PlaceIs, OnePlace DEF Placed

(* A work that stays has the same place.                                       *)
LEMMA PlaceStays ==
    ASSUME Placed, Placed', NEW u \in Works, Stays(u)
    PROVE  WorkPlace(u)' = WorkPlace(u)
  BY DEF Placed, Stays

(* A work that moves does so as the abstract dispatch says.                    *)
LEMMA PlaceMoves ==
    ASSUME Placed, Placed', NEW w \in Works
    PROVE  /\ Enters(w) => WorkPlace(w) = "new" /\ WorkPlace(w)' = "queued"
           /\ Starts(w) => WorkPlace(w) = "queued" /\ WorkPlace(w)' = "running"
           /\ Ends(w) => WorkPlace(w) = "running" /\ WorkPlace(w)' = "reported"
           /\ Leaves(w) => WorkPlace(w) = "reported" /\ WorkPlace(w)' = "collected"
           /\ Dies(w) => WorkPlace(w) = "running" /\ WorkPlace(w)' = "lost"
  BY DEF Placed, Enters, Starts, Ends, Leaves, Dies

(* No more works wait than the queue has messages.                             *)
LEMMA FewQueued ==
    ASSUME TypeOK, Flight, Books, NoCapacityLeak, Len(inputs) < LenInQueue
    PROVE  Cardinality({w \in Works : WorkPlace(w) = "queued"}) < LenInQueue
  <1> DEFINE S == {w \in Works : WorkPlace(w) = "queued"}
             f == [w \in S |-> CHOOSE k \in 1..Len(inputs) : inputs[k].work = w]
  <1>1. \A w \in S : \E k \in 1..Len(inputs) : inputs[k].work = w
    BY PlacesAre DEF Placed, Queued
  <1>2. \A w \in S : f[w] \in 1..Len(inputs) /\ inputs[f[w]].work = w
    BY <1>1
  <1>3. f \in Injection(S, 1..Len(inputs))
    BY <1>2 DEF Injection, IsInjective
  <1>4. Len(inputs) \in Nat
    BY DEF TypeOK
  <1>5. IsFiniteSet(1..Len(inputs)) /\ Cardinality(1..Len(inputs)) = Len(inputs)
    <2>1. PICK n \in Nat : n = Len(inputs)
      BY <1>4
    <2>2. IsFiniteSet(1..n) /\ Cardinality(1..n) = n
      BY FS_Interval
    <2> QED
      BY <2>1, <2>2
  <1>6. IsFiniteSet(S) /\ Cardinality(S) <= Len(inputs)
    BY <1>3, <1>5, FS_Injection
  <1>7. Cardinality(S) \in Nat /\ LenInQueue \in Nat
    BY <1>6, FS_CardinalityType, PoolAssumption DEF LenInQueue
  <1> QED
    BY <1>4, <1>6, <1>7

(* Fewer works run than there are slaves, if one of them is idle.              *)
LEMMA FewRunning ==
    ASSUME TypeOK, Flight, Books, NoCapacityLeak, NEW s \in Slaves, slave[s].pc # "work"
    PROVE  Cardinality({w \in Works : WorkPlace(w) = "running"}) < Cardinality(Slaves)
  <1> DEFINE S == {w \in Works : WorkPlace(w) = "running"}
             f == [w \in S |-> CHOOSE t \in Slaves : slave[t].pc = "work" /\ slave[t].work = w]
  <1>1. \A w \in S : \E t \in Slaves : slave[t].pc = "work" /\ slave[t].work = w
    BY PlacesAre DEF Placed, Running
  <1>2. \A w \in S : f[w] \in Slaves \ {s} /\ slave[f[w]].work = w
    BY <1>1
  <1>3. f \in Injection(S, Slaves \ {s})
    BY <1>2 DEF Injection, IsInjective
  <1>4. /\ IsFiniteSet(Slaves \ {s}) /\ Cardinality(Slaves) \in Nat
        /\ Cardinality(Slaves \ {s}) = Cardinality(Slaves) - 1
    BY PoolAssumption, FS_RemoveElement, FS_CardinalityType
  <1>5. IsFiniteSet(S) /\ Cardinality(S) <= Cardinality(Slaves) - 1
    BY <1>3, <1>4, FS_Injection
  <1>6. Cardinality(S) \in Nat
    BY <1>5, FS_CardinalityType
  <1> QED
    BY <1>4, <1>5, <1>6

(* The step that the abstract dispatch takes.                                  *)
DispatchStep == Dispatch!Next \/ UNCHANGED [w \in Works |-> WorkPlace(w)]

(* Cardinality is that of the standard module in the abstract dispatch too.    *)
LEMMA SameCardinality ==
    ASSUME NEW S
    PROVE  Dispatch!Cardinality(S) = Cardinality(S)
  BY DEF Dispatch!Cardinality, Cardinality

(* The works as the abstract dispatch sees them.                               *)
LEMMA DispatchSees ==
    ASSUME NEW w \in Works
    PROVE  /\ [u \in Works |-> WorkPlace(u)][w] = WorkPlace(w)
           /\ [u \in Works |-> WorkPlace(u)]'[w] = WorkPlace(w)'
  OBVIOUS

(* One work that moves is a move of the abstract dispatch.                     *)
LEMMA DispatchMoves ==
    ASSUME NEW w \in Works, \A u \in Works \ {w} : WorkPlace(u)' = WorkPlace(u),
           NEW from, NEW to, WorkPlace(w) = from, WorkPlace(w)' = to
    PROVE  Dispatch!Move(w, from, to)
  <1>1. \A u \in Works : WorkPlace(u)' = IF u = w THEN to ELSE WorkPlace(u)
    OBVIOUS
  <1>2. [u \in Works |-> WorkPlace(u)]' = [u \in Works |-> IF u = w THEN to ELSE WorkPlace(u)]
    BY <1>1
  <1>3. [[u \in Works |-> WorkPlace(u)] EXCEPT ![w] = to]
            = [u \in Works |-> IF u = w THEN to ELSE WorkPlace(u)]
    OBVIOUS
  <1> QED
    BY <1>2, <1>3 DEF Dispatch!Move

(* Every step of the pool is a step of the abstract dispatch, or none.         *)
LEMMA DispatchNext ==
    ASSUME TypeOK, Flight, FreshId, Books, NoCapacityLeak, Placed, Placed', [Next]_vars
    PROVE  DispatchStep
  <1>1. WorkMoves
    BY StepMoves
  <1>2. CASE \A u \in Works : Stays(u)
    <2>1. \A u \in Works : WorkPlace(u)' = WorkPlace(u)
      BY <1>2, PlaceStays
    <2> QED
      BY <2>1 DEF DispatchStep
  <1>3. ASSUME NEW w \in Works, Step(w), \A u \in Works \ {w} : Stays(u)
        PROVE  DispatchStep
    <2>1. \A u \in Works \ {w} : WorkPlace(u)' = WorkPlace(u)
      BY <1>3, PlaceStays
    <2>2. CASE Enters(w)
      <3>1. Dispatch!Move(w, "new", "queued")
        BY <2>1, <2>2, PlaceMoves, DispatchMoves
      <3>2. Cardinality({u \in Works : WorkPlace(u) = "queued"}) < LenInQueue
        BY <2>2, FewQueued DEF Enters
      <3>3. Dispatch!At("queued") = {u \in Works : WorkPlace(u) = "queued"}
        BY DEF Dispatch!At
      <3> QED
        <4>1. Cardinality(Dispatch!At("queued")) < LenInQueue
          BY <3>2, <3>3
        <4>2. Dispatch!Inject(w)
          BY <3>1, <4>1, SameCardinality DEF Dispatch!Inject
        <4> QED
          BY <4>2 DEF Dispatch!Next, DispatchStep
    <2>3. CASE Starts(w)
      <3>1. Dispatch!Move(w, "queued", "running")
        BY <2>1, <2>3, PlaceMoves, DispatchMoves
      <3>2. Cardinality({u \in Works : WorkPlace(u) = "running"}) < Cardinality(Slaves)
        BY <2>3, FewRunning DEF Starts
      <3>3. Dispatch!At("running") = {u \in Works : WorkPlace(u) = "running"}
        BY DEF Dispatch!At
      <3> QED
        <4>1. Cardinality(Dispatch!At("running")) < Cardinality(Slaves)
          BY <3>2, <3>3
        <4>2. Dispatch!Start(w)
          BY <3>1, <4>1, SameCardinality DEF Dispatch!Start
        <4> QED
          BY <4>2 DEF Dispatch!Next, DispatchStep
    <2>4. CASE Ends(w)
      <3>1. Dispatch!Report(w)
        BY <2>1, <2>4, PlaceMoves, DispatchMoves DEF Dispatch!Report
      <3> QED
        BY <3>1 DEF Dispatch!Next, DispatchStep
    <2>5. CASE Leaves(w)
      <3>1. Dispatch!Collect(w)
        BY <2>1, <2>5, PlaceMoves, DispatchMoves DEF Dispatch!Collect
      <3> QED
        BY <3>1 DEF Dispatch!Next, DispatchStep
    <2>6. CASE Dies(w)
      <3>1. Dispatch!Lose(w)
        BY <2>1, <2>6, PlaceMoves, DispatchMoves DEF Dispatch!Lose
      <3> QED
        BY <3>1 DEF Dispatch!Next, DispatchStep
    <2> QED
      BY <1>3, <2>2, <2>3, <2>4, <2>5, <2>6 DEF Step
  <1> QED
    BY <1>1, <1>2, <1>3 DEF WorkMoves

(* The books are right in every reachable state.                               *)
LEMMA BooksKept == Spec => []Books
  <1>1. IInv /\ IInv' /\ Books /\ [Next]_vars => Books'
    BY BooksNext DEF IInv, Flight
  <1> QED
    BY <1>1, BooksInit, Invariance, PTL DEF Spec

(* The pool implements the abstract dispatch: a work is done at most once, by  *)
(* one slave, no more works wait or run than the queue and the slaves can      *)
(* hold, and a work leaves the load with its own result only.                  *)
THEOREM DispatchIsImplemented == Spec => ImplementsDispatch
  <1>1. Init => Dispatch!Init
    BY PoolAssumption DEF Init, Dispatch!Init, WorkPlace
  <1>2. IInv /\ Books /\ NoCapacityLeak => Placed
    BY PlacesAre DEF IInv, Flight
  <1>3. IInv /\ Books /\ NoCapacityLeak /\ Placed /\ Placed' /\ [Next]_vars => DispatchStep
    BY DispatchNext DEF IInv, Flight
  <1>4. DispatchStep => [Dispatch!Next]_[w \in Works |-> WorkPlace(w)]
    BY DEF DispatchStep
  <1> QED
    BY <1>1, <1>2, <1>3, <1>4, Invariance, BooksKept, CapacityKept, PTL
    DEF Spec, ImplementsDispatch, Dispatch!Spec
===============================================================================
