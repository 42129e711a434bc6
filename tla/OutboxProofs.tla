---------------------------- MODULE OutboxProofs ----------------------------
(***************************************************************************)
(* Theorems about Outbox, for any number of instances, transactions,       *)
(* events, failures, crashes and restarts.                                 *)
(***************************************************************************)
EXTENDS Outbox, FiniteSetTheorems, TLAPS

\* What the query returns: rows of the table, and no more than LIMIT of them.
LEMMA BatchesSized ==
    ASSUME table \in SUBSET Events, NEW s \in Batches
    PROVE  s \in SizedBatches /\ s \subseteq table
BY DEF Batches, SizedBatches

\* A batch stays within LIMIT when records are taken out of it.
LEMMA SmallerBatch ==
    ASSUME NEW s \in SizedBatches, NEW r \in SUBSET s
    PROVE  r \in SizedBatches
<1>1. IsFiniteSet(s) /\ s \subseteq Events
  BY FS_Subset, FiniteAssumption DEF SizedBatches
<1>2. Cardinality(r) <= Cardinality(s)
  BY <1>1, FS_Subset
<1>3. Cardinality(r) \in Nat /\ Cardinality(s) \in Nat
  BY <1>1, FS_Subset, FS_CardinalityType
<1> QED
  BY <1>1, <1>2, <1>3, BatchAssumption DEF SizedBatches

LEMMA EmptyBatch == {} \in SizedBatches
BY FS_EmptySet, BatchAssumption DEF SizedBatches

-----------------------------------------------------------------------------

\* Every variable keeps its type.
THEOREM Typing == Spec => []TypeOK
<1> USE BoundsAssumption, RolesAssumption
<1>1. Init => TypeOK
  BY EmptyBatch DEF Init, TypeOK, TxLocations, Locations, BatchLocations, Lives
<1>2. TypeOK /\ [Next]_vars => TypeOK'
  <2> SUFFICES ASSUME TypeOK, [Next]_vars PROVE TypeOK'
    OBVIOUS
  <2> USE DEF TypeOK, TxLocations, Locations, BatchLocations, Lives,
              txVars, workVars, envVars, ConnectionFails, CallFails, CallWorks, Notify
  <2>1. ASSUME NEW t \in Txs, Transaction(t) PROVE TypeOK'
    <3>1. CASE Begin(t) BY <3>1 DEF Begin
    <3>2. CASE Publish(t) BY <3>2 DEF Publish
    <3>3. CASE Rollback(t) BY <3>3 DEF Rollback
    <3>4. CASE Commit(t) BY <3>4 DEF Commit, EventsOf
    <3>5. CASE CommitAnswerLost(t) BY <3>5 DEF CommitAnswerLost, EventsOf
    <3>6. CASE RunHooks(t) BY <3>6 DEF RunHooks
    <3> QED BY <2>1, <3>1, <3>2, <3>3, <3>4, <3>5, <3>6 DEF Transaction
  <2>2. ASSUME NEW i \in Instances, ProcessBatch(i) PROVE TypeOK'
    <3>0. GiveUp(i) => /\ batch' \in [Instances -> SizedBatches]
                       /\ hand' \in [Instances -> Events \cup {NoEvent}]
                       /\ wpc' \in [Instances -> Locations]
                       /\ full' \in [Instances -> BOOLEAN]
      BY EmptyBatch DEF GiveUp
    <3>1. CASE ReadBatch(i)
      BY <3>1, BatchesSized DEF ReadBatch
    <3>2. CASE ReadFails(i) BY <3>0, <3>2 DEF ReadFails
    <3>3. CASE PublishRecord(i)
      <4>1. batch[i] \subseteq Events BY DEF SizedBatches
      <4> QED BY <3>3, <4>1 DEF PublishRecord, Oldest
    <3>4. CASE PublishFails(i) BY <3>0, <3>4 DEF PublishFails
    <3>5. CASE PublishAnswerLost(i)
      <4>1. batch[i] \subseteq Events BY DEF SizedBatches
      <4> QED BY <3>0, <3>5, <4>1 DEF PublishAnswerLost, Oldest
    <3>6. CASE Delete(i)
      <4>1. batch[i] \ {hand[i]} \in SizedBatches
        BY SmallerBatch
      <4> QED BY <3>6, <4>1 DEF Delete, NextRecord
    <3>7. CASE DeleteFails(i) BY <3>0, <3>7 DEF DeleteFails
    <3>8. CASE DeleteAnswerLost(i) BY <3>0, <3>8 DEF DeleteAnswerLost
    <3> QED
      BY <2>2, <3>1, <3>2, <3>3, <3>4, <3>5, <3>6, <3>7, <3>8 DEF ProcessBatch
  <2>3. ASSUME NEW i \in Instances,
               \/ Drain(i) \/ BackoffOver(i) \/ Poll(i) \/ WakeUp(i) \/ Exit(i)
               \/ NotifyAfterCommand(i)
        PROVE  TypeOK'
    BY <2>3 DEF Drain, BackoffOver, Poll, WakeUp, Exit, NotifyAfterCommand
  <2>4. ASSUME NEW i \in Instances,
               Start(i) \/ Stop(i) \/ Cancel(i) \/ Stopped(i) \/ Crash(i)
        PROVE  TypeOK'
    <3>1. CASE Start(i) BY <3>1 DEF Start
    <3>2. CASE Stop(i) BY <3>2 DEF Stop
    <3>3. CASE Cancel(i) BY <3>3 DEF Cancel
    <3>4. ASSUME NEW t \in Txs PROVE AfterEnd(t) \in TxLocations
      BY DEF AfterEnd
    <3>5. CASE Stopped(i)
      BY <3>4, <3>5, EmptyBatch DEF Stopped, ProcessEnds
    <3>6. CASE Crash(i)
      BY <3>4, <3>6, EmptyBatch DEF Crash, ProcessEnds
    <3> QED BY <2>4, <3>1, <3>2, <3>3, <3>5, <3>6
  <2>5. CASE Tick BY <2>5 DEF Tick
  <2>6. CASE UNCHANGED vars BY <2>6 DEF vars
  <2> QED
    BY <2>1, <2>2, <2>3, <2>4, <2>5, <2>6 DEF Next, RunWorker
<1> QED
  BY <1>1, <1>2, PTL DEF Spec

-----------------------------------------------------------------------------
(* What becomes of the events.                                             *)

\* The inductive invariant behind the delivery properties.
DeliveryInv ==
    WorkerInv /\ HandInv /\ SettledMeansDelivered /\ DeliveredMeansCommitted /\ PoisonKept

\* A transaction adds its events to the table as it commits, and settles none.
LEMMA TransactionStep ==
    ASSUME TypeOK, table \subseteq Committed, NEW t \in Txs, Transaction(t)
    PROVE  /\ Committed \subseteq Committed'
           /\ table' \subseteq Committed'
           /\ Settled' = Settled
           /\ UNCHANGED <<delivered, wpc, workVars, life, outages, stops>>
<1> USE RolesAssumption
<1>1. ASSUME \/ Begin(t) \/ Publish(t) \/ Rollback(t) \/ RunHooks(t)
      PROVE  UNCHANGED table /\ Committed' = Committed
  BY <1>1 DEF TypeOK, Committed, Begin, Publish, Rollback, RunHooks
<1>2. ASSUME Commit(t) \/ CommitAnswerLost(t)
      PROVE  /\ table' = table \cup EventsOf(t)
             /\ Committed' = Committed \cup EventsOf(t)
             /\ Committed \cap EventsOf(t) = {}
  BY <1>2 DEF TypeOK, Committed, EventsOf, Commit, CommitAnswerLost
<1>3. UNCHANGED <<delivered, wpc, workVars, life, outages, stops>>
  BY DEF Transaction, Begin, Publish, Rollback, RunHooks, Commit,
         CommitAnswerLost, workVars, envVars
<1> QED
  BY <1>1, <1>2, <1>3 DEF Transaction, Settled

\* Where no transaction moves, the same events are committed.
LEMMA NoTransactionStep ==
    ASSUME UNCHANGED txpc
    PROVE  Committed' = Committed
BY DEF Committed

\* The end of a process rolls back what was open and nothing else.
LEMMA ProcessEndStep ==
    ASSUME TypeOK, NEW i \in Instances, ProcessEnds(i)
    PROVE  Committed' = Committed
<1> SUFFICES ASSUME NEW e \in Events
             PROVE  txpc'[TxOf[e]] \in {"committed", "done"}
                        <=> txpc[TxOf[e]] \in {"committed", "done"}
  BY DEF Committed
<1>1. TxOf[e] \in Txs
  BY RolesAssumption
<1> QED
  BY <1>1 DEF ProcessEnds, AfterEnd, TypeOK, TxLocations

\* A worker whose batch is given up holds nothing.
LEMMA GiveUpStep ==
    ASSUME TypeOK, WorkerInv, HandInv, NEW i \in Instances, GiveUp(i),
           wpc[i] # "off", Committed' = Committed, UNCHANGED life,
           delivered' \in [Events -> Nat],
           \A e \in Events : delivered'[e] >= delivered[e]
    PROVE  WorkerInv' /\ HandInv'
<1>1. life[i] # "down"
  BY DEF WorkerInv
<1>2. /\ batch' = [batch EXCEPT ![i] = {}]
      /\ hand' = [hand EXCEPT ![i] = NoEvent]
      /\ wpc' = [wpc EXCEPT ![i] = "backoff"]
  BY DEF GiveUp
<1>3. WorkerInv'
  BY <1>1, <1>2 DEF WorkerInv, TypeOK, BatchLocations
<1>4. ASSUME NEW j \in Instances, wpc'[j] = "delete"
      PROVE  delivered'[hand'[j]] > 0
  <2>1. j # i /\ wpc[j] = "delete" /\ hand'[j] = hand[j]
    BY <1>2, <1>4 DEF TypeOK
  <2>2. hand[j] \in Events /\ delivered[hand[j]] > 0
    BY <2>1 DEF WorkerInv, HandInv, TypeOK, SizedBatches
  <2>3. delivered[hand[j]] \in Nat /\ delivered'[hand[j]] >= delivered[hand[j]]
    BY <2>2 DEF TypeOK
  <2> QED
    BY <2>1, <2>2, <2>3
<1> QED
  BY <1>3, <1>4 DEF HandInv

\* Reading, publishing and deleting the records of a batch.
LEMMA BatchStep ==
    ASSUME TypeOK, TypeOK', DeliveryInv, NEW i \in Instances, ProcessBatch(i)
    PROVE  DeliveryInv'
<1> USE DEF DeliveryInv
<1>1. Committed' = Committed
  BY NoTransactionStep
     DEF ProcessBatch, ReadBatch, ReadFails, PublishRecord, PublishFails,
         PublishAnswerLost, Delete, DeleteFails, DeleteAnswerLost, txVars
<1>2. UNCHANGED life
  BY DEF ProcessBatch, ReadBatch, ReadFails, PublishRecord, PublishFails,
         PublishAnswerLost, Delete, DeleteFails, DeleteAnswerLost, envVars
<1>3. Oldest(i) \subseteq batch[i] /\ batch[i] \subseteq Committed /\ batch[i] \subseteq Events
  BY DEF Oldest, WorkerInv, Committed
\* Deliveries are only ever counted up.
<1>4. ASSUME NEW e \in Oldest(i) \ Poison, delivered' = [delivered EXCEPT ![e] = @ + 1]
      PROVE  /\ DeliveredMeansCommitted /\ UNCHANGED table => DeliveredMeansCommitted'
             /\ PoisonKept'
             /\ \A f \in Events : delivered'[f] >= delivered[f]
             /\ UNCHANGED table => SettledMeansDelivered'
             /\ delivered'[e] > 0
  <2>1. e \in Events /\ e \in Committed
    BY <1>3
  <2>2. \A f \in Events : /\ delivered[f] \in Nat
                          /\ delivered'[f] = IF f = e THEN delivered[f] + 1 ELSE delivered[f]
    BY <1>4, <2>1 DEF TypeOK
  <2>3. Poison \subseteq Events /\ Settled \subseteq Events
    BY RolesAssumption DEF Settled, Committed
  <2> QED
    BY <1>1, <2>1, <2>2, <2>3
       DEF DeliveredMeansCommitted, PoisonKept, SettledMeansDelivered, Settled
\* Where the delivery counters and the table stay, so do the properties of both.
<1>5. ASSUME UNCHANGED <<table, delivered>>
      PROVE  /\ SettledMeansDelivered' /\ DeliveredMeansCommitted' /\ PoisonKept'
             /\ \A f \in Events : delivered'[f] >= delivered[f]
  BY <1>1, <1>5 DEF SettledMeansDelivered, DeliveredMeansCommitted, PoisonKept,
                    Settled, TypeOK
\* The record in hand may leave the table.
<1>6. ASSUME wpc[i] = "delete", table' = table \ {hand[i]}, UNCHANGED delivered
      PROVE  /\ SettledMeansDelivered' /\ DeliveredMeansCommitted' /\ PoisonKept'
             /\ \A f \in Events : delivered'[f] >= delivered[f]
  <2>1. delivered[hand[i]] > 0
    BY <1>6 DEF HandInv
  <2> QED
    BY <1>1, <1>6, <2>1 DEF SettledMeansDelivered, DeliveredMeansCommitted,
                            PoisonKept, Settled, TypeOK
<1>7. delivered' \in [Events -> Nat]
  BY DEF TypeOK
<1>8. CASE ReadBatch(i)
  <2>1. PICK s \in Batches :
            /\ batch' = [batch EXCEPT ![i] = s]
            /\ wpc' = [wpc EXCEPT ![i] = IF s = {} THEN "idle" ELSE "publish"]
    BY <1>8 DEF ReadBatch
  <2>2. s \subseteq Committed
    BY DEF Batches, DeliveredMeansCommitted
  <2>3. wpc[i] = "read" /\ UNCHANGED <<hand, delivered, table>>
    BY <1>8 DEF ReadBatch
  <2>4. WorkerInv'
    BY <1>1, <1>2, <2>1, <2>2, <2>3 DEF WorkerInv, TypeOK, BatchLocations
  <2>5. HandInv'
    BY <2>1, <2>3 DEF HandInv, TypeOK
  <2> QED
    BY <1>5, <2>3, <2>4, <2>5
<1>9. CASE ReadFails(i) \/ PublishFails(i) \/ DeleteFails(i)
  <2>1. GiveUp(i) /\ wpc[i] # "off" /\ UNCHANGED <<table, delivered>>
    BY <1>9 DEF ReadFails, PublishFails, DeleteFails
  <2> QED
    BY <1>1, <1>2, <1>5, <1>7, <2>1, GiveUpStep
<1>10. CASE PublishRecord(i)
  <2>1. PICK e \in Oldest(i) \ Poison :
            /\ delivered' = [delivered EXCEPT ![e] = @ + 1]
            /\ hand' = [hand EXCEPT ![i] = e]
    BY <1>10 DEF PublishRecord
  <2>2. /\ wpc[i] = "publish" /\ wpc' = [wpc EXCEPT ![i] = "delete"]
        /\ UNCHANGED <<table, batch>>
    BY <1>10 DEF PublishRecord
  <2>3. WorkerInv'
    BY <1>1, <1>2, <1>3, <2>1, <2>2 DEF WorkerInv, TypeOK, BatchLocations
  <2>4. ASSUME NEW j \in Instances, wpc'[j] = "delete"
        PROVE  delivered'[hand'[j]] > 0
    <3>1. CASE j = i
      BY <1>4, <2>1, <3>1 DEF TypeOK
    <3>2. CASE j # i
      <4>1. wpc[j] = "delete" /\ hand'[j] = hand[j]
        BY <2>1, <2>2, <2>4, <3>2 DEF TypeOK
      <4>2. hand[j] \in Events /\ delivered[hand[j]] > 0
        BY <4>1 DEF WorkerInv, HandInv, Committed
      <4>3. delivered[hand[j]] \in Nat /\ delivered'[hand[j]] >= delivered[hand[j]]
        BY <1>4, <2>1, <4>2 DEF TypeOK
      <4>4. delivered'[hand[j]] \in Nat
        BY <1>7, <4>2
      <4> QED
        BY <4>1, <4>2, <4>3, <4>4
    <3> QED
      BY <3>1, <3>2
  <2> QED
    BY <1>4, <2>1, <2>2, <2>3, <2>4 DEF HandInv
<1>11. CASE PublishAnswerLost(i)
  <2>1. PICK e \in Oldest(i) \ Poison : delivered' = [delivered EXCEPT ![e] = @ + 1]
    BY <1>11 DEF PublishAnswerLost
  <2>2. GiveUp(i) /\ wpc[i] # "off" /\ UNCHANGED table
    BY <1>11 DEF PublishAnswerLost
  <2> QED
    BY <1>1, <1>2, <1>4, <1>7, <2>1, <2>2, GiveUpStep
<1>12. CASE Delete(i)
  <2>1. /\ wpc[i] = "delete" /\ NextRecord(i)
        /\ table' = table \ {hand[i]} /\ UNCHANGED delivered
    BY <1>12 DEF Delete
  <2>2. WorkerInv'
    BY <1>1, <1>2, <2>1 DEF WorkerInv, NextRecord, TypeOK, BatchLocations
  <2>3. HandInv'
    BY <2>1 DEF HandInv, NextRecord, TypeOK
  <2> QED
    BY <1>6, <2>1, <2>2, <2>3
<1>13. CASE DeleteAnswerLost(i)
  <2>1. /\ wpc[i] = "delete" /\ GiveUp(i)
        /\ table' = table \ {hand[i]} /\ UNCHANGED delivered
    BY <1>13 DEF DeleteAnswerLost
  <2> QED
    BY <1>1, <1>2, <1>6, <1>7, <2>1, GiveUpStep
<1> QED
  BY <1>8, <1>9, <1>10, <1>11, <1>12, <1>13 DEF ProcessBatch

\* The other steps leave the counters, the table and the commits alone.
LEMMA LifeStep ==
    ASSUME TypeOK, WorkerInv, NEW i \in Instances,
           \/ Drain(i) \/ BackoffOver(i) \/ Poll(i) \/ WakeUp(i) \/ Exit(i)
           \/ NotifyAfterCommand(i)
           \/ Start(i) \/ Stop(i) \/ Cancel(i) \/ Stopped(i) \/ Crash(i)
    PROVE  /\ UNCHANGED <<table, delivered, failures>>
           /\ Committed' = Committed
           /\ WorkerInv'
<1>1. CASE Stopped(i) \/ Crash(i)
  <2>1. ProcessEnds(i) /\ UNCHANGED <<table, delivered, failures>>
    BY <1>1 DEF Stopped, Crash, ProcessEnds
  <2>2. Committed' = Committed
    BY <2>1, ProcessEndStep
  <2> QED
    BY <2>1, <2>2 DEF ProcessEnds, WorkerInv, TypeOK, BatchLocations
<1>2. CASE \/ Drain(i) \/ BackoffOver(i) \/ Poll(i) \/ WakeUp(i) \/ Exit(i)
           \/ NotifyAfterCommand(i)
  <2>1. UNCHANGED <<table, delivered, failures, txpc, workVars, life>>
    BY <1>2 DEF Drain, BackoffOver, Poll, WakeUp, Exit, NotifyAfterCommand, Notify,
                txVars, workVars, envVars
  <2>2. \/ UNCHANGED wpc
        \/ /\ wpc[i] \in {"drain", "backoff", "idle"}
           /\ \E l \in {"idle", "read", "drain", "off"} : wpc' = [wpc EXCEPT ![i] = l]
    BY <1>2 DEF Drain, BackoffOver, Poll, WakeUp, Exit, NotifyAfterCommand
  <2> QED
    BY <2>1, <2>2, NoTransactionStep DEF workVars, WorkerInv, TypeOK, BatchLocations
<1>3. CASE Start(i) \/ Stop(i) \/ Cancel(i)
  <2>1. UNCHANGED <<table, delivered, failures, txpc, workVars>>
    BY <1>3 DEF Start, Stop, Cancel, txVars
  <2> QED
    BY <1>3, <2>1, NoTransactionStep
       DEF Start, Stop, Cancel, workVars, WorkerInv, TypeOK, BatchLocations
<1> QED
  BY <1>1, <1>2, <1>3

LEMMA DeliveryStep ==
    ASSUME TypeOK, TypeOK', DeliveryInv, [Next]_vars
    PROVE  DeliveryInv'
<1> USE DEF DeliveryInv
<1>1. ASSUME NEW t \in Txs, Transaction(t) PROVE DeliveryInv'
  <2>1. /\ Committed \subseteq Committed' /\ table' \subseteq Committed'
        /\ Settled' = Settled
        /\ UNCHANGED <<delivered, wpc, workVars, life>>
    BY <1>1, TransactionStep DEF DeliveredMeansCommitted
  <2> QED
    BY <2>1 DEF workVars, WorkerInv, HandInv, SettledMeansDelivered,
                DeliveredMeansCommitted, PoisonKept
<1>2. ASSUME NEW i \in Instances, ProcessBatch(i) PROVE DeliveryInv'
  BY <1>2, BatchStep
<1>3. ASSUME NEW i \in Instances,
             \/ Drain(i) \/ BackoffOver(i) \/ Poll(i) \/ WakeUp(i) \/ Exit(i)
             \/ NotifyAfterCommand(i)
             \/ Start(i) \/ Stop(i) \/ Cancel(i) \/ Stopped(i) \/ Crash(i)
      PROVE  DeliveryInv'
  <2>1. UNCHANGED <<table, delivered>> /\ Committed' = Committed /\ WorkerInv'
    BY <1>3, LifeStep
  <2>2. ASSUME NEW j \in Instances, wpc'[j] = "delete"
        PROVE  wpc[j] = "delete" /\ hand'[j] = hand[j]
    BY <1>3, <2>2 DEF Drain, BackoffOver, Poll, WakeUp, Exit, NotifyAfterCommand, Start,
           Stop, Cancel, Stopped, Crash, ProcessEnds, workVars, TypeOK
  <2> QED
    BY <2>1, <2>2 DEF HandInv, SettledMeansDelivered, DeliveredMeansCommitted,
                      PoisonKept, Settled
<1>4. CASE Tick \/ UNCHANGED vars
  <2>1. UNCHANGED <<table, delivered, txpc, wpc, workVars, life>>
    BY <1>4 DEF Tick, vars, txVars, workVars
  <2> QED
    BY <2>1, NoTransactionStep
       DEF workVars, WorkerInv, HandInv, SettledMeansDelivered,
           DeliveredMeansCommitted, PoisonKept, Settled
<1> QED
  BY <1>1, <1>2, <1>3, <1>4 DEF Next, RunWorker

LEMMA DeliveryInit == Init => DeliveryInv
BY RolesAssumption
   DEF Init, DeliveryInv, WorkerInv, HandInv, SettledMeansDelivered, Settled,
       DeliveredMeansCommitted, PoisonKept, Committed, BatchLocations

LEMMA DeliveryAlways == Spec => []DeliveryInv
<1>1. TypeOK /\ TypeOK' /\ DeliveryInv /\ [Next]_vars => DeliveryInv'
  BY DeliveryStep
<1> QED
  BY <1>1, DeliveryInit, Typing, PTL DEF Spec

\* No event is dropped: what has left the table has reached the broker.
THEOREM AtLeastOnce == Spec => []SettledMeansDelivered
<1>1. DeliveryInv => SettledMeansDelivered
  BY DEF DeliveryInv
<1> QED
  BY <1>1, DeliveryAlways, PTL

\* Only events of committed transactions reach the broker.
THEOREM OnlyCommitted == Spec => []DeliveredMeansCommitted
<1>1. DeliveryInv => DeliveredMeansCommitted
  BY DEF DeliveryInv
<1> QED
  BY <1>1, DeliveryAlways, PTL

-----------------------------------------------------------------------------
(* The order of deliveries.                                                *)

\* From the moment e is committed and f is not: where e has the older stamp, the
\* broker has not got f before it, and every batch with f has e to publish first.
Precedes(e, f) ==
    /\ e \in Committed
    /\ stamp[e] < stamp[f] =>
        /\ delivered[f] > 0 => delivered[e] > 0
        /\ \A i \in Instances : f \in batch[i] => e \in batch[i] \/ delivered[e] > 0

\* A transaction that has committed stamps no event again.
LEMMA OrderTransaction ==
    ASSUME TypeOK, DeliveryInv, NEW e \in Events, NEW f \in Events, Precedes(e, f),
           NEW t \in Txs, Transaction(t)
    PROVE  Precedes(e, f)'
<1>1. e \in Committed' /\ UNCHANGED <<delivered, batch>>
  BY TransactionStep DEF Precedes, DeliveryInv, DeliveredMeansCommitted, workVars
<1>2. CASE Publish(t) /\ TxOf[f] = t
  <2>1. f \notin Committed
    BY <1>2 DEF Publish, Committed
  <2>2. ~(delivered[f] > 0) /\ \A i \in Instances : f \notin batch[i]
    BY <2>1 DEF DeliveryInv, DeliveredMeansCommitted, WorkerInv
  <2> QED
    BY <1>1, <2>2 DEF Precedes
<1>3. CASE ~(Publish(t) /\ TxOf[f] = t)
  <2>1. Publish(t) => TxOf[e] # t
    BY DEF Publish, Precedes, Committed
  <2>2. stamp'[e] = stamp[e] /\ stamp'[f] = stamp[f]
    BY <1>3, <2>1 DEF Transaction, Begin, Publish, Rollback, Commit,
                      CommitAnswerLost, RunHooks
  <2> QED
    BY <1>1, <2>2 DEF Precedes
<1> QED
  BY <1>2, <1>3

\* A query that returns f returns e, and a batch gets to e first.
LEMMA OrderBatch ==
    ASSUME TypeOK, DeliveryInv, NEW e \in Events, NEW f \in Events, Precedes(e, f),
           NEW i \in Instances, ProcessBatch(i)
    PROVE  Precedes(e, f)'
<1>1. UNCHANGED <<stamp, txpc>>
  BY DEF ProcessBatch, ReadBatch, ReadFails, PublishRecord, PublishFails,
         PublishAnswerLost, Delete, DeleteFails, DeleteAnswerLost, txVars
<1>2. Committed' = Committed
  BY <1>1, NoTransactionStep
<1>3. /\ delivered[e] \in Nat /\ delivered[f] \in Nat
      /\ stamp[e] \in Nat /\ stamp[f] \in Nat
  BY BoundsAssumption DEF TypeOK
<1> SUFFICES ASSUME stamp[e] < stamp[f]
             PROVE  /\ delivered'[f] > 0 => delivered'[e] > 0
                    /\ \A j \in Instances : f \in batch'[j] =>
                           e \in batch'[j] \/ delivered'[e] > 0
  BY <1>1, <1>2 DEF Precedes
<1>4. /\ delivered[f] > 0 => delivered[e] > 0
      /\ \A j \in Instances : f \in batch[j] => e \in batch[j] \/ delivered[e] > 0
  BY DEF Precedes
<1>5. CASE ReadBatch(i)
  <2>1. PICK s \in Batches : batch' = [batch EXCEPT ![i] = s]
    BY <1>5 DEF ReadBatch
  <2>2. delivered' = delivered
    BY <1>5 DEF ReadBatch
  <2>3. ASSUME f \in s PROVE e \in s \/ delivered[e] > 0
    <3>1. CASE e \in table
      BY <1>3, <2>3, <3>1 DEF Batches
    <3>2. CASE e \notin table
      BY <3>2 DEF Precedes, DeliveryInv, SettledMeansDelivered, Settled
    <3> QED BY <3>1, <3>2
  <2> QED
    BY <1>4, <2>1, <2>2, <2>3 DEF TypeOK
\* The record published is the oldest of its batch.
<1>6. ASSUME NEW r \in Oldest(i), delivered' = [delivered EXCEPT ![r] = @ + 1]
      PROVE  /\ delivered'[f] > 0 => delivered'[e] > 0
             /\ delivered[e] > 0 => delivered'[e] > 0
  <2>1. \A d \in Events : delivered'[d] = IF d = r THEN delivered[d] + 1 ELSE delivered[d]
    BY <1>6 DEF TypeOK
  <2>2. r \in batch[i] /\ \A d \in batch[i] : stamp[r] <= stamp[d]
    BY <1>6 DEF Oldest
  <2>3. r = f => e \notin batch[i]
    BY <1>3, <2>2
  <2> QED
    BY <1>3, <1>4, <2>1, <2>2, <2>3
<1>7. ASSUME GiveUp(i), delivered[e] > 0 => delivered'[e] > 0
      PROVE  \A j \in Instances : f \in batch'[j] => e \in batch'[j] \/ delivered'[e] > 0
  BY <1>4, <1>7 DEF GiveUp, TypeOK
<1>8. CASE ReadFails(i) \/ PublishFails(i) \/ DeleteFails(i) \/ DeleteAnswerLost(i)
  <2>1. GiveUp(i) /\ delivered' = delivered
    BY <1>8 DEF ReadFails, PublishFails, DeleteFails, DeleteAnswerLost
  <2> QED
    BY <1>4, <1>7, <2>1
<1>9. CASE PublishAnswerLost(i)
  <2>1. PICK r \in Oldest(i) : delivered' = [delivered EXCEPT ![r] = @ + 1]
    BY <1>9 DEF PublishAnswerLost
  <2>2. GiveUp(i)
    BY <1>9 DEF PublishAnswerLost
  <2> QED
    BY <1>6, <1>7, <2>1, <2>2
<1>10. CASE PublishRecord(i)
  <2>1. PICK r \in Oldest(i) : delivered' = [delivered EXCEPT ![r] = @ + 1]
    BY <1>10 DEF PublishRecord
  <2>2. batch' = batch
    BY <1>10 DEF PublishRecord
  <2> QED
    BY <1>4, <1>6, <2>1, <2>2
\* The record that leaves the batch has been delivered.
<1>11. CASE Delete(i)
  <2>1. /\ delivered' = delivered /\ batch' = [batch EXCEPT ![i] = @ \ {hand[i]}]
        /\ delivered[hand[i]] > 0
    BY <1>11 DEF Delete, NextRecord, DeliveryInv, HandInv
  <2> QED
    BY <1>4, <2>1 DEF TypeOK
<1> QED
  BY <1>5, <1>8, <1>9, <1>10, <1>11 DEF ProcessBatch

LEMMA OrderStep ==
    ASSUME TypeOK, DeliveryInv, NEW e \in Events, NEW f \in Events, Precedes(e, f),
           [Next]_vars
    PROVE  Precedes(e, f)'
<1>1. ASSUME NEW t \in Txs, Transaction(t) PROVE Precedes(e, f)'
  BY <1>1, OrderTransaction
<1>2. ASSUME NEW i \in Instances, ProcessBatch(i) PROVE Precedes(e, f)'
  BY <1>2, OrderBatch
<1>3. ASSUME NEW i \in Instances,
             \/ Drain(i) \/ BackoffOver(i) \/ Poll(i) \/ WakeUp(i) \/ Exit(i)
             \/ NotifyAfterCommand(i)
             \/ Start(i) \/ Stop(i) \/ Cancel(i) \/ Stopped(i) \/ Crash(i)
      PROVE  Precedes(e, f)'
  <2>1. Committed' = Committed /\ UNCHANGED delivered
    BY <1>3, LifeStep DEF DeliveryInv
  <2>2. UNCHANGED stamp /\ \A j \in Instances : batch'[j] = batch[j] \/ batch'[j] = {}
    BY <1>3 DEF Drain, BackoffOver, Poll, WakeUp, Exit, NotifyAfterCommand, Start,
                Stop, Cancel, Stopped, Crash, ProcessEnds, workVars, txVars, TypeOK
  <2> QED
    BY <2>1, <2>2 DEF Precedes
<1>4. CASE Tick \/ UNCHANGED vars
  BY <1>4, NoTransactionStep DEF Tick, vars, workVars, txVars, Precedes
<1> QED
  BY <1>1, <1>2, <1>3, <1>4 DEF Next, RunWorker

\* An event that is committed before another one and has the older stamp is
\* delivered before it, however many instances race, fail and crash.
THEOREM DeliveredInOrder == Spec => InOrder
<1> SUFFICES ASSUME NEW s \in Txs, NEW t \in Txs \ {s}
             PROVE  Spec =>
                [](EventsOf(s) \subseteq Committed /\ EventsOf(t) \cap Committed = {} =>
                    [](\A e \in EventsOf(s), f \in EventsOf(t) :
                        delivered[f] > 0 /\ stamp[e] < stamp[f] => delivered[e] > 0))
  BY DEF InOrder
<1> DEFINE Precede == \A e \in EventsOf(s), f \in EventsOf(t) : Precedes(e, f)
<1>0. EventsOf(s) \subseteq Events /\ EventsOf(t) \subseteq Events
  BY DEF EventsOf
<1>1. DeliveryInv /\ EventsOf(s) \subseteq Committed /\ EventsOf(t) \cap Committed = {}
          => Precede
  BY <1>0 DEF DeliveryInv, DeliveredMeansCommitted, WorkerInv, Precedes
<1>2. TypeOK /\ DeliveryInv /\ Precede /\ [Next]_vars => Precede'
  BY <1>0, OrderStep
<1>3. Precede => \A e \in EventsOf(s), f \in EventsOf(t) :
                     delivered[f] > 0 /\ stamp[e] < stamp[f] => delivered[e] > 0
  BY DEF Precedes
<1> HIDE DEF Precede
<1> QED
  BY <1>1, <1>2, <1>3, Typing, DeliveryAlways, PTL DEF Spec

\* A record the broker refuses holds back for good whatever is committed after it
\* with a younger stamp: by any instance, after any restart.
THEOREM PoisonHoldsBack ==
    ASSUME NEW e \in Poison, NEW f \in Events
    PROVE  Spec => [](e \in Committed /\ f \notin Committed =>
                        [](stamp[e] < stamp[f] => delivered[f] = 0))
<1>0. e \in Events
  BY RolesAssumption
<1>1. DeliveryInv /\ e \in Committed /\ f \notin Committed => Precedes(e, f)
  BY DEF DeliveryInv, DeliveredMeansCommitted, WorkerInv, Precedes
<1>2. TypeOK /\ DeliveryInv /\ Precedes(e, f) /\ [Next]_vars => Precedes(e, f)'
  BY <1>0, OrderStep
<1>3. TypeOK /\ DeliveryInv /\ Precedes(e, f) => (stamp[e] < stamp[f] => delivered[f] = 0)
  BY DEF Precedes, DeliveryInv, PoisonKept, TypeOK
<1> QED
  BY <1>1, <1>2, <1>3, Typing, DeliveryAlways, PTL DEF Spec

-----------------------------------------------------------------------------
(* The outbox implements EventDelivery.                                    *)

LEMMA PromiseStep ==
    ASSUME TypeOK, DeliveryInv, [Next]_vars
    PROVE  [Promise!Next]_(Promise!vars)
<1> USE DEF Promise!vars
<1>1. ASSUME NEW t \in Txs, Transaction(t) PROVE Promise!Next
  <2>1. /\ Committed \subseteq Committed' /\ Settled' = Settled /\ UNCHANGED delivered
        /\ Committed' \in SUBSET Events
    BY <1>1, TransactionStep DEF DeliveryInv, DeliveredMeansCommitted, Committed
  <2>2. Promise!Commit(Committed')
    BY <2>1 DEF Promise!Commit
  <2> QED
    BY <2>1, <2>2 DEF Promise!Next
<1>2. ASSUME NEW i \in Instances, ProcessBatch(i)
      PROVE  Promise!Next \/ UNCHANGED Promise!vars
  <2>1. Committed' = Committed
    BY <1>2, NoTransactionStep
       DEF ProcessBatch, ReadBatch, ReadFails, PublishRecord, PublishFails,
           PublishAnswerLost, Delete, DeleteFails, DeleteAnswerLost, txVars
  <2>2. CASE ReadBatch(i) \/ ReadFails(i) \/ PublishFails(i) \/ DeleteFails(i)
    BY <2>1, <2>2 DEF ReadBatch, ReadFails, PublishFails, DeleteFails, Settled
  <2>3. CASE PublishRecord(i) \/ PublishAnswerLost(i)
    <3>1. PICK e \in Oldest(i) : delivered' = [delivered EXCEPT ![e] = @ + 1]
      BY <2>3 DEF PublishRecord, PublishAnswerLost
    <3>2. e \in Committed /\ e \in Events
      BY DEF Oldest, DeliveryInv, WorkerInv, Committed
    <3>3. UNCHANGED table
      BY <2>3 DEF PublishRecord, PublishAnswerLost
    <3>4. Promise!Deliver(e)
      BY <2>1, <3>1, <3>2, <3>3 DEF Promise!Deliver, Settled
    <3> QED
      BY <3>2, <3>4 DEF Promise!Next
  <2>4. CASE Delete(i) \/ DeleteAnswerLost(i)
    <3>1. /\ wpc[i] = "delete" /\ table' = table \ {hand[i]} /\ UNCHANGED delivered
      BY <2>4 DEF Delete, DeleteAnswerLost
    <3>2. hand[i] \in Committed /\ hand[i] \in Events /\ delivered[hand[i]] > 0
      BY <3>1 DEF DeliveryInv, WorkerInv, HandInv, Committed
    <3>3. Promise!Settle(hand[i])
      BY <2>1, <3>1, <3>2 DEF Promise!Settle, Settled
    <3> QED
      BY <3>2, <3>3 DEF Promise!Next
  <2> QED
    BY <1>2, <2>2, <2>3, <2>4 DEF ProcessBatch
<1>3. ASSUME NEW i \in Instances,
             \/ Drain(i) \/ BackoffOver(i) \/ Poll(i) \/ WakeUp(i) \/ Exit(i)
             \/ NotifyAfterCommand(i)
             \/ Start(i) \/ Stop(i) \/ Cancel(i) \/ Stopped(i) \/ Crash(i)
      PROVE  UNCHANGED Promise!vars
  BY <1>3, LifeStep DEF DeliveryInv, Settled
<1>4. CASE Tick \/ UNCHANGED vars
  <2>1. UNCHANGED <<table, delivered, txpc>>
    BY <1>4 DEF Tick, vars, txVars
  <2> QED
    BY <2>1, NoTransactionStep DEF Settled
<1> QED
  BY <1>1, <1>2, <1>3, <1>4 DEF Next, RunWorker

\* The outbox keeps its promise: every step of it is one of EventDelivery.
THEOREM DeliveryKept == Spec => ImplementsDelivery
<1>1. Init => Promise!Init
  BY RolesAssumption DEF Init, Promise!Init, Committed, Settled
<1>2. TypeOK /\ DeliveryInv /\ [Next]_vars => [Promise!Next]_(Promise!vars)
  BY PromiseStep
<1> QED
  BY <1>1, <1>2, Typing, DeliveryAlways, PTL DEF Spec, ImplementsDelivery, Promise!Spec

-----------------------------------------------------------------------------
(* Wake-ups.                                                               *)

\* The condition under which NoLostWakeup promises anything, once false, stays so.
LEMMA CalmBefore ==
    ASSUME TypeOK, DeliveryInv, [Next]_vars, failures' = 0, table' \cap Poison = {}
    PROVE  failures = 0 /\ table \cap Poison = {}
<1>1. failures \in Nat
  BY BoundsAssumption DEF TypeOK
<1>2. failures' >= failures
  <2>1. CASE Tick \/ UNCHANGED vars
    BY <1>1, <2>1 DEF Tick, vars
  <2>2. ASSUME NEW t \in Txs, Transaction(t) PROVE failures' >= failures
    BY <1>1, <2>2 DEF Transaction, Begin, Publish, Rollback, Commit, CommitAnswerLost,
                      RunHooks, ConnectionFails
  <2>3. ASSUME NEW i \in Instances, ProcessBatch(i) PROVE failures' >= failures
    BY <1>1, <2>3 DEF ProcessBatch, ReadBatch, ReadFails, PublishRecord, PublishFails,
                      PublishAnswerLost, Delete, DeleteFails, DeleteAnswerLost,
                      CallWorks, CallFails, ConnectionFails
  <2> QED
    BY <1>1, <2>1, <2>2, <2>3, LifeStep DEF Next, RunWorker, DeliveryInv
<1>3. table \cap Poison \subseteq table'
  <2>1. CASE Tick \/ UNCHANGED vars
    BY <2>1 DEF Tick, vars
  <2>2. ASSUME NEW t \in Txs, Transaction(t) PROVE table \subseteq table'
    BY <2>2 DEF Transaction, Begin, Publish, Rollback, Commit, CommitAnswerLost, RunHooks
  <2>3. ASSUME NEW i \in Instances, ProcessBatch(i)
        PROVE  table \cap Poison \subseteq table'
    <3>1. CASE UNCHANGED table
      BY <3>1
    <3>2. CASE wpc[i] = "delete" /\ table' = table \ {hand[i]}
      <4>1. hand[i] \notin Poison
        BY <3>2 DEF DeliveryInv, HandInv, PoisonKept
      <4> QED
        BY <3>2, <4>1
    <3> QED
      BY <2>3, <3>1, <3>2
         DEF ProcessBatch, ReadBatch, ReadFails, PublishRecord, PublishFails,
             PublishAnswerLost, Delete, DeleteFails, DeleteAnswerLost
  <2> QED
    BY <2>1, <2>2, <2>3, LifeStep DEF Next, RunWorker, DeliveryInv
<1> QED
  BY <1>1, <1>2, <1>3 DEF TypeOK

\* The worker of an instance that is up loses sight of no record as it works.
LEMMA BatchAttends ==
    ASSUME TypeOK, DeliveryInv, failures' = 0, table \cap Poison = {},
           NEW i \in Instances, life[i] = "up", ProcessBatch(i),
           NEW e \in table', Attended(i, e)
    PROVE  Attended(i, e)'
<1> USE DEF Attended, BatchLocations
<1>0. failures \in Nat /\ failures # -1 /\ failures + 1 # 0
  BY BoundsAssumption DEF TypeOK
<1>1. e \in table
  BY DEF ProcessBatch, ReadBatch, ReadFails, PublishRecord, PublishFails,
         PublishAnswerLost, Delete, DeleteFails, DeleteAnswerLost
<1>2. CASE ReadBatch(i)
  <2>1. PICK s \in Batches :
            /\ batch' = [batch EXCEPT ![i] = s]
            /\ full' = [full EXCEPT ![i] = Cardinality(s) = BatchSize]
            /\ wpc' = [wpc EXCEPT ![i] = IF s = {} THEN "idle" ELSE "publish"]
    BY <1>2 DEF ReadBatch
  <2>2. e \in s \/ Cardinality(s) = BatchSize
    BY <1>1 DEF Batches
  <2>3. s # {}
    BY <2>2, FS_EmptySet, BatchAssumption
  <2>4. e \in batch'[i] \/ full'[i]
    BY <2>1, <2>2 DEF TypeOK
  <2>5. wpc'[i] = "publish"
    BY <2>1, <2>3 DEF TypeOK
  <2> QED
    BY <2>4, <2>5
<1>3. CASE ReadFails(i) \/ PublishAnswerLost(i) \/ DeleteFails(i) \/ DeleteAnswerLost(i)
  BY <1>0, <1>3 DEF ReadFails, PublishAnswerLost, DeleteFails, DeleteAnswerLost,
                    CallFails, ConnectionFails
<1>4. CASE PublishFails(i)
  <2>1. PICK f \in batch[i] : f \in Poison
    BY <1>0, <1>4 DEF PublishFails, Oldest, ConnectionFails
  <2>2. f \in Committed /\ delivered[f] = 0
    <3>1. batch[i] \subseteq Committed
      BY DEF DeliveryInv, WorkerInv
    <3> QED
      BY <2>1, <3>1 DEF DeliveryInv, PoisonKept
  <2>3. f \notin Settled
    BY <2>2 DEF DeliveryInv, SettledMeansDelivered
  <2> QED
    BY <2>1, <2>2, <2>3 DEF Settled
<1>5. CASE PublishRecord(i)
  BY <1>5 DEF PublishRecord, TypeOK
<1>6. CASE Delete(i)
  <2>1. wpc[i] = "delete" /\ NextRecord(i) /\ UNCHANGED token /\ e # hand[i]
    BY <1>6 DEF Delete
  <2> QED
    BY <2>1 DEF NextRecord, TypeOK
<1> QED
  BY <1>2, <1>3, <1>4, <1>5, <1>6 DEF ProcessBatch

LEMMA WakeupStep ==
    ASSUME TypeOK, TypeOK', DeliveryInv, NoLostWakeup, [Next]_vars
    PROVE  NoLostWakeup'
<1> SUFFICES ASSUME WakeupEnabled, failures' = 0, table' \cap Poison = {},
                    NEW e \in table', TxOf[e] \in Managed,
                    life'[InstanceOf[TxOf[e]]] = "up",
                    txpc'[TxOf[e]] # "committed"
             PROVE  Attended(InstanceOf[TxOf[e]], e)'
  BY DEF NoLostWakeup
<1> DEFINE t == TxOf[e]
           i == InstanceOf[t]
<1>1. e \in Events /\ t \in Txs /\ i \in Instances
  BY RolesAssumption DEF TypeOK
<1>2. failures = 0 /\ table \cap Poison = {}
  BY CalmBefore
<1>3. e \in table /\ life[i] = "up" => txpc[t] = "committed" \/ Attended(i, e)
  BY <1>2 DEF NoLostWakeup
<1> HIDE DEF t, i
<1>4. ASSUME NEW u \in Txs, Transaction(u) PROVE Attended(i, e)'
  <2>1. life[i] = "up" /\ UNCHANGED <<wpc, batch, full>>
    BY <1>4, TransactionStep DEF t, i, workVars, DeliveryInv, DeliveredMeansCommitted
  <2>2. e \in table
    <3>1. CASE Commit(u)
      BY <1>1, <3>1 DEF Commit, EventsOf, TypeOK, t, RegisterAfterCommit
    <3>2. CASE CommitAnswerLost(u)
      BY <1>2, <3>2 DEF CommitAnswerLost, ConnectionFails
    <3> QED
      BY <1>4, <3>1, <3>2 DEF Transaction, Begin, Publish, Rollback, RunHooks
  <2>3. CASE txpc[t] = "committed"
    <3>1. u = t /\ RunHooks(u)
      BY <1>1, <1>4, <2>3 DEF Transaction, Begin, Publish, Rollback, Commit,
                              CommitAnswerLost, RunHooks, TypeOK, t
    <3>2. token'[i]
      BY <1>1, <3>1 DEF RunHooks, Notify, TypeOK, i, t
    <3> QED
      BY <3>2 DEF Attended
  <2>4. CASE Attended(i, e)
    <3>1. token[i] => token'[i]
      BY <1>1, <1>4 DEF Transaction, Begin, Publish, Rollback, Commit,
                        CommitAnswerLost, RunHooks, Notify, TypeOK
    <3> QED
      BY <2>1, <2>4, <3>1 DEF Attended
  <2> QED
    BY <1>3, <2>1, <2>2, <2>3, <2>4
<1>5. ASSUME NEW j \in Instances, ProcessBatch(j) PROVE Attended(i, e)'
  <2>1. UNCHANGED <<life, txpc, token>> /\ table' \subseteq table
    BY <1>5 DEF ProcessBatch, ReadBatch, ReadFails, PublishRecord, PublishFails,
           PublishAnswerLost, Delete, DeleteFails, DeleteAnswerLost, txVars, envVars
  <2>2. Attended(i, e) /\ life[i] = "up"
    BY <1>3, <2>1 DEF t, i
  <2>3. CASE j = i
    BY <1>1, <1>2, <1>5, <2>2, <2>3, BatchAttends
  <2>4. CASE j # i
    <3>1. UNCHANGED <<batch[i], wpc[i], full[i]>>
      BY <1>1, <1>5, <2>4
         DEF ProcessBatch, ReadBatch, ReadFails, PublishRecord, PublishFails, GiveUp,
             PublishAnswerLost, Delete, NextRecord, DeleteFails, DeleteAnswerLost, TypeOK
    <3> QED
      BY <2>1, <2>2, <3>1 DEF Attended
  <2> QED
    BY <2>3, <2>4
<1>6. ASSUME NEW j \in Instances,
             \/ Drain(j) \/ BackoffOver(j) \/ Poll(j) \/ WakeUp(j) \/ Exit(j)
             \/ NotifyAfterCommand(j)
      PROVE  Attended(i, e)'
  <2>1. UNCHANGED <<table, life, txpc, batch, full>>
    BY <1>6 DEF Drain, BackoffOver, Poll, WakeUp, Exit, NotifyAfterCommand,
                txVars, workVars, envVars
  <2>2. Attended(i, e) /\ life[i] = "up"
    BY <1>3, <2>1 DEF t, i
  <2> QED
    BY <1>1, <1>6, <2>1, <2>2
       DEF Drain, BackoffOver, Poll, WakeUp, Exit, NotifyAfterCommand, Notify,
           Ending, Attended, BatchLocations, TypeOK
<1>7. ASSUME NEW j \in Instances,
             Start(j) \/ Stop(j) \/ Cancel(j) \/ Stopped(j) \/ Crash(j)
      PROVE  Attended(i, e)'
  <2>1. CASE j = i
    <3>1. Start(i)
      BY <1>1, <1>7, <2>1 DEF Stop, Cancel, Stopped, Crash, ProcessEnds, TypeOK, t, i
    <3> QED
      BY <1>1, <3>1 DEF Start, Attended, TypeOK
  <2>2. CASE j # i
    <3>1. /\ UNCHANGED <<table, batch[i], wpc[i], full[i], token[i], life[i]>>
          /\ txpc[t] = "committed" => txpc'[t] = "committed"
      BY <1>1, <1>7, <2>2
         DEF Start, Stop, Cancel, Stopped, Crash, ProcessEnds, TypeOK, txVars,
             workVars, t, i
    <3>2. Attended(i, e)
      BY <1>3, <3>1 DEF t, i
    <3> QED
      BY <3>1, <3>2 DEF Attended
  <2> QED
    BY <2>1, <2>2
<1>8. CASE Tick \/ UNCHANGED vars
  <2>1. UNCHANGED <<table, batch, wpc, full, token, life, txpc>>
    BY <1>8 DEF Tick, vars, txVars, workVars
  <2> QED
    BY <1>3, <2>1 DEF Attended, t, i
<1> QED
  BY <1>4, <1>5, <1>6, <1>7, <1>8 DEF Next, RunWorker, i, t

\* While no call fails, a committed event has a signal, a worker or a hook under
\* way to it.
THEOREM WakeupKept == Spec => []NoLostWakeup
<1>1. Init => NoLostWakeup
  BY DEF Init, NoLostWakeup
<1>2. TypeOK /\ TypeOK' /\ DeliveryInv /\ NoLostWakeup /\ [Next]_vars => NoLostWakeup'
  BY WakeupStep
<1> QED
  BY <1>1, <1>2, Typing, DeliveryAlways, PTL DEF Spec

-----------------------------------------------------------------------------
(* Duplicates.                                                             *)

\* Publications of e that instance i may still make without a new failure.
Due(i, e) ==
    (IF i \in PublishNow(e) THEN 1 ELSE 0) + (IF i \in PublishLater(e) THEN 1 ELSE 0)

\* Two sets that agree but for i differ in size by what they say of i.
LEMMA CountBut ==
    ASSUME NEW i, NEW s \in SUBSET Instances, NEW r \in SUBSET Instances,
           r \ {i} \subseteq s \ {i}
    PROVE  /\ Cardinality(s) \in Nat /\ Cardinality(r) \in Nat
           /\ Cardinality(r) + (IF i \in s THEN 1 ELSE 0)
                <= Cardinality(s) + (IF i \in r THEN 1 ELSE 0)
<1>1. IsFiniteSet(s) /\ IsFiniteSet(r)
  BY FiniteAssumption, FS_Subset
<1>2. Cardinality(s) \in Nat /\ Cardinality(r) \in Nat
  BY <1>1, FS_CardinalityType
<1>3. /\ IsFiniteSet(s \ {i})
      /\ Cardinality(s \ {i}) = IF i \in s THEN Cardinality(s) - 1 ELSE Cardinality(s)
      /\ Cardinality(r \ {i}) = IF i \in r THEN Cardinality(r) - 1 ELSE Cardinality(r)
  BY <1>1, FS_RemoveElement
<1>4. Cardinality(r \ {i}) <= Cardinality(s \ {i})
  BY <1>3, FS_Subset
<1> QED
  BY <1>2, <1>3, <1>4

\* A step of one instance keeps the count if that instance pays for it.
LEMMA PaidStep ==
    ASSUME TypeOK, TypeOK', DuplicatesInv, NEW i \in Instances, NEW e \in Events,
           Settled \subseteq Settled',
           \A j \in Instances \ {i} :
               UNCHANGED <<batch[j], hand[j], life[j]>>,
           delivered'[e] + Due(i, e)' + failures + outages
               <= delivered[e] + Due(i, e) + failures' + outages'
    PROVE  delivered'[e] + Cardinality(PublishNow(e)') + Cardinality(PublishLater(e)')
               <= Cardinality(Instances) + failures' + outages'
<1>1. /\ PublishNow(e) \in SUBSET Instances /\ PublishNow(e)' \in SUBSET Instances
      /\ PublishLater(e) \in SUBSET Instances /\ PublishLater(e)' \in SUBSET Instances
  BY DEF PublishNow, PublishLater
<1>2. /\ PublishNow(e)' \ {i} \subseteq PublishNow(e) \ {i}
      /\ PublishLater(e)' \ {i} \subseteq PublishLater(e) \ {i}
  BY DEF PublishNow, PublishLater
<1> DEFINE n == IF i \in PublishNow(e) THEN 1 ELSE 0
           l == IF i \in PublishLater(e) THEN 1 ELSE 0
           m == IF i \in PublishNow(e)' THEN 1 ELSE 0
           k == IF i \in PublishLater(e)' THEN 1 ELSE 0
<1>3. Cardinality(PublishNow(e)') + n <= Cardinality(PublishNow(e)) + m
  BY <1>1, <1>2, CountBut
<1>4. Cardinality(PublishLater(e)') + l <= Cardinality(PublishLater(e)) + k
  BY <1>1, <1>2, CountBut
<1>5. Due(i, e) = n + l /\ Due(i, e)' = m + k
  BY DEF Due
<1>6. n \in Nat /\ l \in Nat /\ m \in Nat /\ k \in Nat
  OBVIOUS
<1>7. /\ Cardinality(PublishNow(e)) \in Nat /\ Cardinality(PublishNow(e)') \in Nat
      /\ Cardinality(PublishLater(e)) \in Nat /\ Cardinality(PublishLater(e)') \in Nat
      /\ Cardinality(Instances) \in Nat
  BY <1>1, <1>2, CountBut, FiniteAssumption, FS_CardinalityType
<1>8. /\ delivered[e] \in Nat /\ delivered'[e] \in Nat
      /\ failures \in Nat /\ failures' \in Nat /\ outages \in Nat /\ outages' \in Nat
  BY BoundsAssumption DEF TypeOK
<1>9. delivered[e] + Cardinality(PublishNow(e)) + Cardinality(PublishLater(e))
          <= Cardinality(Instances) + failures + outages
  BY DEF DuplicatesInv
<1> HIDE DEF n, l, m, k
<1> QED
  BY <1>3, <1>4, <1>5, <1>6, <1>7, <1>8, <1>9

\* What is due from i, from what i has in its batch and in its hand.
LEMMA DueIs ==
    ASSUME NEW i \in Instances, NEW e
    PROVE  Due(i, e) =
             (IF e \in batch[i] /\ hand[i] # e THEN 1 ELSE 0)
             + (IF e \notin Settled /\ (life[i] = "cancelled" \/ e \notin batch[i])
                THEN 1 ELSE 0)
BY DEF Due, PublishNow, PublishLater

LEMMA DueIsNext ==
    ASSUME NEW i \in Instances, NEW e
    PROVE  Due(i, e)' =
             (IF e \in batch'[i] /\ hand'[i] # e THEN 1 ELSE 0)
             + (IF e \notin Settled' /\ (life'[i] = "cancelled" \/ e \notin batch'[i])
                THEN 1 ELSE 0)
BY DEF Due, PublishNow, PublishLater

\* Giving up a batch costs one more publication, of the record in hand only,
\* and none if the context is cancelled.
LEMMA GiveUpDue ==
    ASSUME TypeOK, NEW i \in Instances, GiveUp(i), NEW e \in Events,
           Settled \subseteq Settled', UNCHANGED life
    PROVE  /\ Due(i, e)' <= Due(i, e) + 1
           /\ hand[i] # e \/ life[i] = "cancelled" => Due(i, e)' <= Due(i, e)
           /\ Due(i, e) \in Nat /\ Due(i, e)' \in Nat
<1>1. batch'[i] = {} /\ hand'[i] = NoEvent
  BY DEF GiveUp, TypeOK
<1> QED
  BY <1>1, DueIs, DueIsNext

\* The account of a worker's step on its batch.
LEMMA BatchPays ==
    ASSUME TypeOK, TypeOK', DeliveryInv, NEW i \in Instances, ProcessBatch(i),
           NEW e \in Events, Settled \subseteq Settled', Committed' = Committed
    PROVE  delivered'[e] + Due(i, e)' + failures + outages
               <= delivered[e] + Due(i, e) + failures' + outages'
<1>1. /\ UNCHANGED <<life, outages>> /\ outages \in Nat
      /\ delivered[e] \in Nat /\ failures \in Nat
  BY BoundsAssumption
     DEF ProcessBatch, ReadBatch, ReadFails, PublishRecord, PublishFails,
         PublishAnswerLost, Delete, DeleteFails, DeleteAnswerLost, envVars, TypeOK
<1>2. e # NoEvent /\ batch[i] \subseteq Events
  BY RolesAssumption DEF TypeOK, SizedBatches
<1>3. /\ wpc[i] # "delete" => hand[i] = NoEvent
      /\ wpc[i] \notin BatchLocations => batch[i] = {}
      /\ wpc[i] = "delete" => hand[i] \in batch[i]
      /\ batch[i] \subseteq Committed
  BY DEF DeliveryInv, WorkerInv
<1>4. CASE ReadBatch(i)
  <2>1. PICK s \in Batches : batch' = [batch EXCEPT ![i] = s]
    BY <1>4 DEF ReadBatch
  <2>2. /\ batch[i] = {} /\ hand[i] = NoEvent /\ hand' = hand
        /\ delivered' = delivered /\ failures' = failures /\ table' = table
        /\ life[i] # "cancelled"
    BY <1>3, <1>4 DEF ReadBatch, BatchLocations, CallWorks
  <2>3. batch'[i] = s /\ (e \in s => e \notin Settled) /\ Settled' = Settled
    BY <2>1, <2>2, Committed' = Committed DEF TypeOK, Batches, Settled
  <2>4. Due(i, e)' <= Due(i, e) /\ Due(i, e)' \in Nat /\ Due(i, e) \in Nat
    BY <1>1, <1>2, <2>2, <2>3, DueIs, DueIsNext
  <2> QED
    BY <1>1, <2>2, <2>4
<1>5. CASE ReadFails(i) \/ PublishFails(i)
  <2>1. /\ GiveUp(i) /\ delivered' = delivered /\ failures' \in Nat /\ failures <= failures'
        /\ wpc[i] # "delete"
    BY <1>1, <1>5 DEF ReadFails, PublishFails, CallFails, ConnectionFails
  <2>2. Due(i, e)' <= Due(i, e) /\ Due(i, e)' \in Nat /\ Due(i, e) \in Nat
    BY <1>1, <1>2, <1>3, <2>1, GiveUpDue
  <2> QED
    BY <1>1, <2>1, <2>2
<1>6. CASE PublishAnswerLost(i)
  <2>1. /\ GiveUp(i) /\ failures' = failures + 1 /\ wpc[i] # "delete"
        /\ delivered'[e] \in Nat /\ delivered'[e] <= delivered[e] + 1
    BY <1>1, <1>6 DEF PublishAnswerLost, ConnectionFails, TypeOK
  <2>2. Due(i, e)' <= Due(i, e) /\ Due(i, e)' \in Nat /\ Due(i, e) \in Nat
    BY <1>1, <1>2, <1>3, <2>1, GiveUpDue
  <2> QED
    BY <1>1, <2>1, <2>2
<1>7. CASE DeleteFails(i) \/ DeleteAnswerLost(i)
  <2>1. /\ GiveUp(i) /\ delivered' = delivered
        /\ \/ failures' = failures /\ life[i] = "cancelled"
           \/ failures' = failures + 1
    BY <1>7 DEF DeleteFails, DeleteAnswerLost, CallFails, ConnectionFails
  <2>2. /\ Due(i, e)' <= Due(i, e) + 1
        /\ life[i] = "cancelled" => Due(i, e)' <= Due(i, e)
        /\ Due(i, e)' \in Nat /\ Due(i, e) \in Nat
    BY <1>1, <2>1, GiveUpDue
  <2> QED
    BY <1>1, <2>1, <2>2
<1>8. CASE PublishRecord(i)
  <2>1. PICK f \in Oldest(i) : /\ delivered' = [delivered EXCEPT ![f] = @ + 1]
                               /\ hand' = [hand EXCEPT ![i] = f]
    BY <1>8 DEF PublishRecord
  <2>2. /\ batch' = batch /\ failures' = failures /\ table' = table
        /\ hand[i] = NoEvent /\ f \in batch[i] /\ hand'[i] = f
    BY <1>3, <1>8, <2>1 DEF PublishRecord, Oldest, TypeOK
  <2>3. Settled' = Settled
    BY <2>2, Committed' = Committed DEF Settled
  <2>4. CASE e = f
    <3>1. delivered'[e] = delivered[e] + 1
      BY <2>1, <2>4 DEF TypeOK
    <3>2. Due(i, e)' = Due(i, e) - 1 /\ Due(i, e) \in Nat
      BY <1>1, <1>2, <2>2, <2>3, <2>4, DueIs, DueIsNext
    <3> QED
      BY <1>1, <2>2, <3>1, <3>2
  <2>5. CASE e # f
    <3>1. delivered'[e] = delivered[e]
      BY <2>1, <2>5 DEF TypeOK
    <3>2. Due(i, e)' = Due(i, e) /\ Due(i, e) \in Nat
      BY <1>1, <1>2, <2>2, <2>3, <2>5, DueIs, DueIsNext
    <3> QED
      BY <1>1, <2>2, <3>1, <3>2
  <2> QED
    BY <2>4, <2>5
<1>9. CASE Delete(i)
  <2>1. /\ wpc[i] = "delete" /\ NextRecord(i) /\ table' = table \ {hand[i]}
        /\ delivered' = delivered /\ failures' = failures /\ life[i] # "cancelled"
    BY <1>9 DEF Delete, CallWorks
  <2>2. /\ batch'[i] = batch[i] \ {hand[i]} /\ hand'[i] = NoEvent
        /\ hand[i] \in batch[i] /\ hand[i] \in Committed
    BY <1>3, <2>1 DEF NextRecord, TypeOK
  <2>3. Settled' = Settled \cup {hand[i]}
    BY <2>1, <2>2, Committed' = Committed DEF Settled
  <2>4. Due(i, e)' <= Due(i, e) /\ Due(i, e)' \in Nat /\ Due(i, e) \in Nat
    BY <1>1, <1>2, <2>1, <2>2, <2>3, DueIs, DueIsNext
  <2> QED
    BY <1>1, <2>1, <2>4
<1> QED
  BY <1>4, <1>5, <1>6, <1>7, <1>8, <1>9 DEF ProcessBatch

\* The account of an instance that starts, ends or is interrupted.
LEMMA LifePays ==
    ASSUME TypeOK, TypeOK', DeliveryInv, NEW i \in Instances, NEW e \in Events,
           Start(i) \/ Stop(i) \/ Cancel(i) \/ Stopped(i) \/ Crash(i),
           Settled' = Settled
    PROVE  delivered'[e] + Due(i, e)' + failures + outages
               <= delivered[e] + Due(i, e) + failures' + outages'
<1>1. delivered[e] \in Nat /\ failures \in Nat /\ outages \in Nat
  BY BoundsAssumption DEF TypeOK
<1>2. delivered' = delivered /\ failures' = failures
  BY DEF Start, Stop, Cancel, Stopped, Crash, ProcessEnds
<1>3. CASE Start(i) \/ Stop(i)
  <2>1. /\ life[i] # "cancelled" /\ life'[i] # "cancelled" /\ outages' = outages
        /\ batch' = batch /\ hand' = hand
    BY <1>3 DEF Start, Stop, workVars, TypeOK
  <2>2. Due(i, e)' = Due(i, e) /\ Due(i, e) \in Nat
    BY <2>1, DueIs, DueIsNext, Settled' = Settled
  <2> QED
    BY <1>1, <1>2, <2>1, <2>2
<1>4. CASE Cancel(i)
  <2>1. outages' = outages + 1 /\ batch' = batch /\ hand' = hand
    BY <1>4 DEF Cancel, workVars
  <2>2. Due(i, e)' <= Due(i, e) + 1 /\ Due(i, e) \in Nat /\ Due(i, e)' \in Nat
    BY <2>1, DueIs, DueIsNext, Settled' = Settled
  <2> QED
    BY <1>1, <1>2, <2>1, <2>2
<1>5. CASE Crash(i)
  <2>1. outages' = outages + 1 /\ batch'[i] = {} /\ hand'[i] = NoEvent
    BY <1>5 DEF Crash, ProcessEnds, TypeOK
  <2>2. Due(i, e)' <= Due(i, e) + 1 /\ Due(i, e) \in Nat /\ Due(i, e)' \in Nat
    BY <2>1, DueIs, DueIsNext
  <2> QED
    BY <1>1, <1>2, <2>1, <2>2
<1>6. CASE Stopped(i)
  <2>1. outages' = outages /\ batch'[i] = {} /\ hand'[i] = NoEvent
    BY <1>6 DEF Stopped, ProcessEnds, TypeOK
  <2>2. batch[i] = {}
    BY <1>6 DEF Stopped, DeliveryInv, WorkerInv, BatchLocations
  <2>3. Due(i, e)' = Due(i, e) /\ Due(i, e) \in Nat
    BY <2>1, <2>2, DueIs, DueIsNext, Settled' = Settled
  <2> QED
    BY <1>1, <1>2, <2>1, <2>3
<1> QED
  BY <1>3, <1>4, <1>5, <1>6

LEMMA DuplicatesStep ==
    ASSUME TypeOK, TypeOK', DeliveryInv, DuplicatesInv, [Next]_vars
    PROVE  DuplicatesInv'
<1> SUFFICES ASSUME NEW e \in Events
             PROVE  delivered'[e] + Cardinality(PublishNow(e)')
                        + Cardinality(PublishLater(e)')
                      <= Cardinality(Instances) + failures' + outages'
  BY DEF DuplicatesInv
<1>0. /\ PublishNow(e) \in SUBSET Instances /\ PublishLater(e) \in SUBSET Instances
      /\ Cardinality(PublishNow(e)) \in Nat /\ Cardinality(PublishLater(e)) \in Nat
      /\ Cardinality(Instances) \in Nat /\ delivered[e] \in Nat
      /\ failures \in Nat /\ outages \in Nat
  <2>1. PublishNow(e) \in SUBSET Instances /\ PublishLater(e) \in SUBSET Instances
    BY DEF PublishNow, PublishLater
  <2>2. IsFiniteSet(PublishNow(e)) /\ IsFiniteSet(PublishLater(e)) /\ IsFiniteSet(Instances)
    BY <2>1, FiniteAssumption, FS_Subset
  <2>3. /\ Cardinality(PublishNow(e)) \in Nat /\ Cardinality(PublishLater(e)) \in Nat
        /\ Cardinality(Instances) \in Nat
    BY <2>2, FS_CardinalityType
  <2>4. delivered[e] \in Nat /\ failures \in Nat /\ outages \in Nat
    BY BoundsAssumption DEF TypeOK
  <2> QED
    BY <2>1, <2>3, <2>4
\* Where no worker's notes change, nothing does but perhaps the failures.
<1>1. ASSUME UNCHANGED <<delivered, batch, hand, life, outages>>, Settled' = Settled,
             failures' \in Nat, failures <= failures'
      PROVE  delivered'[e] + Cardinality(PublishNow(e)') + Cardinality(PublishLater(e)')
                 <= Cardinality(Instances) + failures' + outages'
  <2>1. PublishNow(e)' = PublishNow(e) /\ PublishLater(e)' = PublishLater(e)
    BY <1>1 DEF PublishNow, PublishLater
  <2>2. delivered[e] + Cardinality(PublishNow(e)) + Cardinality(PublishLater(e))
            <= Cardinality(Instances) + failures + outages
    BY DEF DuplicatesInv
  <2> QED
    BY <1>0, <1>1, <2>1, <2>2
<1>2. ASSUME NEW t \in Txs, Transaction(t)
      PROVE  delivered'[e] + Cardinality(PublishNow(e)') + Cardinality(PublishLater(e)')
                 <= Cardinality(Instances) + failures' + outages'
  <2>1. UNCHANGED <<delivered, batch, hand, life, outages>> /\ Settled' = Settled
    BY <1>2, TransactionStep DEF DeliveryInv, DeliveredMeansCommitted, workVars
  <2>2. failures' \in Nat /\ failures <= failures'
    BY <1>0, <1>2 DEF Transaction, Begin, Publish, Rollback, Commit, CommitAnswerLost,
                      RunHooks, ConnectionFails
  <2> QED
    BY <1>1, <2>1, <2>2
<1>3. ASSUME NEW i \in Instances, ProcessBatch(i)
      PROVE  delivered'[e] + Cardinality(PublishNow(e)') + Cardinality(PublishLater(e)')
                 <= Cardinality(Instances) + failures' + outages'
  <2>1. Committed' = Committed /\ Settled \subseteq Settled'
    BY <1>3, NoTransactionStep
       DEF ProcessBatch, ReadBatch, ReadFails, PublishRecord, PublishFails, Settled,
           PublishAnswerLost, Delete, DeleteFails, DeleteAnswerLost, txVars
  <2>2. \A j \in Instances \ {i} : UNCHANGED <<batch[j], hand[j], life[j]>>
    BY <1>3
       DEF ProcessBatch, ReadBatch, ReadFails, PublishRecord, PublishFails, GiveUp,
           PublishAnswerLost, Delete, NextRecord, DeleteFails, DeleteAnswerLost,
           envVars, TypeOK
  <2> QED
    BY <1>3, <2>1, <2>2, BatchPays, PaidStep
<1>4. ASSUME NEW i \in Instances,
             \/ Drain(i) \/ BackoffOver(i) \/ Poll(i) \/ WakeUp(i) \/ Exit(i)
             \/ NotifyAfterCommand(i)
      PROVE  delivered'[e] + Cardinality(PublishNow(e)') + Cardinality(PublishLater(e)')
                 <= Cardinality(Instances) + failures' + outages'
  <2>1. UNCHANGED <<table, delivered, batch, hand, life, outages, failures, txpc>>
    BY <1>4 DEF Drain, BackoffOver, Poll, WakeUp, Exit, NotifyAfterCommand,
                workVars, envVars, txVars
  <2> QED
    BY <1>0, <1>1, <2>1, NoTransactionStep DEF Settled
<1>5. ASSUME NEW i \in Instances,
             Start(i) \/ Stop(i) \/ Cancel(i) \/ Stopped(i) \/ Crash(i)
      PROVE  delivered'[e] + Cardinality(PublishNow(e)') + Cardinality(PublishLater(e)')
                 <= Cardinality(Instances) + failures' + outages'
  <2>1. Settled' = Settled
    BY <1>5, LifeStep DEF Settled, DeliveryInv
  <2>2. \A j \in Instances \ {i} : UNCHANGED <<batch[j], hand[j], life[j]>>
    BY <1>5 DEF Start, Stop, Cancel, Stopped, Crash, ProcessEnds, workVars, TypeOK
  <2> QED
    BY <1>5, <2>1, <2>2, LifePays, PaidStep
<1>6. CASE Tick \/ UNCHANGED vars
  <2>1. UNCHANGED <<table, delivered, batch, hand, life, outages, failures, txpc>>
    BY <1>6 DEF Tick, vars, workVars, txVars
  <2> QED
    BY <1>0, <1>1, <2>1, NoTransactionStep DEF Settled
<1> QED
  BY <1>2, <1>3, <1>4, <1>5, <1>6 DEF Next, RunWorker

\* Subscribers get an event once for each instance, and once more for a failure,
\* a crash or a cancelled context: for no other reason.
THEOREM FewDuplicates == Spec => []BoundedDuplicates
<1>1. Init => DuplicatesInv
  <2> SUFFICES ASSUME Init, NEW e \in Events
               PROVE  delivered[e] + Cardinality(PublishNow(e))
                          + Cardinality(PublishLater(e))
                        <= Cardinality(Instances) + failures + outages
    BY DEF DuplicatesInv
  <2>0. Settled = {} /\ \A i \in Instances : batch[i] = {}
    BY RolesAssumption DEF Init, Settled, Committed
  <2>1. PublishNow(e) = {} /\ PublishLater(e) = Instances
    BY <2>0 DEF PublishNow, PublishLater
  <2>2. Cardinality({}) = 0 /\ Cardinality(Instances) \in Nat
    BY FS_EmptySet, FS_CardinalityType, FiniteAssumption
  <2> QED
    BY <2>1, <2>2 DEF Init
<1>2. TypeOK /\ TypeOK' /\ DeliveryInv /\ DuplicatesInv /\ [Next]_vars => DuplicatesInv'
  BY DuplicatesStep
<1>3. TypeOK /\ DuplicatesInv => BoundedDuplicates
  <2> SUFFICES ASSUME TypeOK, DuplicatesInv, NEW e \in Events
               PROVE  delivered[e] <= Cardinality(Instances) + failures + outages
    BY DEF BoundedDuplicates
  <2>1. PublishNow(e) \in SUBSET Instances /\ PublishLater(e) \in SUBSET Instances
    BY DEF PublishNow, PublishLater
  <2>2. IsFiniteSet(PublishNow(e)) /\ IsFiniteSet(PublishLater(e))
    BY <2>1, FiniteAssumption, FS_Subset
  <2>3. /\ Cardinality(PublishNow(e)) \in Nat /\ Cardinality(PublishLater(e)) \in Nat
        /\ Cardinality(Instances) \in Nat
    BY <2>2, FiniteAssumption, FS_CardinalityType
  <2>4. delivered[e] \in Nat /\ failures \in Nat /\ outages \in Nat
    BY BoundsAssumption DEF TypeOK
  <2>5. delivered[e] + Cardinality(PublishNow(e)) + Cardinality(PublishLater(e))
            <= Cardinality(Instances) + failures + outages
    BY DEF DuplicatesInv
  <2> QED
    BY <2>3, <2>4, <2>5
<1> QED
  BY <1>1, <1>2, <1>3, Typing, DeliveryAlways, PTL DEF Spec
=============================================================================
