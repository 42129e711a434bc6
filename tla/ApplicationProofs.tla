------------------------- MODULE ApplicationProofs -------------------------
(***************************************************************************)
(* What is proved about Application for any number of processes and        *)
(* senders, any configurations and any bounds: it implements the bus of    *)
(* CommandBus, and the workers are started and stopped in order.           *)
(***************************************************************************)
EXTENDS Application, CommandBusProofs

-----------------------------------------------------------------------------
(* The application implements the bus.                                     *)

LEMMA BusOfInit == Init => BusInit
BY DEF Init

\* Whatever the application does, its bus takes a step of its own or none.
LEMMA BusOfNext == [Next]_vars => [BusNext]_busVars
<1> SUFFICES ASSUME [Next]_vars PROVE [BusNext]_busVars
  OBVIOUS
<1>1. ASSUME NEW s \in Senders, BusStep(s) \/ SignalCommand(s) PROVE BusNext
  BY <1>1 DEF BusStep, SignalCommand, BusNext
<1>2. ASSUME NEW i \in Instances, Expire(i) PROVE BusNext
  BY <1>2 DEF BusNext
<1>3. ASSUME NEW i \in Instances, Transact(i) PROVE BusNext \/ UNCHANGED busVars
  BY <1>3 DEF Transact, CommitManaged, RunHook, PublishManually, EndManual, CallFails, BusNext
<1>4. ASSUME NEW i \in Instances, Commit(i) \/ RecordFailure(i)
      PROVE  BusNext \/ UNCHANGED busVars
  BY <1>4 DEF Commit, RecordFailure, CommandExecuted, CallFails, BusNext
<1>5. ASSUME NEW i \in Instances, QueueBreaks(i) \/ OutboxBreaks(i) PROVE BusNext
  BY <1>5 DEF QueueBreaks, OutboxBreaks, CallFails, BusNext
<1>6. ASSUME NEW i \in Instances, Stopped(i) \/ Crash(i) PROVE BusNext
  BY <1>6 DEF Stopped, Crash, ProcessEnds, BusNext
<1>7. ASSUME NEW i \in Instances, NEW k \in Kinds,
             \/ Fetch(i) \/ FetchNothing(i) \/ RunCommandHook(i) \/ NotifyOutbox(i)
             \/ HandlerFails(i) \/ ReadBatch(i) \/ Relay(i)
             \/ WakeUp(i, k) \/ Poll(i, k) \/ Exit(i, k)
             \/ StartQueueWorker(i) \/ StartOutboxWorker(i)
             \/ StopQueueWorker(i) \/ StopOutboxWorker(i)
      PROVE  UNCHANGED busVars
  BY <1>7 DEF Fetch, FetchNothing, RunCommandHook, NotifyOutbox, HandlerFails, ReadBatch,
     Relay, WakeUp, Poll, Exit, StartQueueWorker, StartOutboxWorker, StopQueueWorker,
     StopOutboxWorker
<1>8. CASE UNCHANGED vars
  BY <1>8 DEF vars
<1>9. "queue" \in Kinds
  BY DEF Kinds
<1> QED
  BY <1>1, <1>2, <1>3, <1>4, <1>5, <1>6, <1>7, <1>8, <1>9
     DEF Next, RunWorker, ProcessNext, ProcessBatch, Hook

\* Each behaviour of the application is one of the bus.
THEOREM ImplementsBus == Spec => BusSpec
BY BusOfInit, BusOfNext, PTL DEF Spec, BusSpec

\* So the limit is as soft there, whatever starts, stops and crashes around the bus.
THEOREM ApplicationSoftLimit == Spec => []SoftLimit
BY ImplementsBus, SoftLimitKept, PTL

\* And its refusals are as well explained.
THEOREM ApplicationRefusals == Spec => RefusalsExplained
BY ImplementsBus, RefusalsTrue, PTL

-----------------------------------------------------------------------------
(* Types.                                                                  *)

AllLocations == QueueLocations \cup OutboxLocations

LEMMA AppInitTypes == Init => TypeOK
BY InitTypes DEF Init, TypeOK, Stages, QueueLocations, OutboxLocations, Hands

LEMMA BecomesTypes ==
    ASSUME TypeOK, NEW i \in Instances, NEW k \in Kinds,
           \/ \E to \in AllLocations : Becomes(i, k, to)
           \/ GoesOn(i, k)
    PROVE  worker' \in [Instances -> [Kinds -> AllLocations]]
<1>1. PICK to \in AllLocations : Becomes(i, k, to)
  BY DEF GoesOn, AllLocations, QueueLocations
<1>2. worker \in [Instances -> [Kinds -> AllLocations]]
  BY DEF TypeOK, AllLocations
<1> QED
  BY <1>1, <1>2 DEF Becomes

LEMMA SignalTypes ==
    ASSUME TypeOK, NEW i \in Instances, NEW n \in SUBSET Notifiers, Signal(i, n)
    PROVE  full' \in [Instances -> SUBSET Notifiers]
BY DEF TypeOK, Signal

LEMMA NotifierTypes ==
    ASSUME NEW i, NEW k \in Kinds
    PROVE  /\ WorkerNotifier(i, k) \in Notifiers
           /\ CommandBusNotifier(i) \in Notifiers
           /\ EventBusNotifier(i) \in Notifiers
BY DEF WorkerNotifier, CommandBusNotifier, EventBusNotifier, Chosen, Notifiers, Kinds

LEMMA SaveEventTypes ==
    ASSUME TypeOK, NEW i \in Instances, NEW late \in BOOLEAN, SaveEvent(i, late)
    PROVE  saved' \in Nat /\ events' \in SUBSET Events
BY DEF TypeOK, SaveEvent, Events

LEMMA PutDownTypes ==
    ASSUME TypeOK, NEW i \in Instances, PutDown(i)
    PROVE  hand' \in [Instances -> Hands]
BY DEF TypeOK, PutDown, Hands

\* The transactions beside the commands.
LEMMA TransactTypes ==
    ASSUME TypeOK, BusTypeOK', NEW i \in Instances, Transact(i) PROVE TypeOK'
<1>0. /\ "outbox" \in Kinds /\ TRUE \in BOOLEAN /\ FALSE \in BOOLEAN
      /\ {EventBusNotifier(i)} \in SUBSET Notifiers
      /\ external + 1 \in Nat /\ hooks[i] \in Nat /\ open[i] \in Nat
  BY NotifierTypes DEF Kinds, TypeOK
<1>1. CASE CommitManaged(i)
  <2>1. saved' \in Nat /\ events' \in SUBSET Events
    BY <1>0, <1>1, SaveEventTypes DEF CommitManaged
  <2>2. hooks' \in [Instances -> Nat] /\ external' \in Nat
    BY <1>0, <1>1 DEF CommitManaged, BeginsTx, TypeOK
  <2>3. UNCHANGED <<workVars, full, open, orphans, hookVars>>
    BY <1>1 DEF CommitManaged
  <2> QED
    BY <2>1, <2>2, <2>3 DEF TypeOK, workVars, hookVars
<1>2. CASE RunHook(i)
  <2>1. full' \in [Instances -> SUBSET Notifiers]
    BY <1>0, <1>2, SignalTypes DEF RunHook
  <2>2. hooks' \in [Instances -> Nat]
    <3>1. hooks[i] - 1 \in Nat
      BY <1>0, <1>2 DEF RunHook
    <3> QED
      BY <1>2, <3>1 DEF RunHook, TypeOK
  <2>3. UNCHANGED <<workVars, eventVars, open, external, orphans, hookVars>>
    BY <1>2 DEF RunHook
  <2> QED
    BY <2>1, <2>2, <2>3 DEF TypeOK, workVars, eventVars, hookVars
<1>3. CASE PublishManually(i)
  <2>1. full' \in [Instances -> SUBSET Notifiers]
    BY <1>0, <1>3, SignalTypes DEF PublishManually
  <2>2. open' \in [Instances -> Nat] /\ external' \in Nat
    BY <1>0, <1>3 DEF PublishManually, BeginsTx, TypeOK
  <2>3. UNCHANGED <<workVars, eventVars, hooks, orphans, hookVars>>
    BY <1>3 DEF PublishManually
  <2> QED
    BY <2>1, <2>2, <2>3 DEF TypeOK, workVars, eventVars, hookVars
<1>4. CASE EndManual(i)
  <2>1. saved' \in Nat /\ events' \in SUBSET Events
    BY <1>0, <1>4, SaveEventTypes DEF EndManual, eventVars, TypeOK
  <2>2. open' \in [Instances -> Nat]
    <3>1. open[i] - 1 \in Nat
      BY <1>0, <1>4 DEF EndManual
    <3> QED
      BY <1>4, <3>1 DEF EndManual, TypeOK
  <2>3. UNCHANGED <<workVars, full, hooks, external, orphans, hookVars>>
    BY <1>4 DEF EndManual
  <2> QED
    BY <2>1, <2>2, <2>3 DEF TypeOK, workVars, hookVars
<1> QED
  BY <1>1, <1>2, <1>3, <1>4 DEF Transact

\* The steps of a queue worker between two looks at its channels.
LEMMA ProcessNextTypes ==
    ASSUME TypeOK, BusTypeOK', NEW i \in Instances, ProcessNext(i) PROVE TypeOK'
<1>0. /\ {"queue", "outbox"} = Kinds /\ queue \subseteq Rows
      /\ {"idle", "execute", "hooks", "notify", "record"} \subseteq AllLocations
  BY DEF Kinds, TypeOK, BusTypeOK, AllLocations, QueueLocations
<1>1. worker' \in [Instances -> [Kinds -> AllLocations]]
  <2>1. (\E to \in AllLocations : Becomes(i, "queue", to)) \/ GoesOn(i, "queue")
    BY <1>0 DEF ProcessNext, Fetch, FetchNothing, Commit, RunCommandHook, NotifyOutbox,
       HandlerFails, RecordFailure, QueueBreaks
  <2> QED
    BY <1>0, <2>1, BecomesTypes
<1>2. hand' \in [Instances -> Hands]
  <2>1. CASE Fetch(i)
    BY <1>0, <2>1 DEF Fetch, TypeOK, Hands
  <2>2. CASE PutDown(i)
    BY <2>2, PutDownTypes
  <2>3. CASE UNCHANGED hand
    BY <2>3 DEF TypeOK
  <2> QED
    BY <2>1, <2>2, <2>3 DEF ProcessNext, FetchNothing, Commit, RunCommandHook, NotifyOutbox,
       HandlerFails, RecordFailure, QueueBreaks
<1>3. full' \in [Instances -> SUBSET Notifiers]
  <2>1. {EventBusNotifier(i)} \in SUBSET Notifiers
        /\ {WorkerNotifier(i, "outbox")} \in SUBSET Notifiers
    BY <1>0, NotifierTypes
  <2>2. CASE RunCommandHook(i) \/ NotifyOutbox(i)
    BY <2>1, <2>2, SignalTypes DEF RunCommandHook, NotifyOutbox
  <2>3. CASE UNCHANGED full
    BY <2>3 DEF TypeOK
  <2> QED
    BY <2>2, <2>3 DEF ProcessNext, Fetch, FetchNothing, Commit, HandlerFails, RecordFailure,
       QueueBreaks
<1>4. saved' \in Nat /\ events' \in SUBSET Events
  <2>1. CASE SaveEvent(i, FALSE)
    BY <2>1, SaveEventTypes
  <2>2. CASE UNCHANGED eventVars
    BY <2>2 DEF TypeOK, eventVars
  <2> QED
    BY <2>1, <2>2 DEF ProcessNext, Fetch, FetchNothing, Commit, RunCommandHook, NotifyOutbox,
       HandlerFails, RecordFailure, QueueBreaks
<1>5. UNCHANGED <<batch, txVars, hookVars>> /\ orphans' \subseteq orphans
  BY DEF ProcessNext, Fetch, FetchNothing, Commit, RunCommandHook, NotifyOutbox,
     HandlerFails, RecordFailure, QueueBreaks
<1> QED
  BY <1>1, <1>2, <1>3, <1>4, <1>5 DEF TypeOK, txVars, hookVars, AllLocations

\* And those of an outbox worker.
LEMMA ProcessBatchTypes ==
    ASSUME TypeOK, BusTypeOK', NEW i \in Instances, ProcessBatch(i) PROVE TypeOK'
<1>0. "outbox" \in Kinds /\ {"idle", "batch", "last"} \subseteq AllLocations
  BY DEF Kinds, AllLocations, OutboxLocations, QueueLocations
<1>1. worker' \in [Instances -> [Kinds -> AllLocations]]
  <2>1. \/ \E to \in AllLocations : Becomes(i, "outbox", to)
        \/ GoesOn(i, "outbox") \/ worker' = worker
    BY <1>0 DEF ProcessBatch, ReadBatch, Relay, NextRecord, OutboxBreaks
  <2>2. worker \in [Instances -> [Kinds -> AllLocations]]
    BY DEF TypeOK, AllLocations
  <2> QED
    BY <1>0, <2>1, <2>2, BecomesTypes
<1>2. /\ events' \in SUBSET Events
      /\ batch' \in [Instances -> SUBSET Events]
  <2>0. /\ events \in SUBSET Events /\ batch \in [Instances -> SUBSET Events]
        /\ \A s \in SUBSET Events :
              [batch EXCEPT ![i] = s] \in [Instances -> SUBSET Events]
    BY DEF TypeOK
  <2>1. CASE ReadBatch(i)
    BY <2>0, <2>1 DEF ReadBatch, eventVars
  <2>2. CASE Relay(i)
    BY <2>0, <2>2 DEF Relay, NextRecord
  <2>3. CASE OutboxBreaks(i)
    <3>1. {} \in SUBSET Events
      OBVIOUS
    <3> QED
      BY <2>0, <2>3, <3>1 DEF OutboxBreaks
  <2> QED
    BY <2>1, <2>2, <2>3 DEF ProcessBatch
<1>3. UNCHANGED <<hand, full, saved, txVars, orphans, hookVars>>
  BY DEF ProcessBatch, ReadBatch, Relay, OutboxBreaks, eventVars
<1> QED
  BY <1>1, <1>2, <1>3 DEF TypeOK, txVars, hookVars, AllLocations

\* The loop of a worker.
LEMMA RunTypes ==
    ASSUME TypeOK, BusTypeOK', NEW i \in Instances, NEW k \in Kinds, RunWorker(i, k)
    PROVE  TypeOK'
<1>1. CASE WakeUp(i, k) \/ Poll(i, k) \/ Exit(i, k)
  <2>1. worker' \in [Instances -> [Kinds -> AllLocations]]
    BY <1>1, BecomesTypes DEF WakeUp, Poll, Exit, AllLocations, QueueLocations
  <2>2. full' \in [Instances -> SUBSET Notifiers]
    BY <1>1 DEF WakeUp, Poll, Exit, TypeOK
  <2>3. UNCHANGED <<hand, batch, eventVars, txVars, orphans, hookVars>>
    BY <1>1 DEF WakeUp, Poll, Exit
  <2> QED
    BY <2>1, <2>2, <2>3 DEF TypeOK, eventVars, txVars, hookVars, AllLocations
<1> QED
  BY <1>1, ProcessNextTypes, ProcessBatchTypes DEF RunWorker

\* RunSQLWorkers, stops and crashes.
LEMMA HookTypes ==
    ASSUME TypeOK, BusTypeOK', NEW i \in Instances,
           Hook(i) \/ StopQueueWorker(i) \/ Crash(i)
    PROVE  TypeOK'
<1>0. /\ {"queue", "outbox"} = Kinds /\ {"off", "work"} \subseteq AllLocations
      /\ {"down", "starting", "running", "failed", "stopQueue", "stopOutbox"} = Stages
  BY DEF Kinds, Stages, AllLocations, QueueLocations
<1>1. ASSUME NEW to \in Stages, Advance(i, to) PROVE stage' \in [Instances -> Stages]
  BY <1>1 DEF Advance, TypeOK
<1>2. CASE StartQueueWorker(i) \/ StartOutboxWorker(i)
  <2>1. worker' \in [Instances -> [Kinds -> AllLocations]]
    <3>1. worker \in [Instances -> [Kinds -> AllLocations]]
      BY DEF TypeOK, AllLocations
    <3> QED
      BY <1>0, <1>2, <3>1, BecomesTypes DEF StartQueueWorker, StartOutboxWorker
  <2>2. stage' \in [Instances -> Stages]
    BY <1>0, <1>1, <1>2 DEF StartQueueWorker, StartOutboxWorker
  <2>3. UNCHANGED <<hand, batch, full, eventVars, txVars, orphans, config, outages>>
    BY <1>2 DEF StartQueueWorker, StartOutboxWorker
  <2> QED
    BY <2>1, <2>2, <2>3 DEF TypeOK, eventVars, txVars, AllLocations
<1>3. CASE StopQueueWorker(i) \/ StopOutboxWorker(i)
  <2>1. stage' \in [Instances -> Stages]
    BY <1>0, <1>1, <1>3 DEF StopQueueWorker, StopOutboxWorker
  <2>2. outages' \in Nat
    BY <1>3 DEF StopQueueWorker, StopOutboxWorker, Outage, TypeOK
  <2>3. UNCHANGED <<workVars, full, eventVars, txVars, orphans, config>>
    BY <1>3 DEF StopQueueWorker, StopOutboxWorker
  <2> QED
    BY <2>1, <2>2, <2>3 DEF TypeOK, workVars, eventVars, txVars
<1>4. CASE Stopped(i) \/ Crash(i)
  <2>1. ProcessEnds(i) /\ (UNCHANGED outages \/ Outage(i))
    BY <1>4 DEF Stopped, Crash
  <2>2. worker' \in [Instances -> [Kinds -> AllLocations]]
    <3>1. worker' = [worker EXCEPT ![i] = [k \in Kinds |-> "off"]]
      BY <2>1 DEF ProcessEnds
    <3>2. [k \in Kinds |-> "off"] \in [Kinds -> AllLocations]
      BY <1>0
    <3>3. worker \in [Instances -> [Kinds -> AllLocations]]
      BY DEF TypeOK, AllLocations
    <3> QED
      BY <3>1, <3>2, <3>3
  <2>3. stage' \in [Instances -> Stages]
    BY <1>0, <1>1, <2>1 DEF ProcessEnds
  <2>4. hand' \in [Instances -> Hands] /\ orphans' \in SUBSET Rows
    <3>1. hand' \in [Instances -> Hands]
      BY <2>1, PutDownTypes DEF ProcessEnds
    <3>2. hand[i] \subseteq Rows
      BY DEF TypeOK, Hands
    <3> QED
      BY <2>1, <3>1, <3>2 DEF ProcessEnds, TypeOK
  <2>5. /\ batch' \in [Instances -> SUBSET Events]
        /\ full' \in [Instances -> SUBSET Notifiers]
        /\ hooks' \in [Instances -> Nat]
        /\ open' \in [Instances -> Nat]
    BY <2>1 DEF ProcessEnds, TypeOK
  <2>6. outages' \in Nat
    BY <2>1 DEF Outage, TypeOK
  <2>7. UNCHANGED <<eventVars, external, config>>
    BY <2>1 DEF ProcessEnds
  <2> QED
    BY <2>2, <2>3, <2>4, <2>5, <2>6, <2>7 DEF TypeOK, eventVars, AllLocations
<1> QED
  BY <1>2, <1>3, <1>4 DEF Hook

LEMMA AppNextTypes == TypeOK /\ [Next]_vars => TypeOK'
<1> SUFFICES ASSUME TypeOK, [Next]_vars PROVE TypeOK'
  OBVIOUS
<1>0. BusTypeOK'
  BY BusOfNext, NextTypes DEF TypeOK
<1>1. ASSUME UNCHANGED appVars PROVE TypeOK'
  BY <1>0, <1>1 DEF TypeOK, appVars, workVars, eventVars, txVars, hookVars
<1>2. ASSUME NEW s \in Senders, BusStep(s) PROVE TypeOK'
  BY <1>1, <1>2 DEF BusStep
<1>3. ASSUME NEW s \in Senders, SignalCommand(s) PROVE TypeOK'
  <2> DEFINE i == InstanceOf[s]
  <2>1. i \in Instances /\ "queue" \in Kinds
    BY SendersAssumption DEF Kinds
  <2>2. (IF config[i].wakeup THEN {CommandBusNotifier(i)} ELSE {}) \in SUBSET Notifiers
    BY <2>1, NotifierTypes
  <2>3. full' \in [Instances -> SUBSET Notifiers]
    BY <1>3, <2>1, <2>2, SignalTypes DEF SignalCommand
  <2>4. UNCHANGED <<workVars, eventVars, txVars, orphans, hookVars>>
    BY <1>3 DEF SignalCommand
  <2> QED
    BY <1>0, <2>3, <2>4 DEF TypeOK, workVars, eventVars, txVars, hookVars
<1>4. CASE UNCHANGED vars
  BY <1>1, <1>4 DEF vars
<1> QED
  BY <1>0, <1>1, <1>2, <1>3, <1>4, TransactTypes, RunTypes, HookTypes DEF Next

\* Every variable of the application keeps its type.
THEOREM AppTyping == Spec => []TypeOK
BY AppInitTypes, AppNextTypes, PTL DEF Spec

-----------------------------------------------------------------------------
(* Starting and stopping.                                                  *)

\* What holds of a process at stage g with configuration c, its workers at q and o.
Orderly(g, q, o, c) ==
    /\ g = "starting" => c.deps /\ o = "off"
    /\ q # "off" => \/ g \in {"starting", "running", "stopQueue"}
                    \/ g = "failed" /\ c.deps /\ c.outbox = "incomplete"
    /\ o # "off" => g \in {"running", "stopQueue", "stopOutbox"}
    /\ g \in {"running", "stopQueue"} /\ c.outbox = "ok" /\ q # "off" => o # "off"

OrderAt(i) == Orderly(stage[i], worker[i]["queue"], worker[i]["outbox"], config[i])

LifecycleInv == TypeOK /\ \A i \in Instances : OrderAt(i)

LEMMA LifecycleInit == Init => LifecycleInv
BY AppInitTypes DEF Init, LifecycleInv, OrderAt, Orderly, Kinds

\* A worker that runs goes on running, unless it exits; one that is off stays so.
LEMMA WorkerSteps ==
    ASSUME TypeOK, NEW i \in Instances, NEW k \in Kinds,
           RunWorker(i, k), ~Exit(i, k)
    PROVE  /\ UNCHANGED <<stage, config>>
           /\ \A j \in Instances : \A l \in Kinds :
                 worker[j][l] = "off" <=> worker'[j][l] = "off"
<1>1. UNCHANGED <<stage, config>>
  BY DEF RunWorker, ProcessNext, Fetch, FetchNothing, Commit, RunCommandHook, NotifyOutbox,
     HandlerFails, RecordFailure, QueueBreaks, ProcessBatch, ReadBatch, Relay, OutboxBreaks,
     WakeUp, Poll, hookVars
<1>2. worker[i][k] # "off"
  BY DEF RunWorker, ProcessNext, Fetch, FetchNothing, Commit, RunCommandHook, NotifyOutbox,
     HandlerFails, RecordFailure, QueueBreaks, ProcessBatch, ReadBatch, Relay, OutboxBreaks,
     WakeUp, Poll
<1>3. worker' = worker \/ \E to \in AllLocations \ {"off"} : Becomes(i, k, to)
  BY DEF RunWorker, ProcessNext, Fetch, FetchNothing, Commit, RunCommandHook, NotifyOutbox,
     HandlerFails, RecordFailure, QueueBreaks, ProcessBatch, ReadBatch, Relay, NextRecord,
     OutboxBreaks, WakeUp, Poll, GoesOn, AllLocations, QueueLocations, OutboxLocations
<1> QED
  BY <1>1, <1>2, <1>3 DEF TypeOK, Becomes

LEMMA LifecycleNext == LifecycleInv /\ [Next]_vars => LifecycleInv'
<1> SUFFICES ASSUME LifecycleInv, [Next]_vars, NEW j \in Instances PROVE OrderAt(j)'
  BY AppNextTypes DEF LifecycleInv
<1>0. TypeOK /\ OrderAt(j) /\ "queue" \in Kinds /\ "outbox" \in Kinds
  BY DEF LifecycleInv, Kinds
<1>1. ASSUME UNCHANGED <<stage, config>>,
             \A l \in Kinds : worker[j][l] = "off" <=> worker'[j][l] = "off"
      PROVE  OrderAt(j)'
  <2>1. /\ worker[j]["queue"] = "off" <=> worker'[j]["queue"] = "off"
        /\ worker[j]["outbox"] = "off" <=> worker'[j]["outbox"] = "off"
    BY <1>0, <1>1
  <2>2. stage'[j] = stage[j] /\ config'[j] = config[j]
    BY <1>1
  <2> QED
    BY <1>0, <2>1, <2>2 DEF OrderAt, Orderly
<1>2. ASSUME NEW s \in Senders, BusStep(s) \/ SignalCommand(s) PROVE OrderAt(j)'
  BY <1>1, <1>2 DEF BusStep, SignalCommand, appVars, workVars, hookVars
<1>3. ASSUME NEW i \in Instances,
             (Expire(i) /\ UNCHANGED appVars) \/ Transact(i)
      PROVE  OrderAt(j)'
  BY <1>1, <1>3 DEF Transact, CommitManaged, RunHook, PublishManually, EndManual, appVars,
     workVars, hookVars
<1>4. ASSUME NEW i \in Instances, NEW k \in Kinds,
             RunWorker(i, k), ~Exit(i, k)
      PROVE  OrderAt(j)'
  <2>1. /\ UNCHANGED <<stage, config>>
        /\ \A l \in Kinds : worker[j][l] = "off" <=> worker'[j][l] = "off"
    BY <1>0, <1>4, WorkerSteps
  <2> QED
    BY <1>1, <2>1
\* What the remaining actions do to the process they are not about: nothing.
<1>5. ASSUME NEW i \in Instances, i # j, UNCHANGED config,
             stage' = stage \/ \E to \in Stages : Advance(i, to),
             \/ worker' = worker
             \/ \E k \in Kinds : \E to \in {"off", "work", "idle"} : Becomes(i, k, to)
             \/ worker' = [worker EXCEPT ![i] = [k \in Kinds |-> "off"]]
      PROVE  OrderAt(j)'
  <2>1. stage'[j] = stage[j]
    BY <1>0, <1>5 DEF TypeOK, Advance
  <2>2. worker'[j] = worker[j]
    BY <1>0, <1>5 DEF TypeOK, Becomes
  <2> QED
    BY <1>0, <1>5, <2>1, <2>2 DEF OrderAt
<1>6. ASSUME NEW i \in Instances, NEW k \in Kinds, Exit(i, k) PROVE OrderAt(j)'
  <2>1. CASE i # j
    BY <1>5, <1>6, <2>1 DEF Exit, hookVars
  <2>2. CASE i = j /\ k = "queue"
    <3>1. /\ worker'[j]["queue"] = "off" /\ worker'[j]["outbox"] = worker[j]["outbox"]
          /\ UNCHANGED <<stage, config>> /\ stage[j] = "stopQueue"
      BY <1>0, <1>6, <2>2 DEF Exit, Becomes, Stopping, TypeOK, hookVars
    <3> QED
      BY <1>0, <3>1 DEF OrderAt, Orderly
  <2>3. CASE i = j /\ k = "outbox"
    <3>1. /\ worker'[j]["outbox"] = "off" /\ worker'[j]["queue"] = worker[j]["queue"]
          /\ UNCHANGED <<stage, config>> /\ stage[j] = "stopOutbox"
      BY <1>0, <1>6, <2>3 DEF Exit, Becomes, Stopping, TypeOK, hookVars
    <3> QED
      BY <1>0, <3>1 DEF OrderAt, Orderly
  <2> QED
    BY <2>1, <2>2, <2>3 DEF Kinds
<1>7. ASSUME NEW i \in Instances, StartQueueWorker(i) PROVE OrderAt(j)'
  <2>1. CASE i # j
    BY <1>0, <1>5, <1>7, <2>1 DEF StartQueueWorker, Stages
  <2>2. CASE i = j
    <3>1. /\ UNCHANGED config /\ stage[j] = "down"
          /\ worker'[j]["outbox"] = worker[j]["outbox"]
          /\ \/ config[j].deps /\ stage'[j] = "starting"
             \/ stage'[j] = "failed" /\ worker'[j]["queue"] = worker[j]["queue"]
      BY <1>0, <1>7, <2>2 DEF StartQueueWorker, Advance, Becomes, TypeOK
    <3> QED
      BY <1>0, <3>1 DEF OrderAt, Orderly
  <2> QED
    BY <2>1, <2>2
<1>8. ASSUME NEW i \in Instances, StartOutboxWorker(i) PROVE OrderAt(j)'
  <2>1. CASE i # j
    BY <1>0, <1>5, <1>8, <2>1 DEF StartOutboxWorker, Stages
  <2>2. CASE i = j
    <3>1. /\ UNCHANGED config /\ stage[j] = "starting"
          /\ worker'[j]["queue"] = worker[j]["queue"]
          /\ \/ /\ config[j].outbox = "none" /\ stage'[j] = "running"
                /\ worker'[j]["outbox"] = worker[j]["outbox"]
             \/ /\ config[j].outbox = "ok" /\ stage'[j] = "running"
                /\ worker'[j]["outbox"] = "work"
             \/ /\ config[j].outbox \notin {"none", "ok"} /\ stage'[j] = "failed"
                /\ worker'[j]["outbox"] = worker[j]["outbox"]
      BY <1>0, <1>8, <2>2 DEF StartOutboxWorker, Advance, Becomes, TypeOK
    <3>2. config[j] \in AllConfigs
      BY <1>0, ConfigsAssumption DEF TypeOK
    <3>3. config[j].outbox \notin {"none", "ok"} => config[j].outbox = "incomplete"
      BY <3>2 DEF AllConfigs
    <3> QED
      BY <1>0, <3>1, <3>3 DEF OrderAt, Orderly
  <2> QED
    BY <2>1, <2>2
<1>9. ASSUME NEW i \in Instances, StopQueueWorker(i) \/ StopOutboxWorker(i)
      PROVE  OrderAt(j)'
  <2>1. CASE i # j
    BY <1>5, <1>9, <2>1 DEF StopQueueWorker, StopOutboxWorker, Stages, workVars
  <2>2. CASE i = j
    <3>1. /\ UNCHANGED <<config, worker>>
          /\ \/ stage[j] = "running" /\ stage'[j] = "stopQueue"
             \/ /\ stage[j] = "stopQueue" /\ stage'[j] = "stopOutbox"
                /\ worker[j]["queue"] = "off"
      BY <1>0, <1>9, <2>2 DEF StopQueueWorker, StopOutboxWorker, Advance, TypeOK, workVars
    <3> QED
      BY <1>0, <3>1 DEF OrderAt, Orderly
  <2> QED
    BY <2>1, <2>2
<1>10. ASSUME NEW i \in Instances, Stopped(i) \/ Crash(i) PROVE OrderAt(j)'
  <2>1. CASE i # j
    BY <1>5, <1>10, <2>1 DEF Stopped, Crash, ProcessEnds, Stages
  <2>2. CASE i = j
    <3>1. /\ stage'[j] = "down"
          /\ worker'[j]["queue"] = "off" /\ worker'[j]["outbox"] = "off"
      BY <1>0, <1>10, <2>2 DEF Stopped, Crash, ProcessEnds, Advance, TypeOK
    <3> QED
      BY <3>1 DEF OrderAt, Orderly
  <2> QED
    BY <2>1, <2>2
<1>11. CASE UNCHANGED vars
  BY <1>1, <1>11 DEF vars, appVars, workVars, hookVars
<1> QED
  BY <1>2, <1>3, <1>4, <1>6, <1>7, <1>8, <1>9, <1>10, <1>11 DEF Next, Hook

LEMMA OrderSuffices == LifecycleInv => NoStrayWorker /\ OutboxOutlivesQueue
<1> SUFFICES ASSUME LifecycleInv PROVE NoStrayWorker /\ OutboxOutlivesQueue
  OBVIOUS
<1>1. \A i \in Instances : OrderAt(i) /\ stage[i] \in Stages
  BY DEF LifecycleInv, TypeOK
<1>2. NoStrayWorker
  BY <1>1 DEF OrderAt, Orderly, NoStrayWorker, HalfStarted, Kinds
<1>3. OutboxOutlivesQueue
  BY <1>1 DEF OrderAt, Orderly, OutboxOutlivesQueue, Stages
<1> QED
  BY <1>2, <1>3

\* The invariant of the Fx hook.
THEOREM Lifecycle == Spec => []LifecycleInv
BY LifecycleInit, LifecycleNext, PTL DEF Spec

\* No worker runs that OnStop has passed by, but for that of a half-started process.
THEOREM StrayWorkers == Spec => []NoStrayWorker
BY Lifecycle, OrderSuffices, PTL

\* The queue worker's events have an outbox worker until it has stopped.
THEOREM OutboxLast == Spec => []OutboxOutlivesQueue
BY Lifecycle, OrderSuffices, PTL

-----------------------------------------------------------------------------
(* Wake-ups: what holds between two steps.                                 *)

\* The senders of a process that have written a row and have not signalled it.
Heralds(i) == At(i, {"count", "notify"})

\* A process whose queue worker sleeps has no command that nobody attends to,
\* unless it is about to signal one.
CommandsHeard(i) ==
    config[i].wakeup /\ Asleep(i, "queue") /\ Unattended(i) # {} => Heralds(i) # {}

\* An announced record is about to be signalled, or signalled; or its outbox worker
\* has yet to read the table, or has the record in its last batch.
EventHeard(i, e) ==
    \/ AboutToNotify(i)
    \/ WorkerNotifier(i, "outbox") \in full[i]
    \/ worker[i]["outbox"] \in {"off", "work", "batch"}
    \/ worker[i]["outbox"] = "last" /\ e \in batch[i]
    \/ Stopping(i, "outbox")

EventsHeard(i) == \A e \in Announced(i) : EventHeard(i, e)

\* Between two commands a worker has none in hand.
HandsInv ==
    \A i \in Instances : hand[i] # {} => worker[i]["queue"] \in {"execute", "record"}

WakeUpInv ==
    /\ LifecycleInv
    /\ HandsInv
    /\ failures = 0 => \A i \in Instances : CommandsHeard(i) /\ EventsHeard(i)

-----------------------------------------------------------------------------
(* What a step of one process leaves alone.                                *)

StepOf(i) ==
    \/ \E s \in SendersOf(i) : BusStep(s) \/ SignalCommand(s)
    \/ Expire(i) /\ UNCHANGED appVars
    \/ Transact(i)
    \/ \E k \in Kinds : RunWorker(i, k)
    \/ Hook(i) \/ StopQueueWorker(i) \/ Crash(i)

LEMMA StepOfNext == Next => \E i \in Instances : StepOf(i)
<1> SUFFICES ASSUME Next PROVE \E i \in Instances : StepOf(i)
  OBVIOUS
<1>1. ASSUME NEW s \in Senders, BusStep(s) \/ SignalCommand(s)
      PROVE  \E i \in Instances : StepOf(i)
  BY <1>1, SendersAssumption DEF StepOf, SendersOf
<1> QED
  BY <1>1 DEF Next, StepOf

LEMMA ConfigStays == [Next]_vars => config' = config
<1>1. ASSUME NEW s \in Senders, BusStep(s) \/ SignalCommand(s) PROVE config' = config
  BY <1>1 DEF BusStep, SignalCommand, appVars, hookVars
<1>2. ASSUME NEW i \in Instances, (Expire(i) /\ UNCHANGED appVars) \/ Transact(i)
      PROVE  config' = config
  BY <1>2 DEF Transact, CommitManaged, RunHook, PublishManually, EndManual, appVars, hookVars
<1>3. ASSUME NEW i \in Instances, NEW k \in Kinds, RunWorker(i, k) PROVE config' = config
  BY <1>3 DEF RunWorker, ProcessNext, Fetch, FetchNothing, Commit, RunCommandHook,
     NotifyOutbox, HandlerFails, RecordFailure, QueueBreaks, ProcessBatch, ReadBatch, Relay,
     OutboxBreaks, WakeUp, Poll, Exit, hookVars
<1>4. ASSUME NEW i \in Instances, Hook(i) \/ StopQueueWorker(i) \/ Crash(i)
      PROVE  config' = config
  BY <1>4 DEF Hook, StartQueueWorker, StartOutboxWorker, StopQueueWorker, StopOutboxWorker,
     Stopped, Crash, ProcessEnds
<1> QED
  BY <1>1, <1>2, <1>3, <1>4 DEF Next, vars, appVars, hookVars

LEMMA FailuresStay == TypeOK /\ [Next]_vars /\ failures' = 0 => failures = 0
<1> SUFFICES ASSUME TypeOK, [Next]_vars, failures' = 0 PROVE failures = 0
  OBVIOUS
<1>1. [BusNext]_busVars /\ failures \in Nat
  BY BusOfNext, LimitAssumption DEF TypeOK, BusTypeOK
<1>2. failures' = failures \/ failures' = failures + 1
  BY <1>1 DEF BusNext, busVars, Send, Retry, Check, Lead, Follow, CountPending, CountFails,
     StoreCount, Finish, Submit, Insert, InsertFails, InsertAnswerLost, Increment,
     Notify, Expire, BusEnds, WorkerFails, CommandExecuted, ConnectionFails
<1> QED
  BY <1>1, <1>2

\* The steps of a worker change what is its own, and its process's.
LEMMA RunsAlone ==
    ASSUME TypeOK, NEW j \in Instances, NEW k \in Kinds, RunWorker(j, k)
    PROVE  /\ UNCHANGED <<stage, hooks, open, external>>
           /\ worker' = worker \/ \E to \in AllLocations : Becomes(j, k, to)
           /\ \A i \in Instances \ {j} :
                 UNCHANGED <<worker[i], hand[i], batch[i], full[i]>>
           /\ \A e \in events' \ events : e.from = j
<1>1. UNCHANGED <<stage, hooks, open, external>>
  BY DEF RunWorker, ProcessNext, Fetch, FetchNothing, Commit, RunCommandHook, NotifyOutbox,
     HandlerFails, RecordFailure, QueueBreaks, ProcessBatch, ReadBatch, Relay, OutboxBreaks,
     WakeUp, Poll, Exit, hookVars, txVars
<1>2. worker' = worker \/ \E to \in AllLocations : Becomes(j, k, to)
  BY DEF RunWorker, ProcessNext, Fetch, FetchNothing, Commit, RunCommandHook, NotifyOutbox,
     HandlerFails, RecordFailure, QueueBreaks, ProcessBatch, ReadBatch, Relay, NextRecord,
     OutboxBreaks, WakeUp, Poll, Exit, GoesOn, AllLocations, QueueLocations, OutboxLocations
<1>3. ASSUME NEW i \in Instances \ {j}
      PROVE  UNCHANGED <<worker[i], hand[i], batch[i], full[i]>>
  <2>1. worker'[i] = worker[i]
    BY <1>2 DEF Becomes, TypeOK
  <2>2. hand'[i] = hand[i]
    BY DEF RunWorker, ProcessNext, Fetch, FetchNothing, Commit, RunCommandHook, NotifyOutbox,
       HandlerFails, RecordFailure, QueueBreaks, ProcessBatch, ReadBatch, Relay, OutboxBreaks,
       WakeUp, Poll, Exit, PutDown, TypeOK
  <2>3. batch'[i] = batch[i]
    BY DEF RunWorker, ProcessNext, Fetch, FetchNothing, Commit, RunCommandHook, NotifyOutbox,
       HandlerFails, RecordFailure, QueueBreaks, ProcessBatch, ReadBatch, Relay, NextRecord,
       OutboxBreaks, WakeUp, Poll, Exit, TypeOK
  <2>4. full'[i] = full[i]
    BY DEF RunWorker, ProcessNext, Fetch, FetchNothing, Commit, RunCommandHook, NotifyOutbox,
       HandlerFails, RecordFailure, QueueBreaks, ProcessBatch, ReadBatch, Relay, OutboxBreaks,
       WakeUp, Poll, Exit, Signal, TypeOK
  <2> QED
    BY <2>1, <2>2, <2>3, <2>4
<1>4. events' \subseteq events \/ SaveEvent(j, FALSE)
  BY DEF RunWorker, ProcessNext, Fetch, FetchNothing, Commit, RunCommandHook, NotifyOutbox,
     HandlerFails, RecordFailure, QueueBreaks, ProcessBatch, ReadBatch, Relay, OutboxBreaks,
     WakeUp, Poll, Exit, eventVars
<1> QED
  BY <1>1, <1>2, <1>3, <1>4 DEF SaveEvent

\* So does everything else a process does.
LEMMA Alone ==
    ASSUME TypeOK, NEW j \in Instances, StepOf(j), NEW i \in Instances, i # j
    PROVE  /\ UNCHANGED <<worker[i], hand[i], batch[i], full[i], hooks[i], stage[i]>>
           /\ Announced(i)' \subseteq Announced(i)
<1>1. ASSUME UNCHANGED <<worker[i], hand[i], batch[i], full[i], hooks[i], stage[i]>>,
             \A e \in events' \ events : e.from = j
      PROVE  /\ UNCHANGED <<worker[i], hand[i], batch[i], full[i], hooks[i], stage[i]>>
             /\ Announced(i)' \subseteq Announced(i)
  BY <1>1 DEF Announced
<1>2. CASE \E s \in SendersOf(j) : BusStep(s) \/ SignalCommand(s)
  BY <1>1, <1>2 DEF BusStep, SignalCommand, Signal, SendersOf, appVars, workVars, eventVars,
     txVars, hookVars, TypeOK
<1>3. CASE Expire(j) /\ UNCHANGED appVars
  BY <1>1, <1>3 DEF appVars, workVars, eventVars, txVars, hookVars
<1>4. CASE Transact(j)
  <2>1. UNCHANGED <<worker[i], hand[i], batch[i], full[i], hooks[i], stage[i]>>
    BY <1>4 DEF Transact, CommitManaged, RunHook, PublishManually, EndManual, Signal,
       workVars, hookVars, TypeOK
  <2>2. UNCHANGED events \/ \E late \in BOOLEAN : SaveEvent(j, late)
    BY <1>4 DEF Transact, CommitManaged, RunHook, PublishManually, EndManual, eventVars
  <2> QED
    BY <1>1, <2>1, <2>2 DEF SaveEvent
<1>5. CASE \E k \in Kinds : RunWorker(j, k)
  BY <1>1, <1>5, RunsAlone
<1>6. CASE Hook(j) \/ StopQueueWorker(j) \/ Crash(j)
  BY <1>1, <1>6 DEF Hook, StartQueueWorker, StartOutboxWorker, StopQueueWorker,
     StopOutboxWorker, Stopped, Crash, ProcessEnds, PutDown, Advance, Becomes, workVars,
     eventVars, txVars, TypeOK
<1> QED
  BY <1>2, <1>3, <1>4, <1>5, <1>6 DEF StepOf

-----------------------------------------------------------------------------
(* What workers have in hand.                                              *)

LEMMA HandsStep == LifecycleInv /\ HandsInv /\ [Next]_vars => HandsInv'
<1> SUFFICES ASSUME LifecycleInv, HandsInv, [Next]_vars, NEW i \in Instances,
                    hand'[i] # {}
             PROVE  worker'[i]["queue"] \in {"execute", "record"}
  BY DEF HandsInv
<1>0. /\ TypeOK /\ OrderAt(i) /\ {"queue", "outbox"} = Kinds
      /\ hand[i] # {} => worker[i]["queue"] \in {"execute", "record"}
  BY DEF LifecycleInv, HandsInv, Kinds
<1>1. ASSUME hand'[i] = hand[i], worker'[i]["queue"] = worker[i]["queue"]
      PROVE  worker'[i]["queue"] \in {"execute", "record"}
  BY <1>0, <1>1
<1>2. CASE UNCHANGED workVars
  BY <1>1, <1>2 DEF workVars
<1>3. ASSUME NEW j \in Instances, j # i, StepOf(j)
      PROVE  worker'[i]["queue"] \in {"execute", "record"}
  BY <1>0, <1>1, <1>3, Alone
<1>4. ASSUME StepOf(i), ~UNCHANGED workVars
      PROVE  worker'[i]["queue"] \in {"execute", "record"}
  <2>1. ~\E s \in SendersOf(i) : BusStep(s) \/ SignalCommand(s)
    BY <1>4 DEF BusStep, SignalCommand, appVars
  <2>2. ~(Expire(i) /\ UNCHANGED appVars) /\ ~Transact(i)
    BY <1>4 DEF appVars, Transact, CommitManaged, RunHook, PublishManually, EndManual
  <2>3. CASE ProcessNext(i)
    <3>1. CASE Fetch(i) \/ HandlerFails(i)
      BY <1>0, <3>1 DEF Fetch, HandlerFails, Becomes, TypeOK
    <3>2. CASE PutDown(i)
      BY <1>0, <3>2 DEF PutDown, TypeOK
    <3>3. CASE FetchNothing(i) \/ RunCommandHook(i) \/ NotifyOutbox(i)
      BY <1>0, <3>3 DEF FetchNothing, RunCommandHook, NotifyOutbox
    <3> QED
      BY <2>3, <3>1, <3>2, <3>3 DEF ProcessNext, Commit, RecordFailure, QueueBreaks
  <2>4. CASE ProcessBatch(i)
    <3>1. /\ hand' = hand
          /\ worker' = worker \/ \E to \in AllLocations : Becomes(i, "outbox", to)
      BY <2>4 DEF ProcessBatch, ReadBatch, Relay, NextRecord, OutboxBreaks, GoesOn,
         AllLocations, QueueLocations, OutboxLocations
    <3> QED
      BY <1>0, <1>1, <3>1 DEF Becomes, TypeOK
  <2>5. ASSUME NEW k \in Kinds, WakeUp(i, k) \/ Poll(i, k) \/ Exit(i, k)
        PROVE  worker'[i]["queue"] \in {"execute", "record"}
    <3>1. /\ hand' = hand /\ worker[i][k] = "idle"
          /\ \E to \in AllLocations : Becomes(i, k, to)
      BY <2>5 DEF WakeUp, Poll, Exit, GoesOn, AllLocations, QueueLocations
    <3> QED
      BY <1>0, <1>1, <3>1 DEF Becomes, TypeOK
  <2>6. CASE StartQueueWorker(i) \/ StartOutboxWorker(i)
    <3>1. CASE worker'[i]["queue"] = worker[i]["queue"]
      BY <1>1, <2>6, <3>1 DEF StartQueueWorker, StartOutboxWorker
    <3>2. CASE worker'[i]["queue"] # worker[i]["queue"]
      <4>1. StartQueueWorker(i)
        BY <1>0, <2>6, <3>2 DEF StartOutboxWorker, Becomes, TypeOK
      <4>2. worker[i]["queue"] = "off"
        BY <1>0, <4>1 DEF StartQueueWorker, OrderAt, Orderly
      <4> QED
        BY <1>0, <4>1, <4>2 DEF StartQueueWorker
    <3> QED
      BY <3>1, <3>2
  <2>7. CASE StopQueueWorker(i) \/ StopOutboxWorker(i)
    BY <1>4, <2>7 DEF StopQueueWorker, StopOutboxWorker
  <2>8. CASE Stopped(i) \/ Crash(i)
    BY <1>0, <2>8 DEF Stopped, Crash, ProcessEnds, PutDown, TypeOK
  <2> QED
    BY <1>4, <2>1, <2>2, <2>3, <2>4, <2>5, <2>6, <2>7, <2>8 DEF StepOf, RunWorker, Hook
<1> QED
  BY <1>2, <1>3, <1>4, StepOfNext DEF vars, appVars

-----------------------------------------------------------------------------
(* Signals of commands.                                                    *)

\* A queue worker falls asleep only when there is no row it could lock: a signal that
\* arrives stays, and whoever takes one goes to work.
LEMMA FallsAsleep ==
    ASSUME TypeOK, [Next]_vars, failures' = 0, NEW i \in Instances,
           Asleep(i, "queue")', ~Asleep(i, "queue")
    PROVE  FetchNothing(i)
<1>0. /\ worker'[i]["queue"] = "idle" /\ ~Stopping(i, "queue")'
      /\ WorkerNotifier(i, "queue") \notin full'[i]
      /\ failures \in Nat /\ failures = 0 /\ {"queue", "outbox"} = Kinds
      /\ worker \in [Instances -> [Kinds -> AllLocations]]
  <2>1. failures \in Nat /\ failures = 0
    BY FailuresStay, LimitAssumption DEF TypeOK, BusTypeOK
  <2>2. WorkerNotifier(i, "queue")' = WorkerNotifier(i, "queue")
    BY ConfigStays DEF WorkerNotifier, Chosen
  <2>3. worker \in [Instances -> [Kinds -> AllLocations]]
    BY DEF TypeOK, AllLocations
  <2> QED
    BY <2>1, <2>2, <2>3 DEF Asleep, Kinds
\* A step that leaves the worker, its process and its signals be does not do it.
<1>1. ASSUME worker'[i]["queue"] = worker[i]["queue"], stage'[i] = stage[i],
             full[i] \subseteq full'[i]
      PROVE  FALSE
  BY <1>0, <1>1 DEF Asleep, Stopping
<1>2. ASSUME NEW j \in Instances, j # i, StepOf(j) PROVE FALSE
  BY <1>1, <1>2, Alone
<1>3. CASE UNCHANGED vars
  BY <1>1, <1>3 DEF vars, appVars, workVars, hookVars
<1>4. ASSUME StepOf(i) PROVE FetchNothing(i)
  <2>1. ASSUME NEW s \in SendersOf(i), BusStep(s) \/ SignalCommand(s) PROVE FALSE
    BY <1>1, <2>1 DEF BusStep, SignalCommand, Signal, appVars, workVars, hookVars, TypeOK
  <2>2. (Expire(i) /\ UNCHANGED appVars) \/ Transact(i) => FALSE
    BY <1>1 DEF Transact, CommitManaged, RunHook, PublishManually, EndManual, Signal,
       appVars, workVars, hookVars, TypeOK
  <2>3. CASE \E k \in Kinds : RunWorker(i, k)
    <3>1. stage' = stage
      BY <2>3, RunsAlone
    <3>2. ~GoesOn(i, "queue")
      BY <1>0, <3>1 DEF GoesOn, Becomes, Stopping
    <3>3. ASSUME NEW to \in AllLocations \ {"idle"} PROVE ~Becomes(i, "queue", to)
      BY <1>0 DEF Becomes
    <3>4. ~CallFails(i)
      BY <1>0 DEF CallFails, WorkerFails, ConnectionFails
    <3>5. CASE ProcessNext(i)
      <4>1. ~Fetch(i) /\ ~RunCommandHook(i) /\ ~HandlerFails(i)
        BY <3>3 DEF Fetch, RunCommandHook, HandlerFails, AllLocations, QueueLocations
      <4>2. ~NotifyOutbox(i) /\ ~RecordFailure(i) /\ ~QueueBreaks(i)
        BY <3>2, <3>4 DEF NotifyOutbox, RecordFailure, QueueBreaks
      <4>3. ~Commit(i)
        <5>1. Commit(i) => Becomes(i, "queue", "hooks") \/ Becomes(i, "queue", "notify")
          BY <1>0 DEF Commit
        <5> QED
          BY <3>3, <5>1 DEF AllLocations, QueueLocations
      <4> QED
        BY <3>5, <4>1, <4>2, <4>3 DEF ProcessNext
    <3>6. ASSUME ProcessBatch(i) \/ \E k \in Kinds : Poll(i, k) \/ Exit(i, k) PROVE FALSE
      <4>1. full' = full
        BY <3>6 DEF ProcessBatch, ReadBatch, Relay, OutboxBreaks, Poll, Exit
      <4>2. worker' = worker \/ \E to \in AllLocations : Becomes(i, "outbox", to)
            \/ GoesOn(i, "queue") \/ Becomes(i, "queue", "off")
        BY <1>0, <3>6 DEF ProcessBatch, ReadBatch, Relay, NextRecord, OutboxBreaks, Poll, Exit,
           GoesOn, AllLocations, QueueLocations, OutboxLocations
      <4>3. worker'[i]["queue"] = worker[i]["queue"]
        BY <1>0, <3>2, <3>3, <4>2 DEF Becomes, AllLocations, QueueLocations
      <4> QED
        BY <1>1, <3>1, <4>1, <4>3
    <3>7. ASSUME NEW k \in Kinds, WakeUp(i, k) PROVE FALSE
      <4>1. CASE k = "queue"
        BY <3>2, <3>7, <4>1 DEF WakeUp
      <4>2. CASE k = "outbox"
        <5>1. worker'[i]["queue"] = worker[i]["queue"]
          BY <1>0, <3>7, <4>2 DEF WakeUp, GoesOn, Becomes
        <5>2. full'[i] = full[i] \ {WorkerNotifier(i, "outbox")}
          BY <3>7, <4>2 DEF WakeUp, TypeOK
        <5>3. WorkerNotifier(i, "outbox") # WorkerNotifier(i, "queue")
          BY DEF WorkerNotifier, Chosen
        <5> QED
          BY <1>0, <3>1, <5>1, <5>2, <5>3 DEF Asleep, Stopping
      <4> QED
        BY <1>0, <4>1, <4>2
    <3> QED
      BY <2>3, <3>5, <3>6, <3>7 DEF RunWorker
  <2>4. Stopped(i) \/ Crash(i) => FALSE
    BY <1>0 DEF Stopped, Crash, ProcessEnds
  <2>5. ASSUME StartQueueWorker(i) \/ StartOutboxWorker(i) PROVE FALSE
    <3>1. full' = full /\ ~Stopping(i, "queue")
      BY <2>5 DEF StartQueueWorker, StartOutboxWorker, Stopping
    <3>2. worker'[i]["queue"] = worker[i]["queue"] \/ worker'[i]["queue"] = "work"
      BY <1>0, <2>5 DEF StartQueueWorker, StartOutboxWorker, Becomes
    <3> QED
      BY <1>0, <3>1, <3>2 DEF Asleep
  <2>6. ASSUME StopQueueWorker(i) \/ StopOutboxWorker(i) PROVE FALSE
    <3>1. UNCHANGED <<full, worker>>
      BY <2>6 DEF StopQueueWorker, StopOutboxWorker, workVars
    <3>2. ~Stopping(i, "queue") \/ worker[i]["queue"] = "off"
      BY <2>6 DEF StopQueueWorker, StopOutboxWorker, Stopping
    <3> QED
      BY <1>0, <3>1, <3>2 DEF Asleep
  <2> QED
    BY <1>4, <2>1, <2>2, <2>3, <2>4, <2>5, <2>6 DEF StepOf, Hook
<1> QED
  BY <1>2, <1>3, <1>4, StepOfNext

\* Commands leave a worker's hand for good, or because the process goes down: then
\* they are left to their own process, or are orphans.
LEMMA PutAway ==
    ASSUME TypeOK, HandsInv, [Next]_vars, failures' = 0, NEW i \in Instances,
           Asleep(i, "queue"), Asleep(i, "queue")', NEW c \in Own(i) \ orphans',
           c \in queue', \A j \in Instances : c \notin hand'[j]
    PROVE  c \in Unattended(i)
<1>0. /\ failures = 0 /\ failures \in Nat /\ worker[i]["queue"] = "idle"
      /\ worker'[i]["queue"] = "idle" /\ {"queue", "outbox"} = Kinds
      /\ c \in queue /\ InstanceOf[c[1]] = i
      /\ \A j \in Instances : hand[j] \in Hands
      /\ hand \in [Instances -> Hands]
  BY FailuresStay, LimitAssumption DEF Asleep, TypeOK, BusTypeOK, Kinds, Own
<1>1. ASSUME UNCHANGED <<hand, orphans>> PROVE c \in Unattended(i)
  BY <1>1 DEF Unattended
\* The command would have to be put down by some process j.
<1>2. ASSUME NEW j \in Instances, ProcessNext(j) PROVE c \in Unattended(i)
  <2>1. CASE Fetch(j)
    <3>1. PICK d \in queue : hand' = [hand EXCEPT ![j] = {d}] /\ orphans' = orphans \ {d}
      BY <2>1 DEF Fetch
    <3>2. c # d
      BY <1>0, <3>1
    <3>3. hand[j] = {}
      BY <2>1 DEF Fetch, HandsInv
    <3>4. \A k \in Instances : c \notin hand[k]
      BY <1>0, <3>1, <3>3
    <3> QED
      BY <3>1, <3>2, <3>4 DEF Unattended
  <2>2. CASE FetchNothing(j) \/ RunCommandHook(j) \/ NotifyOutbox(j) \/ HandlerFails(j)
    BY <1>1, <2>2 DEF FetchNothing, RunCommandHook, NotifyOutbox, HandlerFails
  <2>3. ~QueueBreaks(j) /\ ~CallFails(j)
    BY <1>0 DEF QueueBreaks, CallFails, WorkerFails, ConnectionFails
  <2>4. CASE Commit(j) \/ RecordFailure(j)
    <3>1. c \notin hand[j]
      <4>1. ASSUME c \in hand[j] PROVE hand[j] = {c}
        BY <1>0, <4>1 DEF Hands
      <4>2. ASSUME NEW d \in hand[j], CommandExecuted(d) PROVE c \notin hand[j]
        BY <1>0, <4>1, <4>2 DEF CommandExecuted
      <4>3. ASSUME ~(hand[j] \subseteq queue) PROVE c \notin hand[j]
        BY <1>0, <4>1, <4>3
      <4> QED
        BY <2>3, <2>4, <4>2, <4>3 DEF Commit, RecordFailure
    <3>2. PutDown(j) /\ orphans' = orphans
      BY <2>4 DEF Commit, RecordFailure
    <3>3. \A k \in Instances : c \notin hand[k]
      BY <1>0, <3>1, <3>2 DEF PutDown
    <3> QED
      BY <3>2, <3>3 DEF Unattended
  <2> QED
    BY <1>2, <2>1, <2>2, <2>3, <2>4 DEF ProcessNext
<1>3. ASSUME NEW j \in Instances, Stopped(j) \/ Crash(j) PROVE c \in Unattended(i)
  <2>1. /\ PutDown(j) /\ orphans' = orphans \cup (hand[j] \ Own(j))
        /\ worker' = [worker EXCEPT ![j] = [k \in Kinds |-> "off"]]
    BY <1>3 DEF Stopped, Crash, ProcessEnds
  <2>2. j # i
    BY <1>0, <2>1 DEF TypeOK
  <2>3. c \notin hand[j] /\ c \notin orphans
    BY <1>0, <2>1, <2>2 DEF Own
  <2>4. \A k \in Instances : c \notin hand[k]
    BY <1>0, <2>1, <2>3 DEF PutDown
  <2> QED
    BY <2>3, <2>4 DEF Unattended
<1>4. ASSUME NEW s \in Senders, BusStep(s) \/ SignalCommand(s) PROVE c \in Unattended(i)
  BY <1>1, <1>4 DEF BusStep, SignalCommand, appVars, workVars
<1>5. ASSUME NEW j \in Instances, NEW k \in Kinds,
             \/ (Expire(j) /\ UNCHANGED appVars) \/ Transact(j) \/ ProcessBatch(j)
             \/ WakeUp(j, k) \/ Poll(j, k) \/ Exit(j, k)
             \/ StartQueueWorker(j) \/ StartOutboxWorker(j)
             \/ StopQueueWorker(j) \/ StopOutboxWorker(j)
      PROVE  c \in Unattended(i)
  <2>1. UNCHANGED <<hand, orphans>>
    BY <1>5 DEF Transact, CommitManaged, RunHook, PublishManually, EndManual, ProcessBatch,
       ReadBatch, Relay, OutboxBreaks, WakeUp, Poll, Exit, StartQueueWorker,
       StartOutboxWorker, StopQueueWorker, StopOutboxWorker, appVars, workVars
  <2> QED
    BY <1>1, <2>1
<1>6. CASE UNCHANGED vars
  BY <1>1, <1>6 DEF vars, appVars, workVars
<1> QED
  BY <1>0, <1>2, <1>3, <1>4, <1>5, <1>6 DEF Next, RunWorker, Hook

\* A command joins the queue with its sender about to signal it, and the sender
\* goes on to do so.
LEMMA NewCommands ==
    ASSUME TypeOK, [Next]_vars, failures' = 0, NEW i \in Instances,
           config[i].wakeup, Asleep(i, "queue"), Asleep(i, "queue")'
    PROVE  \/ Heralds(i)' # {}
           \/ Own(i)' \subseteq Own(i) /\ Heralds(i) \subseteq Heralds(i)'
<1>0. /\ failures = 0 /\ failures \in Nat /\ "queue" \in Kinds
      /\ worker'[i]["queue"] = "idle" /\ InstanceOf \in [Senders -> Instances]
  BY FailuresStay, LimitAssumption, SendersAssumption
     DEF Asleep, TypeOK, BusTypeOK, Kinds
<1> DEFINE Goal == \/ Heralds(i)' # {}
                   \/ Own(i)' \subseteq Own(i) /\ Heralds(i) \subseteq Heralds(i)'
<1>1. ASSUME queue' \subseteq queue, UNCHANGED pc PROVE Goal
  BY <1>1 DEF Own, Heralds, At, SendersOf
<1>2. ASSUME NEW s \in Senders, BusStep(s) PROVE Goal
  <2>1. CASE Insert(s)
    <3>1. pc'[s] = "count" /\ queue' = queue \cup {<<s, sent[s]>>}
      BY <2>1 DEF Insert, Go, TypeOK, BusTypeOK
    <3>2. CASE InstanceOf[s] = i
      <4>1. s \in Heralds(i)'
        BY <3>1, <3>2 DEF Heralds, At, SendersOf
      <4> QED
        BY <4>1
    <3>3. CASE InstanceOf[s] # i
      <4>1. Own(i)' \subseteq Own(i)
        BY <3>1, <3>3 DEF Own
      <4>2. Heralds(i) \subseteq Heralds(i)'
        BY <2>1, <3>3 DEF Heralds, At, SendersOf, Insert, Go, TypeOK, BusTypeOK
      <4> QED
        BY <4>1, <4>2
    <3> QED
      BY <3>2, <3>3
  <2>2. ~InsertAnswerLost(s)
    BY <1>0 DEF InsertAnswerLost, ConnectionFails
  <2>3. CASE BusStep(s) /\ ~Insert(s)
    <3>1. queue' = queue
      BY <2>2, <2>3 DEF BusStep, Send, Retry, Check, Lead, Follow, CountPending, CountFails,
         StoreCount, Finish, Submit, InsertFails, Increment
    <3>2. ASSUME NEW r \in Heralds(i) PROVE r \in Heralds(i)'
      <4>0. r \in Senders /\ InstanceOf[r] = i /\ pc[r] \in {"count", "notify"}
        BY DEF Heralds, At, SendersOf
      <4>1. pc'[r] \in {"count", "notify"}
        BY <2>2, <2>3, <4>0 DEF BusStep, Send, Retry, Check, Lead, Follow, CountPending,
           CountFails, StoreCount, Finish, Submit, InsertFails, Increment, Land, Go,
           CheckCache, At, TypeOK, BusTypeOK
      <4> QED
        BY <4>0, <4>1 DEF Heralds, At, SendersOf
    <3> QED
      BY <3>1, <3>2 DEF Own
  <2> QED
    BY <1>2, <2>1, <2>3
<1>3. ASSUME NEW s \in Senders, SignalCommand(s) PROVE Goal
  <2>1. CASE InstanceOf[s] = i
    <3>1. CommandBusNotifier(i) \in full'[i]
      BY <1>3, <2>1 DEF SignalCommand, Signal, TypeOK
    <3>2. WorkerNotifier(i, "queue")' = CommandBusNotifier(i)
      BY ConfigStays DEF WorkerNotifier, CommandBusNotifier, Chosen
    <3> QED
      BY <3>1, <3>2 DEF Asleep
  <2>2. CASE InstanceOf[s] # i
    <3>1. queue' = queue
      BY <1>3 DEF SignalCommand, Notify
    <3>2. Heralds(i) \subseteq Heralds(i)'
      BY <1>3, <2>2 DEF SignalCommand, Notify, Go, Heralds, At, SendersOf, TypeOK, BusTypeOK
    <3> QED
      BY <3>1, <3>2 DEF Own
  <2> QED
    BY <2>1, <2>2
<1>4. ASSUME NEW j \in Instances, Stopped(j) \/ Crash(j) PROVE Goal
  <2>1. BusEnds(j) /\ worker' = [worker EXCEPT ![j] = [k \in Kinds |-> "off"]]
    BY <1>4 DEF Stopped, Crash, ProcessEnds
  <2>2. j # i
    BY <1>0, <2>1 DEF TypeOK
  <2>3. queue' = queue /\ Heralds(i) \subseteq Heralds(i)'
    BY <2>1, <2>2 DEF BusEnds, Heralds, At, SendersOf
  <2> QED
    BY <2>3 DEF Own
<1>5. ASSUME NEW j \in Instances, Transact(j) \/ \E k \in Kinds : RunWorker(j, k)
      PROVE  Goal
  <2>1. queue' \subseteq queue /\ UNCHANGED pc
    BY <1>5 DEF Transact, CommitManaged, RunHook, PublishManually, EndManual, CallFails,
       RunWorker, ProcessNext, Fetch, FetchNothing, Commit, RunCommandHook, NotifyOutbox,
       HandlerFails, RecordFailure, QueueBreaks, ProcessBatch, ReadBatch, Relay,
       OutboxBreaks, WakeUp, Poll, Exit, CommandExecuted, WorkerFails, busVars
  <2> QED
    BY <1>1, <2>1
<1>6. ASSUME NEW j \in Instances,
             \/ Expire(j) \/ StartQueueWorker(j) \/ StartOutboxWorker(j)
             \/ StopQueueWorker(j) \/ StopOutboxWorker(j)
      PROVE  Goal
  <2>1. UNCHANGED <<queue, pc>>
    BY <1>6 DEF Expire, StartQueueWorker, StartOutboxWorker, StopQueueWorker,
       StopOutboxWorker, busVars
  <2> QED
    BY <1>1, <2>1
<1>7. CASE UNCHANGED vars
  BY <1>1, <1>7 DEF vars, busVars
<1> QED
  BY <1>2, <1>3, <1>4, <1>5, <1>6, <1>7 DEF Next, Hook

LEMMA CommandsHeardStep ==
    ASSUME TypeOK, TypeOK', HandsInv, [Next]_vars, failures' = 0, NEW i \in Instances,
           CommandsHeard(i)
    PROVE  CommandsHeard(i)'
<1> SUFFICES ASSUME config[i].wakeup, Asleep(i, "queue")', Unattended(i)' # {}
             PROVE  Heralds(i)' # {}
  BY ConfigStays DEF CommandsHeard
<1>1. PICK c : c \in Unattended(i)'
  OBVIOUS
<1>2. /\ c \in Own(i)' /\ c \notin orphans' /\ c \in queue'
      /\ \A j \in Instances : c \notin hand'[j]
  BY <1>1 DEF Unattended, Own
<1>3. CASE ~Asleep(i, "queue")
  <2>1. FetchNothing(i)
    BY <1>3, FallsAsleep
  <2>2. Locked(c) /\ hand' = hand
    BY <1>2, <2>1 DEF FetchNothing, busVars
  <2> QED
    BY <1>2, <2>2 DEF Locked
<1>4. CASE Asleep(i, "queue")
  <2>1. CASE Own(i)' \subseteq Own(i) /\ Heralds(i) \subseteq Heralds(i)'
    <3>1. c \in Unattended(i)
      BY <1>2, <1>4, <2>1, PutAway
    <3> QED
      BY <1>4, <2>1, <3>1 DEF CommandsHeard
  <2> QED
    BY <1>4, <2>1, NewCommands
<1> QED
  BY <1>3, <1>4

-----------------------------------------------------------------------------
(* Signals of events.                                                      *)

\* A step that leaves the outbox worker of the process be.
LEMMA EventsCarry ==
    ASSUME TypeOK, config' = config, NEW i \in Instances, NEW e \in Announced(i),
           EventHeard(i, e),
           stage'[i] = stage[i] \/ Stopping(i, "outbox")', batch'[i] = batch[i],
           worker'[i]["outbox"] = worker[i]["outbox"],
           full[i] \subseteq full'[i],
           \/ AboutToNotify(i) => AboutToNotify(i)'
           \/ WorkerNotifier(i, "outbox") \in full'[i]
    PROVE  EventHeard(i, e)'
<1>1. WorkerNotifier(i, "outbox")' = WorkerNotifier(i, "outbox")
  BY DEF WorkerNotifier, Chosen
<1> QED
  BY <1>1 DEF EventHeard, Stopping

LEMMA EventsHeardStep ==
    ASSUME LifecycleInv, LifecycleInv', [Next]_vars, failures' = 0, NEW i \in Instances,
           EventsHeard(i)
    PROVE  EventsHeard(i)'
<1> SUFFICES ASSUME NEW e \in Announced(i)' PROVE EventHeard(i, e)'
  BY DEF EventsHeard
<1>0. /\ TypeOK /\ TypeOK' /\ OrderAt(i) /\ OrderAt(i)' /\ config' = config
      /\ failures = 0 /\ failures \in Nat /\ {"queue", "outbox"} = Kinds
      /\ worker \in [Instances -> [Kinds -> AllLocations]]
      /\ hooks[i] \in Nat /\ e \in events' /\ e.from = i /\ ~e.late
      /\ e \in events => e \in Announced(i) /\ EventHeard(i, e)
  BY ConfigStays, FailuresStay, LimitAssumption
     DEF LifecycleInv, EventsHeard, Announced, TypeOK, BusTypeOK, Kinds, AllLocations
<1>1. WorkerNotifier(i, "outbox")' = WorkerNotifier(i, "outbox")
      /\ EventBusNotifier(i) = WorkerNotifier(i, "outbox")
  BY <1>0 DEF WorkerNotifier, EventBusNotifier, Chosen
<1>2. ~CallFails(i)
  BY <1>0 DEF CallFails, WorkerFails, ConnectionFails
\* Where it is enough to look at who is about to signal.
<1>3. ASSUME e \in events, stage'[i] = stage[i], batch'[i] = batch[i],
             worker'[i]["outbox"] = worker[i]["outbox"], full[i] \subseteq full'[i],
             \/ AboutToNotify(i) => AboutToNotify(i)'
             \/ WorkerNotifier(i, "outbox") \in full'[i]
      PROVE  EventHeard(i, e)'
  BY <1>0, <1>3, EventsCarry
<1>4. ASSUME UNCHANGED vars PROVE EventHeard(i, e)'
  BY <1>0, <1>3, <1>4 DEF vars, appVars, workVars, eventVars, txVars, hookVars, AboutToNotify
<1>5. ASSUME NEW j \in Instances, j # i, StepOf(j) PROVE EventHeard(i, e)'
  <2>1. /\ UNCHANGED <<worker[i], batch[i], full[i], hooks[i], stage[i]>>
        /\ e \in Announced(i)
    BY <1>0, <1>5, Alone
  <2> QED
    BY <1>3, <2>1 DEF AboutToNotify, Announced
<1>6. ASSUME NEW s \in SendersOf(i), BusStep(s) \/ SignalCommand(s) PROVE EventHeard(i, e)'
  <2>1. /\ UNCHANGED <<worker, batch, hooks, stage, events>>
        /\ full[i] \subseteq full'[i]
    BY <1>0, <1>6 DEF BusStep, SignalCommand, Signal, SendersOf, appVars, workVars,
       eventVars, txVars, hookVars, TypeOK
  <2> QED
    BY <1>0, <1>3, <2>1 DEF AboutToNotify
<1>7. ASSUME Expire(i) /\ UNCHANGED appVars PROVE EventHeard(i, e)'
  BY <1>0, <1>3, <1>7 DEF appVars, workVars, eventVars, txVars, hookVars, AboutToNotify
\* Transactions: the hook is registered before the commit, and signals when it is run.
<1>8. ASSUME Transact(i) PROVE EventHeard(i, e)'
  <2>1. CASE CommitManaged(i)
    <3>1. hooks'[i] = hooks[i] + 1
      BY <1>0, <1>2, <2>1 DEF CommitManaged, TypeOK
    <3> QED
      BY <1>0, <3>1 DEF EventHeard, AboutToNotify
  <2>2. CASE RunHook(i)
    <3>1. WorkerNotifier(i, "outbox") \in full'[i]
      BY <1>0, <1>1, <2>2 DEF RunHook, Signal, TypeOK
    <3> QED
      BY <1>1, <3>1 DEF EventHeard
  <2>3. CASE PublishManually(i)
    <3>1. WorkerNotifier(i, "outbox") \in full'[i]
      BY <1>0, <1>1, <2>3 DEF PublishManually, Signal, TypeOK
    <3> QED
      BY <1>1, <3>1 DEF EventHeard
  <2>4. CASE EndManual(i)
    <3>1. UNCHANGED <<worker, batch, hooks, stage, full>>
      BY <2>4 DEF EndManual, workVars, hookVars
    <3>2. e \in events
      BY <1>0, <2>4 DEF EndManual, SaveEvent, eventVars
    <3> QED
      BY <1>3, <3>1, <3>2 DEF AboutToNotify
  <2> QED
    BY <1>8, <2>1, <2>2, <2>3, <2>4 DEF Transact
\* The queue worker: after a commit it runs the hook, and then signals in any case.
<1>9. ASSUME ProcessNext(i) PROVE EventHeard(i, e)'
  <2>1. CASE Commit(i)
    <3>1. Becomes(i, "queue", "hooks") \/ Becomes(i, "queue", "notify")
      BY <1>0, <2>1 DEF Commit, WorkerFails, ConnectionFails
    <3>2. worker'[i]["queue"] \in {"hooks", "notify"}
      BY <1>0, <3>1 DEF Becomes
    <3> QED
      BY <3>2 DEF EventHeard, AboutToNotify
  <2>2. CASE RunCommandHook(i)
    <3>1. worker'[i]["queue"] = "notify"
      BY <1>0, <2>2 DEF RunCommandHook, Becomes
    <3> QED
      BY <3>1 DEF EventHeard, AboutToNotify
  <2>3. CASE NotifyOutbox(i)
    <3>1. WorkerNotifier(i, "outbox") \in full'[i]
      BY <1>0, <2>3 DEF NotifyOutbox, Signal, TypeOK
    <3> QED
      BY <1>1, <3>1 DEF EventHeard
  <2>4. CASE Fetch(i) \/ FetchNothing(i) \/ HandlerFails(i) \/ RecordFailure(i)
    <3>1. /\ UNCHANGED <<batch, full, hooks, stage, events>>
          /\ worker[i]["queue"] \notin {"hooks", "notify"}
      BY <2>4 DEF Fetch, FetchNothing, HandlerFails, RecordFailure, eventVars, txVars, hookVars
    <3>2. worker'[i]["outbox"] = worker[i]["outbox"]
      BY <1>0, <2>4 DEF Fetch, FetchNothing, HandlerFails, RecordFailure, GoesOn, Becomes
    <3> QED
      BY <1>0, <1>3, <3>1, <3>2 DEF AboutToNotify
  <2> QED
    BY <1>2, <1>9, <2>1, <2>2, <2>3, <2>4 DEF ProcessNext, QueueBreaks
\* The outbox worker: what it does not read it will read, but for a last batch.
<1>10. ASSUME ProcessBatch(i) PROVE EventHeard(i, e)'
  <2>0. e \in events
    BY <1>0, <1>10 DEF ProcessBatch, ReadBatch, Relay, OutboxBreaks, eventVars
  <2>1. CASE ReadBatch(i)
    <3>1. PICK s \in SUBSET events :
             /\ batch' = [batch EXCEPT ![i] = s]
             /\ \/ s # {} /\ Becomes(i, "outbox", "batch")
                \/ s = events /\ Becomes(i, "outbox", IF s = {} THEN "idle" ELSE "last")
      BY <2>1 DEF ReadBatch
    <3>2. CASE Becomes(i, "outbox", "batch")
      BY <1>0, <3>2 DEF EventHeard, Becomes
    <3>3. CASE s = events /\ Becomes(i, "outbox", "last")
      <4>1. e \in batch'[i] /\ worker'[i]["outbox"] = "last"
        BY <1>0, <2>0, <3>1, <3>3 DEF TypeOK, Becomes
      <4> QED
        BY <4>1 DEF EventHeard
    <3> QED
      BY <2>0, <3>1, <3>2, <3>3
  <2>2. CASE Relay(i)
    <3>1. PICK d \in batch[i] : events' = events \ {d} /\ NextRecord(i, d)
      BY <2>2 DEF Relay
    <3>2. /\ worker[i]["outbox"] \in {"batch", "last"} /\ e # d
          /\ UNCHANGED <<full, hooks, stage>>
          /\ batch'[i] = batch[i] \ {d}
      BY <1>0, <2>2, <3>1 DEF Relay, NextRecord, txVars, hookVars, TypeOK
    <3>3. CASE worker' = worker
      <4>1. AboutToNotify(i)' = AboutToNotify(i) /\ Stopping(i, "outbox")' = Stopping(i, "outbox")
        BY <3>2, <3>3 DEF AboutToNotify, Stopping
      <4> QED
        BY <1>0, <1>1, <2>0, <3>2, <3>3, <4>1 DEF EventHeard
    <3>4. CASE batch[i] = {d} /\ worker[i]["outbox"] = "batch" /\ GoesOn(i, "outbox")
      <4>1. worker'[i]["outbox"] = "work" \/ Stopping(i, "outbox")'
        BY <1>0, <3>2, <3>4 DEF GoesOn, Becomes, Stopping
      <4> QED
        BY <4>1 DEF EventHeard
    <3>5. CASE batch[i] = {d} /\ worker[i]["outbox"] = "last" /\ Becomes(i, "outbox", "idle")
      <4>1. e \notin batch[i] /\ worker'[i]["queue"] = worker[i]["queue"]
        BY <1>0, <3>2, <3>5 DEF Becomes
      <4>2. AboutToNotify(i)' = AboutToNotify(i) /\ Stopping(i, "outbox")' = Stopping(i, "outbox")
        BY <3>2, <4>1 DEF AboutToNotify, Stopping
      <4> QED
        BY <1>0, <1>1, <2>0, <3>2, <3>5, <4>1, <4>2 DEF EventHeard
    <3> QED
      BY <3>1, <3>2, <3>3, <3>4, <3>5 DEF NextRecord
  <2> QED
    BY <1>2, <1>10, <2>1, <2>2 DEF ProcessBatch, OutboxBreaks
<1>11. ASSUME NEW k \in Kinds, WakeUp(i, k) \/ Poll(i, k) \/ Exit(i, k)
       PROVE  EventHeard(i, e)'
  <2>0. /\ UNCHANGED <<events, batch, hooks, stage>> /\ worker[i][k] = "idle"
        /\ \E to \in AllLocations : Becomes(i, k, to)
    BY <1>11 DEF WakeUp, Poll, Exit, GoesOn, eventVars, txVars, hookVars, AllLocations,
       QueueLocations
  <2>1. CASE k = "queue"
    <3>1. /\ worker'[i]["outbox"] = worker[i]["outbox"]
          /\ AboutToNotify(i) => AboutToNotify(i)'
      BY <1>0, <2>0, <2>1 DEF Becomes, AboutToNotify
    <3>2. full' = full \/ full' = [full EXCEPT ![i] = @ \ {WorkerNotifier(i, "queue")}]
      BY <1>11, <2>1 DEF WakeUp, Poll, Exit
    <3>3. WorkerNotifier(i, "queue") # WorkerNotifier(i, "outbox")
      BY DEF WorkerNotifier, Chosen
    <3>4. WorkerNotifier(i, "outbox") \in full[i] => WorkerNotifier(i, "outbox") \in full'[i]
      BY <1>0, <3>2, <3>3 DEF TypeOK
    <3> QED
      BY <1>0, <1>1, <2>0, <3>1, <3>4 DEF EventHeard, Stopping
  <2>2. CASE k = "outbox" /\ (WakeUp(i, k) \/ Poll(i, k))
    <3>1. worker'[i]["outbox"] = "work" \/ Stopping(i, "outbox")'
      BY <1>0, <2>0, <2>2 DEF WakeUp, Poll, GoesOn, Becomes, Stopping
    <3> QED
      BY <3>1 DEF EventHeard
  <2>3. CASE k = "outbox" /\ Exit(i, k)
    BY <1>0, <2>3 DEF Exit, Becomes, EventHeard
  <2> QED
    BY <1>0, <1>11, <2>1, <2>2, <2>3
\* Starts and stops: an outbox worker is off before its process starts, goes to work
\* when it is started, and is off when its process ends.
<1>12. ASSUME Hook(i) \/ StopQueueWorker(i) \/ Crash(i) PROVE EventHeard(i, e)'
  <2>1. CASE StartQueueWorker(i)
    <3>1. worker[i]["outbox"] = "off"
      BY <1>0, <2>1 DEF StartQueueWorker, OrderAt, Orderly
    <3>2. worker'[i]["outbox"] = "off"
      BY <1>0, <2>1, <3>1 DEF StartQueueWorker, Becomes
    <3> QED
      BY <3>2 DEF EventHeard
  <2>2. CASE StartOutboxWorker(i)
    <3>1. worker[i]["outbox"] = "off"
      BY <1>0, <2>2 DEF StartOutboxWorker, OrderAt, Orderly
    <3>2. worker'[i]["outbox"] \in {"off", "work"}
      BY <1>0, <2>2, <3>1 DEF StartOutboxWorker, Becomes
    <3> QED
      BY <3>2 DEF EventHeard
  <2>3. CASE StopQueueWorker(i)
    <3>1. /\ UNCHANGED <<worker, batch, full, hooks, events>>
          /\ ~Stopping(i, "outbox")
      BY <2>3 DEF StopQueueWorker, Stopping, workVars, eventVars, txVars
    <3> QED
      BY <1>0, <1>1, <3>1 DEF EventHeard, AboutToNotify
  <2>4. CASE StopOutboxWorker(i)
    <3>1. Stopping(i, "outbox")'
      BY <1>0, <2>4 DEF StopOutboxWorker, Advance, Stopping, TypeOK
    <3> QED
      BY <3>1 DEF EventHeard
  <2>5. CASE Stopped(i) \/ Crash(i)
    <3>1. worker'[i]["outbox"] = "off"
      BY <1>0, <2>5 DEF Stopped, Crash, ProcessEnds
    <3> QED
      BY <3>1 DEF EventHeard
  <2> QED
    BY <1>12, <2>1, <2>2, <2>3, <2>4, <2>5 DEF Hook
<1> QED
  BY <1>4, <1>5, <1>6, <1>7, <1>8, <1>9, <1>10, <1>11, <1>12, StepOfNext
     DEF StepOf, RunWorker

-----------------------------------------------------------------------------

LEMMA HeardAtFirst == Init => WakeUpInv
BY LifecycleInit DEF Init, BusInit, WakeUpInv, HandsInv, CommandsHeard, Unattended, Own,
   EventsHeard, Announced

LEMMA HeardNext == WakeUpInv /\ [Next]_vars => WakeUpInv'
<1> SUFFICES ASSUME WakeUpInv, [Next]_vars PROVE WakeUpInv'
  OBVIOUS
<1>1. LifecycleInv /\ LifecycleInv' /\ HandsInv /\ HandsInv'
  BY LifecycleNext, HandsStep DEF WakeUpInv
<1>2. TypeOK /\ TypeOK'
  BY <1>1 DEF LifecycleInv
<1>3. ASSUME failures' = 0, NEW i \in Instances PROVE CommandsHeard(i)' /\ EventsHeard(i)'
  <2>1. CommandsHeard(i) /\ EventsHeard(i)
    BY <1>2, <1>3, FailuresStay DEF WakeUpInv
  <2> QED
    BY <1>1, <1>2, <1>3, <2>1, CommandsHeardStep, EventsHeardStep
<1> QED
  BY <1>1, <1>3 DEF WakeUpInv

LEMMA HeardSuffices == WakeUpInv => NoLostSignal
<1> SUFFICES ASSUME WakeUpInv, failures = 0, NEW i \in Instances
             PROVE  /\ config[i].wakeup /\ Asleep(i, "queue") /\ Unattended(i) # {} =>
                           At(i, {"count", "notify"}) # {}
                    /\ Asleep(i, "outbox") /\ Announced(i) # {} => AboutToNotify(i)
  BY DEF NoLostSignal
<1>1. CommandsHeard(i) /\ EventsHeard(i)
  BY DEF WakeUpInv
<1> QED
  BY <1>1 DEF CommandsHeard, Heralds, EventsHeard, EventHeard, Asleep

\* While no call fails, signals alone leave no command and no event behind, in any
\* number of processes, whichever notifiers each of them overrides: but for the
\* commands that a process had in hand when it went down, which were another's,
\* and for the events of manual transactions, whose signal comes too early.
THEOREM SignalsKept == Spec => []NoLostSignal
<1>1. Spec => []WakeUpInv
  BY HeardAtFirst, HeardNext, PTL DEF Spec
<1> QED
  BY <1>1, HeardSuffices, PTL
=============================================================================
