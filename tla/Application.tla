---------------------------- MODULE Application ----------------------------
(***************************************************************************)
(* An application as module.go wires it: the buses, the queue worker and   *)
(* the outbox worker of each process, the notifiers between them, and the  *)
(* Fx hook that starts and stops the workers.  The bus is that of          *)
(* CommandBus; a queue worker locks a command, commits and signals, and an *)
(* outbox worker reads a batch and relays it.  What happens inside of      *)
(* these transactions is in CommandQueue and Outbox.                       *)
(***************************************************************************)
EXTENDS CommandBus

CONSTANTS
    Configs,  \* how the processes may be configured
    Bounds    \* for each of these and each process: whether it is started,
              \* commands of each sender, failing calls, transactions besides
              \* the commands', crashes and stops

Kinds == {"queue", "outbox"}

\* Which notifiers the configuration overrides; whether wake-ups of the queue are
\* enabled, and who polls; whether the queue worker has what it needs and Send does
\* not (a TransactionManager, handlers it accepts); and whether there is an
\* Outbox, and a database and a publisher for its worker.
AllConfigs == [overrides : SUBSET Kinds, wakeup : BOOLEAN, polls : SUBSET Kinds,
               deps : BOOLEAN, outbox : {"none", "incomplete", "ok"}]

ASSUME ConfigsAssumption ==
    /\ Configs \subseteq [Instances -> AllConfigs]
    /\ Bounds \in [Configs -> [Instances ->
                      [started : BOOLEAN, sends : [Senders -> Nat], failures : Nat,
                       publications : Nat, outages : Nat]]]

VARIABLES
    config,    \* the configuration of each process
    stage,     \* how far its Fx hook has come
    worker,    \* where its workers are
    hand,      \* the command its queue worker is at
    batch,     \* the records its outbox worker has read and not relayed
    full,      \* the notifiers that hold a signal
    events,    \* records in the outbox table
    saved,     \* how many there have been
    hooks,     \* committed transactions of the process with a hook to run
    open,      \* manual transactions of the process that have published
    external,  \* transactions besides the commands' so far
    orphans,   \* history: commands another process had in hand when it went down
    outages    \* crashes and stops so far

workVars == <<worker, hand, batch>>
eventVars == <<events, saved>>
txVars == <<hooks, open, external>>
hookVars == <<config, stage, outages>>

appVars == <<workVars, full, eventVars, txVars, orphans, hookVars>>

vars == <<busVars, appVars>>

-----------------------------------------------------------------------------
(* Types.                                                                  *)

Stages == {"down", "starting", "running", "failed", "stopQueue", "stopOutbox"}

\* A queue worker at "execute" holds the row lock of its command.
QueueLocations == {"off", "idle", "work", "execute", "hooks", "notify", "record"}

\* At "batch" more records are left in the table; "last" is a batch below the limit.
OutboxLocations == {"off", "idle", "work", "batch", "last"}

\* A notifier: what it is for, and where it comes from.
Notifiers == Kinds \X {"config", "module"}

\* Who published the record, and whether the signal for it came before the commit.
Events == [id : Nat, from : Instances, late : BOOLEAN]

-----------------------------------------------------------------------------
(* The wiring: each component finds its notifier by itself.                *)

Chosen(i, k) == <<k, IF k \in config[i].overrides THEN "config" ELSE "module">>

\* Mutant: the provider of CommandBus ignores the notifier of the configuration.
ModuleCommandNotifier(i) == <<"queue", "module">>

\* The provider of CommandBus.
CommandBusNotifier(i) == Chosen(i, "queue")

\* Mutant: the provider of EventBus ignores the notifier of the configuration.
ModuleEventNotifier(i) == <<"outbox", "module">>

\* The provider of EventBus.
EventBusNotifier(i) == Chosen(i, "outbox")

\* RunSQLWorkers: for the queue worker, and for the outbox worker and the queue
\* worker that wakes it up.
WorkerNotifier(i, k) == Chosen(i, k)

\* A worker that has wake-ups disabled does not listen.
Listens(i, k) == k = "queue" => config[i].wakeup

-----------------------------------------------------------------------------
(* The buses.                                                              *)

\* channelNotifier.Notify: a full channel swallows the signal.
Signal(i, notifiers) == full' = [full EXCEPT ![i] = @ \cup notifiers]

Limits(i) == Bounds[config][i]

WithinBounds(i) ==
    /\ failures' = failures \/ failures' <= Limits(i).failures
    /\ \A s \in SendersOf(i) : sent'[s] <= Limits(i).sends[s]

\* A call of process i fails.
CallFails(i) == WorkerFails /\ WithinBounds(i)

\* A goroutine of a process that is up is inside CommandBus.Send.
BusStep(s) ==
    /\ stage[InstanceOf[s]] # "down"
    /\ Send(s) \/ Retry(s) \/ Check(s) \/ Submit(s)
    /\ WithinBounds(InstanceOf[s])
    /\ UNCHANGED appVars

\* The last step of it wakes the queue worker, unless that is disabled.
SignalCommand(s) ==
    LET i == InstanceOf[s]
    IN  /\ Notify(s)
        /\ Signal(i, IF config[i].wakeup THEN {CommandBusNotifier(i)} ELSE {})
        /\ UNCHANGED <<workVars, eventVars, txVars, orphans, hookVars>>

\* A transaction of process i commits a record.
SaveEvent(i, late) ==
    /\ saved' = saved + 1
    /\ events' = events \cup {[id |-> saved, from |-> i, late |-> late]}

\* Any goroutine of a process that has an Outbox begins a transaction.
BeginsTx(i) ==
    /\ stage[i] # "down"
    /\ config[i].outbox # "none"
    /\ external < Limits(i).publications
    /\ external' = external + 1

\* WithinTransaction around EventBus.Publish, which registers a hook, up to the
\* commit; when the answer of that is lost, no hook is run.
CommitManaged(i) ==
    /\ BeginsTx(i)
    /\ SaveEvent(i, FALSE)
    /\ \/ hooks' = [hooks EXCEPT ![i] = @ + 1] /\ UNCHANGED busVars
       \/ CallFails(i) /\ UNCHANGED hooks
    /\ UNCHANGED <<workVars, full, open, orphans, hookVars>>

\* Mutant: a hook is run though no transaction has committed.
RunHookAnyway(i) ==
    /\ stage[i] # "down"
    /\ hooks' = [hooks EXCEPT ![i] = @ - 1]
    /\ Signal(i, {EventBusNotifier(i)})
    /\ UNCHANGED <<busVars, workVars, eventVars, open, external, orphans, hookVars>>

\* The hook.
RunHook(i) ==
    /\ hooks[i] > 0
    /\ hooks' = [hooks EXCEPT ![i] = @ - 1]
    /\ Signal(i, {EventBusNotifier(i)})
    /\ UNCHANGED <<busVars, workVars, eventVars, open, external, orphans, hookVars>>

\* EventBus.Publish with a transaction of the caller's own, in which no hook can be
\* registered: it signals at once.
PublishManually(i) ==
    /\ BeginsTx(i)
    /\ open' = [open EXCEPT ![i] = @ + 1]
    /\ Signal(i, {EventBusNotifier(i)})
    /\ UNCHANGED <<busVars, workVars, eventVars, hooks, orphans, hookVars>>

\* The caller commits, or rolls back.
EndManual(i) ==
    /\ open[i] > 0
    /\ open' = [open EXCEPT ![i] = @ - 1]
    /\ SaveEvent(i, TRUE) \/ UNCHANGED eventVars
    /\ UNCHANGED <<busVars, workVars, full, hooks, external, orphans, hookVars>>

-----------------------------------------------------------------------------
(* The workers.                                                            *)

Becomes(i, k, to) == worker' = [worker EXCEPT ![i][k] = to]

Stopping(i, k) ==
    \/ k = "queue" /\ stage[i] = "stopQueue"
    \/ k = "outbox" /\ stage[i] = "stopOutbox"

\* drain looks at stopChan before each command, and before each batch.
GoesOn(i, k) == Becomes(i, k, IF Stopping(i, k) THEN "idle" ELSE "work")

Locked(c) ==
    \E i \in Instances : worker[i]["queue"] = "execute" /\ c \in hand[i]

PutDown(i) == hand' = [hand EXCEPT ![i] = {}]

\* GetNextPending: some row that nobody has locked.  (The oldest, by a time that
\* neither tells commands of the same second apart nor follows the order in which
\* the rows turn up.)
Fetch(i) ==
    /\ worker[i]["queue"] = "work"
    /\ \E c \in queue :
        /\ ~Locked(c)
        /\ hand' = [hand EXCEPT ![i] = {c}]
        /\ orphans' = orphans \ {c}
    /\ Becomes(i, "queue", "execute")
    /\ UNCHANGED <<busVars, batch, full, eventVars, txVars, hookVars>>

\* GetNextPending finds no row it can lock, and drain returns.
FetchNothing(i) ==
    /\ worker[i]["queue"] = "work"
    /\ \A c \in queue : Locked(c)
    /\ Becomes(i, "queue", "idle")
    /\ UNCHANGED <<busVars, hand, batch, full, eventVars, txVars, orphans, hookVars>>

\* The command's transaction commits, with an event in it or without.  When the
\* answer is lost, neither hook nor signal follows, and the drain ends.
Commit(i) ==
    /\ worker[i]["queue"] = "execute"
    /\ \E c \in hand[i] : CommandExecuted(c)
    /\ PutDown(i)
    /\ WithinBounds(i)
    /\ \E published \in BOOLEAN :
        /\ published => config[i].outbox # "none"
        /\ IF published THEN SaveEvent(i, FALSE) ELSE UNCHANGED eventVars
        /\ Becomes(i, "queue", IF failures' # failures THEN "idle"
                               ELSE IF published THEN "hooks" ELSE "notify")
    /\ UNCHANGED <<batch, full, txVars, orphans, hookVars>>

\* WithinTransaction runs the hook that EventBus.Publish registered.
RunCommandHook(i) ==
    /\ worker[i]["queue"] = "hooks"
    /\ Signal(i, {EventBusNotifier(i)})
    /\ Becomes(i, "queue", "notify")
    /\ UNCHANGED <<busVars, hand, batch, eventVars, txVars, orphans, hookVars>>

\* processNext signals on its own account, whether there was an event or not.
NotifyOutbox(i) ==
    /\ worker[i]["queue"] = "notify"
    /\ Signal(i, {WorkerNotifier(i, "outbox")})
    /\ GoesOn(i, "queue")
    /\ UNCHANGED <<busVars, hand, batch, eventVars, txVars, orphans, hookVars>>

\* The handler returns an error: rollback, which releases the row.
HandlerFails(i) ==
    /\ worker[i]["queue"] = "execute"
    /\ Becomes(i, "queue", "record")
    /\ UNCHANGED <<busVars, hand, batch, full, eventVars, txVars, orphans, hookVars>>

\* RecordFailure, for which the command may wait in another worker's hand, or be
\* executed already; an error of it is only logged.
RecordFailure(i) ==
    /\ worker[i]["queue"] = "record"
    /\ \/ /\ \A c \in hand[i] : ~Locked(c)
          /\ IF hand[i] \subseteq queue
             THEN \E c \in hand[i] : CommandExecuted(c)
             ELSE UNCHANGED busVars
       \/ CallFails(i)
    /\ WithinBounds(i)
    /\ PutDown(i)
    /\ GoesOn(i, "queue")
    /\ UNCHANGED <<batch, full, eventVars, txVars, orphans, hookVars>>

\* processBatch reads a batch: below the limit it is all there is.
ReadBatch(i) ==
    /\ worker[i]["outbox"] = "work"
    /\ \E s \in SUBSET events :
        /\ batch' = [batch EXCEPT ![i] = s]
        /\ \/ s # {} /\ Becomes(i, "outbox", "batch")
           \/ s = events /\ Becomes(i, "outbox", IF s = {} THEN "idle" ELSE "last")
    /\ UNCHANGED <<busVars, hand, full, eventVars, txVars, orphans, hookVars>>

\* After the last record drain goes on, or returns.
NextRecord(i, e) ==
    /\ batch' = [batch EXCEPT ![i] = @ \ {e}]
    /\ IF batch[i] # {e} THEN UNCHANGED worker
       ELSE IF worker[i]["outbox"] = "batch" THEN GoesOn(i, "outbox")
       ELSE Becomes(i, "outbox", "idle")

\* A record is published and deleted.
Relay(i) ==
    /\ worker[i]["outbox"] \in {"batch", "last"}
    /\ \E e \in batch[i] :
        /\ events' = events \ {e}
        /\ NextRecord(i, e)
    /\ UNCHANGED <<busVars, hand, full, saved, txVars, orphans, hookVars>>

\* A call fails, the transaction is rolled back, and drain returns.  (A command
\* whose commit is answered by an error is Commit's.)
QueueBreaks(i) ==
    /\ worker[i]["queue"] \in {"work", "execute"}
    /\ CallFails(i)
    /\ PutDown(i)
    /\ Becomes(i, "queue", "idle")
    /\ UNCHANGED <<batch, full, eventVars, txVars, orphans, hookVars>>

\* A call fails, and drain returns; the DELETE may have taken effect.
OutboxBreaks(i) ==
    /\ worker[i]["outbox"] \in {"work", "batch", "last"}
    /\ CallFails(i)
    /\ events' = events \/ \E e \in batch[i] : events' = events \ {e}
    /\ batch' = [batch EXCEPT ![i] = {}]
    /\ Becomes(i, "outbox", "idle")
    /\ UNCHANGED <<hand, full, saved, txVars, orphans, hookVars>>

WakeUp(i, k) ==
    /\ worker[i][k] = "idle"
    /\ Listens(i, k)
    /\ WorkerNotifier(i, k) \in full[i]
    /\ full' = [full EXCEPT ![i] = @ \ {WorkerNotifier(i, k)}]
    /\ GoesOn(i, k)
    /\ UNCHANGED <<busVars, hand, batch, eventVars, txVars, orphans, hookVars>>

Poll(i, k) ==
    /\ worker[i][k] = "idle"
    /\ k \in config[i].polls
    /\ GoesOn(i, k)
    /\ UNCHANGED <<busVars, hand, batch, full, eventVars, txVars, orphans, hookVars>>

Exit(i, k) ==
    /\ worker[i][k] = "idle"
    /\ Stopping(i, k)
    /\ Becomes(i, k, "off")
    /\ UNCHANGED <<busVars, hand, batch, full, eventVars, txVars, orphans, hookVars>>

-----------------------------------------------------------------------------
(* RunSQLWorkers.                                                          *)

Advance(i, to) == stage' = [stage EXCEPT ![i] = to]

\* OnStart, first half: check what the queue worker needs, and start it.  Its
\* first step is the recovery drain.
StartQueueWorker(i) ==
    /\ stage[i] = "down"
    /\ Limits(i).started
    /\ IF config[i].deps
       THEN Advance(i, "starting") /\ Becomes(i, "queue", "work")
       ELSE Advance(i, "failed") /\ UNCHANGED worker
    /\ UNCHANGED <<busVars, hand, batch, full, eventVars, txVars, orphans, config, outages>>

\* OnStart, second half.  When something is missing for the outbox worker it
\* returns an error, and Fx does not call OnStop.
StartOutboxWorker(i) ==
    /\ stage[i] = "starting"
    /\ CASE config[i].outbox = "none" -> Advance(i, "running") /\ UNCHANGED worker
         [] config[i].outbox = "ok" ->
                Advance(i, "running") /\ Becomes(i, "outbox", "work")
         [] OTHER -> Advance(i, "failed") /\ UNCHANGED worker
    /\ UNCHANGED <<busVars, hand, batch, full, eventVars, txVars, orphans, config, outages>>

\* Something ends process i, now or in time.
Outage(i) ==
    /\ outages < Limits(i).outages
    /\ outages' = outages + 1

\* Mutant: OnStop stops the outbox worker first.
StopOutboxFirst(i) ==
    /\ stage[i] = "running"
    /\ Outage(i)
    /\ Advance(i, "stopOutbox")
    /\ UNCHANGED <<busVars, workVars, full, eventVars, txVars, orphans, config>>

\* OnStop: queueWorker.Stop closes its stopChan and waits.
StopQueueWorker(i) ==
    /\ stage[i] = "running"
    /\ Outage(i)
    /\ Advance(i, "stopQueue")
    /\ UNCHANGED <<busVars, workVars, full, eventVars, txVars, orphans, config>>

\* Mutant: queueWorker.Stop does not wait for the command under way.
StopOutboxAtOnce(i) ==
    /\ stage[i] = "stopQueue"
    /\ Advance(i, "stopOutbox")
    /\ UNCHANGED <<busVars, workVars, full, eventVars, txVars, orphans, config, outages>>

\* Then outboxWorker.Stop does the same.
StopOutboxWorker(i) ==
    /\ stage[i] = "stopQueue"
    /\ worker[i]["queue"] = "off"
    /\ Advance(i, "stopOutbox")
    /\ UNCHANGED <<busVars, workVars, full, eventVars, txVars, orphans, config, outages>>

\* Everything in the process is gone, its transactions are rolled back; its next
\* start makes new notifiers.
ProcessEnds(i) ==
    /\ BusEnds(i)
    /\ Advance(i, "down")
    /\ worker' = [worker EXCEPT ![i] = [k \in Kinds |-> "off"]]
    /\ PutDown(i)
    /\ batch' = [batch EXCEPT ![i] = {}]
    /\ full' = [full EXCEPT ![i] = {}]
    /\ hooks' = [hooks EXCEPT ![i] = 0]
    /\ open' = [open EXCEPT ![i] = 0]
    /\ orphans' = orphans \cup (hand[i] \ Own(i))
    /\ UNCHANGED <<eventVars, external, config>>

\* OnStop returns, and the process exits.
Stopped(i) ==
    /\ stage[i] = "stopOutbox"
    /\ worker[i]["outbox"] = "off"
    /\ ProcessEnds(i)
    /\ UNCHANGED outages

Crash(i) ==
    /\ stage[i] # "down"
    /\ Outage(i)
    /\ ProcessEnds(i)

-----------------------------------------------------------------------------

Init ==
    /\ BusInit
    /\ config \in Configs
    /\ stage = [i \in Instances |-> "down"]
    /\ worker = [i \in Instances |-> [k \in Kinds |-> "off"]]
    /\ hand = [i \in Instances |-> {}]
    /\ batch = [i \in Instances |-> {}]
    /\ full = [i \in Instances |-> {}]
    /\ events = {}
    /\ saved = 0
    /\ hooks = [i \in Instances |-> 0]
    /\ open = [i \in Instances |-> 0]
    /\ external = 0
    /\ orphans = {}
    /\ outages = 0

\* The transactions of other goroutines.
Transact(i) ==
    \/ CommitManaged(i) \/ RunHook(i) \/ PublishManually(i) \/ EndManual(i)

ProcessNext(i) ==
    \/ Fetch(i)          \/ FetchNothing(i) \/ Commit(i)        \/ RunCommandHook(i)
    \/ NotifyOutbox(i)   \/ HandlerFails(i) \/ RecordFailure(i) \/ QueueBreaks(i)

ProcessBatch(i) == ReadBatch(i) \/ Relay(i) \/ OutboxBreaks(i)

RunWorker(i, k) ==
    \/ k = "queue" /\ ProcessNext(i)
    \/ k = "outbox" /\ ProcessBatch(i)
    \/ WakeUp(i, k) \/ Poll(i, k) \/ Exit(i, k)

Hook(i) ==
    \/ StartQueueWorker(i) \/ StartOutboxWorker(i)
    \/ StopOutboxWorker(i) \/ Stopped(i)

Next ==
    \/ \E s \in Senders : BusStep(s) \/ SignalCommand(s)
    \/ \E i \in Instances :
        \/ Expire(i) /\ UNCHANGED appVars
        \/ Transact(i)
        \/ \E k \in Kinds : RunWorker(i, k)
        \/ Hook(i) \/ StopQueueWorker(i) \/ Crash(i)

Spec == Init /\ [][Next]_vars

\* The Go scheduler runs every goroutine and calls return; a cached count grows
\* old; select does not overlook the closed stopChan for ever; a process that
\* went down is started again.  A client that is told ErrQueueFull retries (the
\* answer 503 with Retry-After the guide proposes); whether a caller ends the
\* transaction it has begun is left open.
Fairness ==
    /\ \A s \in Senders : WF_vars(pc[s] # "idle" /\ (BusStep(s) \/ SignalCommand(s)))
    /\ \A i \in Instances :
        /\ WF_vars(Expire(i) /\ UNCHANGED appVars)
        /\ WF_vars(Hook(i))
        /\ WF_vars(RunHook(i))
        /\ \A k \in Kinds : WF_vars(RunWorker(i, k)) /\ SF_vars(Exit(i, k))

FairSpec == Spec /\ Fairness

-----------------------------------------------------------------------------
(* Correctness.                                                            *)

\* A worker is at one command at a time.
Hands == {{}} \cup {{c} : c \in Rows}

TypeOK ==
    /\ BusTypeOK
    /\ config \in Configs
    /\ stage \in [Instances -> Stages]
    /\ worker \in [Instances -> [Kinds -> QueueLocations \cup OutboxLocations]]
    /\ hand \in [Instances -> Hands]
    /\ batch \in [Instances -> SUBSET Events]
    /\ full \in [Instances -> SUBSET Notifiers]
    /\ events \in SUBSET Events
    /\ saved \in Nat
    /\ hooks \in [Instances -> Nat]
    /\ open \in [Instances -> Nat]
    /\ external \in Nat
    /\ orphans \in SUBSET Rows
    /\ outages \in Nat

\* OnStart has failed after it has started the queue worker.
HalfStarted(i) ==
    stage[i] = "failed" /\ config[i].deps /\ config[i].outbox = "incomplete"

\* Whoever starts a worker is going to stop it: a worker runs only while OnStop
\* has not passed it by.  The code has one exception, the queue worker of a
\* half-started process, which goes on executing commands (module.go:386-391).
NoStrayWorker ==
    \A i \in Instances : \A k \in Kinds :
        worker[i][k] # "off" =>
            \/ stage[i] \in {"starting", "running", "stopQueue"}
            \/ stage[i] = "stopOutbox" /\ k = "outbox"
            \/ HalfStarted(i) /\ k = "queue"

\* From OnStart's return on, a queue worker never runs without the outbox worker
\* that publishes its events, also while both are being stopped.
OutboxOutlivesQueue ==
    \A i \in Instances :
        /\ stage[i] \notin {"starting", "failed"}
        /\ config[i].outbox = "ok"
        /\ worker[i]["queue"] # "off"
        => worker[i]["outbox"] # "off"

\* A worker waits in its select, and no signal is there for it.
Asleep(i, k) ==
    /\ worker[i][k] = "idle"
    /\ ~Stopping(i, k)
    /\ WorkerNotifier(i, k) \notin full[i]

\* The commands sent in process i that no worker has in hand, except those that
\* came back to the queue without a signal, when another process went down.
Unattended(i) ==
    {c \in Own(i) \ orphans : \A j \in Instances : c \notin hand[j]}

\* The records process i has saved, except those for which the signal came before
\* the commit.
Announced(i) == {e \in events : e.from = i /\ ~e.late}

\* Process i is about to signal its outbox worker.
AboutToNotify(i) == hooks[i] > 0 \/ worker[i]["queue"] \in {"hooks", "notify"}

\* While no call fails, wake-ups alone leave nothing behind: a queue worker that
\* listens does not sleep over a command of its process that nobody attends to,
\* unless the Send is about to signal it; nor an outbox worker over an event, but
\* for those of manual transactions, unless the process is about to signal it.
\* (It is not enough that the table was empty when the worker looked: SKIP LOCKED
\* hides commands, and a batch below the limit ends the drain whatever was saved
\* since it was read.)
NoLostSignal ==
    failures = 0 =>
        \A i \in Instances :
            /\ config[i].wakeup /\ Asleep(i, "queue") /\ Unattended(i) # {} =>
                   At(i, {"count", "notify"}) # {}
            /\ Asleep(i, "outbox") /\ Announced(i) # {} => AboutToNotify(i)

\* The queue worker of the process hears of every command: by polling, or by
\* signals, which suffice as long as no call fails.
Serves(i) ==
    /\ config[i].deps
    /\ "queue" \in config[i].polls \/ (config[i].wakeup /\ failures = 0)

\* And its outbox worker of every event that is announced.
Relays(i) ==
    /\ config[i].deps /\ config[i].outbox = "ok"
    /\ "outbox" \in config[i].polls \/ failures = 0

\* When sending has come to an end (as the bounds make it), no client is left that
\* is refused again and again, or waits in the check: neither a stale count nor a
\* worker that was not woken up keeps the queue closed.  With polling disabled
\* this takes that no call fails; a row whose insert was reported as an error may
\* fill the queue, and refused Sends do not wake the worker up.
EventuallyAccepted ==
    <>[](\A s \in Senders :
            pc[s] \in Checking \cup {"refused"} => ~Serves(InstanceOf[s]))

\* The records an outbox worker hears of: to poll is the only way to find those
\* that were committed after their signal.
Due(i) ==
    IF "outbox" \in config[i].polls THEN {e \in events : e.from = i} ELSE Announced(i)

\* Every command is executed and every event relayed, in each configuration the
\* module accepts, when no more of them come: the buses signal the notifiers their
\* workers listen to, and what a process had in hand when it went down is found
\* when it starts again.  Only the events of manual transactions take an outbox
\* worker that polls.
EventuallyWorkedOff ==
    <>[](\A i \in Instances :
            /\ Serves(i) => Own(i) = {}
            /\ Relays(i) => Due(i) = {})
=============================================================================
