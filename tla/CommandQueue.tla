---------------------------- MODULE CommandQueue ----------------------------
(***************************************************************************)
(* The SQL command queue: the command_executions table, CommandBus.Send    *)
(* that inserts into it, and the goroutines of SQLCommandQueueWorker that  *)
(* drain it.  Several application instances may share the database; each   *)
(* has its own workers, senders and in-process wake-up channel.            *)
(***************************************************************************)
EXTENDS Naturals, FiniteSets

CONSTANTS
    Commands,       \* command identifiers
    NoCommand,      \* "no command in hand"
    Instances,      \* application processes sharing the database
    Workers,        \* worker goroutines of all instances
    Senders,        \* goroutines that call CommandBus.Send
    InstanceOf,     \* the instance each worker and sender lives in
    Runnable,       \* commands with a registered handler and a payload it decodes
    SkipLocked,     \* DialectMySQL: row locks with SKIP LOCKED, else SQLite
    PollEnabled,    \* PollInterval > 0
    WakeupEnabled,  \* Notifier configured and DisableWakeup false
    MaxSends,       \* bound: submissions per command identifier
    MaxTime,        \* bound: ticks of the database clock
    MaxDbErrors,    \* bound: failing database calls
    MaxOutages      \* bound: crashes, stops and context cancellations

\* The roles: a sender is no worker, and an instance runs at least one worker.
ASSUME RolesAssumption ==
    /\ NoCommand \notin Commands
    /\ Runnable \subseteq Commands
    /\ Workers \cap Senders = {}
    /\ InstanceOf \in [Workers \cup Senders -> Instances]
    /\ IsFiniteSet(Workers)
    /\ \A i \in Instances : \E w \in Workers : InstanceOf[w] = i

\* Start runs config.Concurrency goroutines; the constructor forces 1 when the
\* dialect is not MySQL.
ASSUME ConcurrencyAssumption ==
    SkipLocked \/ \A v, w \in Workers : InstanceOf[v] = InstanceOf[w] => v = w

ASSUME BoundsAssumption ==
    /\ {MaxSends, MaxTime, MaxDbErrors, MaxOutages} \subseteq Nat
    /\ {SkipLocked, PollEnabled, WakeupEnabled} \subseteq BOOLEAN

VARIABLES
    row,         \* committed rows of command_executions
    effects,     \* committed handler writes, counted per submission
    now,         \* CURRENT_TIMESTAMP, in seconds
    pc,          \* where each worker goroutine is
    tx,          \* the transaction (and command) each worker has in hand
    token,       \* the wake-up channel of each instance holds a signal
    outboxToken, \* the outbox wake-up channel of each instance holds a signal
    sending,     \* senders between RecordPending and Notify
    life,        \* each instance's process
    dbErrors,    \* database calls that failed so far
    outages      \* crashes, stops and cancellations so far

vars == <<row, effects, now, pc, tx, token, outboxToken, sending,
          life, dbErrors, outages>>

dbVars == <<row, effects>>
signalVars == <<token, outboxToken, sending>>
envVars == <<now, life, outages>>

-----------------------------------------------------------------------------
(* Types.                                                                  *)

Statuses == {"none", "pending", "success", "failed"}

\* startedAt is the row's own time, by which the queue is ordered; visibleAt is
\* history: when the Send that wrote the row took effect.
Rows == [status : Statuses, sub : 0..MaxSends, startedAt : 0..MaxTime,
         visibleAt : 0..MaxTime]

NoRow == [status |-> "none", sub |-> 0, startedAt |-> 0, visibleAt |-> 0]

\* A transaction sees its own uncommitted version of the row; wrote says that
\* the handler has written domain rows and outbox events in it.
Transactions == [cmd : Commands \cup {NoCommand}, view : Rows, wrote : BOOLEAN]

NoTx == [cmd |-> NoCommand, view |-> NoRow, wrote |-> FALSE]

\* Where a worker is while its transaction is open (and its row locked).
InTxLocations == {"fetched", "started", "handled", "recorded"}

Locations == InTxLocations \cup
    {"off", "idle", "drain", "begin", "committed", "recordFailure", "backoff"}

Lives == {"down", "up", "stopping", "cancelled"}

-----------------------------------------------------------------------------
(* The database.                                                           *)

InTx(w) == pc[w] \in InTxLocations

Pending == {c \in Commands : row[c].status = "pending"}

\* Mutant: the query without FOR UPDATE.
LockedNever(c) == FALSE

Locked(c) == \E w \in Workers : InTx(w) /\ tx[w].cmd = c

\* A write to c waits: for the row lock in MySQL, for the one writer in SQLite.
WriteWaits(c) ==
    \/ Locked(c)
    \/ ~SkipLocked /\ \E w \in Workers : InTx(w)

\* Mutant: the query without ORDER BY.
NextPendingUnordered == {c \in Pending : ~Locked(c)}

\* SELECT ... WHERE status = 'pending' ORDER BY started_at LIMIT 1 [SKIP LOCKED]
NextPending ==
    LET visible == {c \in Pending : ~Locked(c)}
    IN  {c \in visible : \A d \in visible : row[c].startedAt <= row[d].startedAt}

\* CURRENT_TIMESTAMP of a Send that takes effect now: SQLite evaluates it under
\* its write lock; in MySQL it is the start of the statement, which may since have
\* waited for a lock or for its turn.
SendTimes == IF SkipLocked THEN 0..now ELSE {now}

\* Upsert of Send: a row in any state becomes pending again, under a new time.
RecordPending(c) ==
    \E t \in SendTimes :
        row' = [row EXCEPT ![c] = [status    |-> "pending",
                                   sub       |-> @.sub + 1,
                                   startedAt |-> t,
                                   visibleAt |-> now]]

\* The connection fails a bounded number of calls.
ConnectionFails ==
    /\ dbErrors < MaxDbErrors
    /\ dbErrors' = dbErrors + 1

\* Whether a worker's call fails: a cancelled context fails every call.
CallFails(i) ==
    IF life[i] = "cancelled" THEN UNCHANGED dbErrors ELSE ConnectionFails

CallWorks(i) ==
    /\ life[i] # "cancelled"
    /\ UNCHANGED dbErrors

-----------------------------------------------------------------------------
(* CommandBus.Send, after the capacity check.                              *)

Send(s, c) ==
    /\ life[InstanceOf[s]] # "down"
    /\ s \notin sending
    /\ row[c].sub < MaxSends
    /\ ~WriteWaits(c)
    /\ RecordPending(c)
    /\ sending' = sending \cup {s}
    /\ UNCHANGED <<effects, pc, tx, token, outboxToken, dbErrors, envVars>>

\* The row is written but the answer is lost: Send returns an error, no Notify.
SendAnswerLost(s, c) ==
    /\ life[InstanceOf[s]] # "down"
    /\ s \notin sending
    /\ row[c].sub < MaxSends
    /\ ~WriteWaits(c)
    /\ ConnectionFails
    /\ RecordPending(c)
    /\ UNCHANGED <<effects, pc, tx, signalVars, envVars>>

\* Mutant: the bus notifies a channel of its own, to which no worker listens.
NotifyIsolated(s) ==
    /\ s \in sending
    /\ sending' = sending \ {s}
    /\ UNCHANGED <<dbVars, pc, tx, token, outboxToken, dbErrors, envVars>>

\* channelNotifier.Notify: a full channel swallows the signal.
Notify(s) ==
    /\ s \in sending
    /\ sending' = sending \ {s}
    /\ token' = [token EXCEPT ![InstanceOf[s]] = @ \/ WakeupEnabled]
    /\ UNCHANGED <<dbVars, pc, tx, outboxToken, dbErrors, envVars>>

-----------------------------------------------------------------------------
(* processNext: one transaction that fetches, runs and records a command.  *)

\* BeginTx and GetNextPending find a command.
Fetch(w) ==
    /\ pc[w] = "begin"
    /\ CallWorks(InstanceOf[w])
    /\ SkipLocked \/ \A v \in Workers : ~InTx(v)
    /\ \E c \in NextPending :
        tx' = [tx EXCEPT ![w] = [cmd |-> c, view |-> row[c], wrote |-> FALSE]]
    /\ pc' = [pc EXCEPT ![w] = "fetched"]
    /\ UNCHANGED <<dbVars, signalVars, envVars>>

\* GetNextPending finds none: drain returns and the worker goes to sleep.
FetchNothing(w) ==
    /\ pc[w] = "begin"
    /\ CallWorks(InstanceOf[w])
    /\ SkipLocked \/ \A v \in Workers : ~InTx(v)
    /\ \A c \in Pending : Locked(c)
    /\ pc' = [pc EXCEPT ![w] = "idle"]
    /\ UNCHANGED <<dbVars, tx, signalVars, envVars>>

\* Mutant: RecordStarted writes the status 'started' the guide speaks of.
RecordStartedAsDocumented(w) ==
    /\ pc[w] = "fetched"
    /\ tx[w].cmd \in Runnable
    /\ CallWorks(InstanceOf[w])
    /\ tx' = [tx EXCEPT ![w].view.status = "started", ![w].view.startedAt = now]
    /\ pc' = [pc EXCEPT ![w] = "started"]
    /\ UNCHANGED <<dbVars, signalVars, envVars>>

\* The status stays 'pending' while the command runs.
RecordStarted(w) ==
    /\ pc[w] = "fetched"
    /\ tx[w].cmd \in Runnable
    /\ CallWorks(InstanceOf[w])
    /\ tx' = [tx EXCEPT ![w].view.status = "pending", ![w].view.startedAt = now]
    /\ pc' = [pc EXCEPT ![w] = "started"]
    /\ UNCHANGED <<dbVars, signalVars, envVars>>

\* Mutant: the handler gets the connection pool instead of the transaction.
HandleOutsideTx(w) ==
    /\ pc[w] = "started"
    /\ effects' = [effects EXCEPT ![tx[w].cmd][tx[w].view.sub] = @ + 1]
    /\ pc' = [pc EXCEPT ![w] = "handled"]
    /\ UNCHANGED <<row, tx, signalVars, dbErrors, envVars>>

\* The handler returns nil, its writes still inside the transaction.
Handle(w) ==
    /\ pc[w] = "started"
    /\ tx' = [tx EXCEPT ![w].wrote = TRUE]
    /\ pc' = [pc EXCEPT ![w] = "handled"]
    /\ UNCHANGED <<dbVars, signalVars, dbErrors, envVars>>

\* Mutant: the handler's error is noted but not returned from the callback.
HandleErrorSwallowed(w) ==
    /\ pc[w] = "started"
    /\ pc' = [pc EXCEPT ![w] = "handled"]
    /\ UNCHANGED <<dbVars, tx, signalVars, dbErrors, envVars>>

\* Mutant: a handler's error is retried after the backoff and never recorded.
HandleErrorRetried(w) ==
    /\ pc[w] = "started"
    /\ tx' = [tx EXCEPT ![w] = NoTx]
    /\ pc' = [pc EXCEPT ![w] = "backoff"]
    /\ UNCHANGED <<dbVars, signalVars, dbErrors, envVars>>

\* The handler returns an error: rollback, which also releases the row lock.
HandleError(w) ==
    /\ pc[w] = "started"
    /\ tx' = [tx EXCEPT ![w] = [NoTx EXCEPT !.cmd = tx[w].cmd]]
    /\ pc' = [pc EXCEPT ![w] = "recordFailure"]
    /\ UNCHANGED <<dbVars, signalVars, dbErrors, envVars>>

RecordSuccess(w) ==
    /\ pc[w] = "handled"
    /\ CallWorks(InstanceOf[w])
    /\ tx' = [tx EXCEPT ![w].view.status = "success"]
    /\ pc' = [pc EXCEPT ![w] = "recorded"]
    /\ UNCHANGED <<dbVars, signalVars, envVars>>

\* What a committed transaction leaves in the database.
ApplyTx(w) ==
    LET c == tx[w].cmd
        s == tx[w].view.sub
    IN  /\ row' = [row EXCEPT ![c] = tx[w].view]
        /\ effects' = [effects EXCEPT ![c][s] = IF tx[w].wrote THEN @ + 1 ELSE @]

Commit(w) ==
    /\ pc[w] = "recorded"
    /\ CallWorks(InstanceOf[w])
    /\ ApplyTx(w)
    /\ tx' = [tx EXCEPT ![w] = NoTx]
    /\ pc' = [pc EXCEPT ![w] = "committed"]
    /\ UNCHANGED <<signalVars, envVars>>

-----------------------------------------------------------------------------
(* What drain does with the outcome of processNext.                        *)

\* After a processed command drain wakes the instance's other workers.
WakePeers(w) ==
    LET peer == \E v \in Workers \ {w} : InstanceOf[v] = InstanceOf[w]
    IN  token' = [token EXCEPT ![InstanceOf[w]] = @ \/ (WakeupEnabled /\ peer)]

\* processNext wakes the outbox worker and returns (true, nil).
AfterCommit(w) ==
    /\ pc[w] = "committed"
    /\ outboxToken' = [outboxToken EXCEPT ![InstanceOf[w]] = TRUE]
    /\ WakePeers(w)
    /\ pc' = [pc EXCEPT ![w] = "drain"]
    /\ UNCHANGED <<dbVars, tx, sending, dbErrors, envVars>>

\* The failure is written outside the transaction, whatever the row says now.
RecordFailure(w) ==
    /\ pc[w] = "recordFailure"
    /\ ~WriteWaits(tx[w].cmd)
    /\ CallWorks(InstanceOf[w])
    /\ row' = [row EXCEPT ![tx[w].cmd].status = "failed"]
    /\ WakePeers(w)
    /\ tx' = [tx EXCEPT ![w] = NoTx]
    /\ pc' = [pc EXCEPT ![w] = "drain"]
    /\ UNCHANGED <<effects, outboxToken, sending, envVars>>

\* An error of RecordFailure is only logged: processNext returns (true, nil).
RecordFailureLost(w) ==
    /\ pc[w] = "recordFailure"
    /\ CallFails(InstanceOf[w])
    /\ WakePeers(w)
    /\ tx' = [tx EXCEPT ![w] = NoTx]
    /\ pc' = [pc EXCEPT ![w] = "drain"]
    /\ UNCHANGED <<dbVars, outboxToken, sending, envVars>>

\* processNext returns an error: rollback, and drain ends after the backoff.
GiveUp(w) ==
    /\ tx' = [tx EXCEPT ![w] = NoTx]
    /\ pc' = [pc EXCEPT ![w] = "backoff"]

\* No handler is registered for the command, or its payload does not decode.
NotRunnable(w) ==
    /\ pc[w] = "fetched"
    /\ tx[w].cmd \notin Runnable
    /\ GiveUp(w)
    /\ UNCHANGED <<dbVars, signalVars, dbErrors, envVars>>

\* BeginTx, GetNextPending, RecordStarted, RecordSuccess or Commit fails.
DbError(w) ==
    /\ pc[w] \in {"begin", "fetched", "handled", "recorded"}
    /\ CallFails(InstanceOf[w])
    /\ GiveUp(w)
    /\ UNCHANGED <<dbVars, signalVars, envVars>>

\* The database commits but the answer is lost, so Commit reports an error.
CommitAnswerLost(w) ==
    /\ pc[w] = "recorded"
    /\ life[InstanceOf[w]] # "cancelled"
    /\ ConnectionFails
    /\ ApplyTx(w)
    /\ GiveUp(w)
    /\ UNCHANGED <<signalVars, envVars>>

-----------------------------------------------------------------------------
(* runWorker: the select loop around drain.                                *)

BackoffOver(w) ==
    /\ pc[w] = "backoff"
    /\ pc' = [pc EXCEPT ![w] = "idle"]
    /\ UNCHANGED <<dbVars, tx, signalVars, dbErrors, envVars>>

Poll(w) ==
    /\ pc[w] = "idle"
    /\ PollEnabled
    /\ pc' = [pc EXCEPT ![w] = "drain"]
    /\ UNCHANGED <<dbVars, tx, signalVars, dbErrors, envVars>>

WakeUp(w) ==
    /\ pc[w] = "idle"
    /\ token[InstanceOf[w]]
    /\ token' = [token EXCEPT ![InstanceOf[w]] = FALSE]
    /\ pc' = [pc EXCEPT ![w] = "drain"]
    /\ UNCHANGED <<dbVars, tx, outboxToken, sending, dbErrors, envVars>>

Ending(i) == life[i] \in {"stopping", "cancelled"}

\* drain looks at stopChan and ctx.Done() before each command, and only then.
Drain(w) ==
    /\ pc[w] = "drain"
    /\ pc' = [pc EXCEPT ![w] = IF Ending(InstanceOf[w]) THEN "idle" ELSE "begin"]
    /\ UNCHANGED <<dbVars, tx, signalVars, dbErrors, envVars>>

\* Mutant: the select has no case for stopChan.
ExitOnCancelOnly(w) ==
    /\ pc[w] = "idle"
    /\ life[InstanceOf[w]] = "cancelled"
    /\ pc' = [pc EXCEPT ![w] = "off"]
    /\ UNCHANGED <<dbVars, tx, signalVars, dbErrors, envVars>>

Exit(w) ==
    /\ pc[w] = "idle"
    /\ Ending(InstanceOf[w])
    /\ pc' = [pc EXCEPT ![w] = "off"]
    /\ UNCHANGED <<dbVars, tx, signalVars, dbErrors, envVars>>

-----------------------------------------------------------------------------
(* Instances start, stop and crash; time passes.                           *)

WorkersOf(i) == {w \in Workers : InstanceOf[w] = i}

\* Mutant: no recovery drain, the workers begin in the select.
StartIdle(i) ==
    /\ life[i] = "down"
    /\ life' = [life EXCEPT ![i] = "up"]
    /\ pc' = [w \in Workers |-> IF w \in WorkersOf(i) THEN "idle" ELSE pc[w]]
    /\ token' = [token EXCEPT ![i] = FALSE]
    /\ outboxToken' = [outboxToken EXCEPT ![i] = FALSE]
    /\ UNCHANGED <<dbVars, tx, sending, now, dbErrors, outages>>

\* Every worker begins with a recovery drain; the channels are new.
Start(i) ==
    /\ life[i] = "down"
    /\ life' = [life EXCEPT ![i] = "up"]
    /\ pc' = [w \in Workers |-> IF w \in WorkersOf(i) THEN "drain" ELSE pc[w]]
    /\ token' = [token EXCEPT ![i] = FALSE]
    /\ outboxToken' = [outboxToken EXCEPT ![i] = FALSE]
    /\ UNCHANGED <<dbVars, tx, sending, now, dbErrors, outages>>

\* Stop closes stopChan; a cancelled context also fails the calls under way.
Stop(i) ==
    /\ life[i] = "up"
    /\ outages < MaxOutages
    /\ outages' = outages + 1
    /\ \E how \in {"stopping", "cancelled"} : life' = [life EXCEPT ![i] = how]
    /\ UNCHANGED <<dbVars, now, pc, tx, signalVars, dbErrors>>

\* The process is gone, and with it its goroutines and open transactions.
ProcessEnds(i) ==
    /\ life' = [life EXCEPT ![i] = "down"]
    /\ pc' = [w \in Workers |-> IF w \in WorkersOf(i) THEN "off" ELSE pc[w]]
    /\ tx' = [w \in Workers |-> IF w \in WorkersOf(i) THEN NoTx ELSE tx[w]]
    /\ sending' = {s \in sending : InstanceOf[s] # i}
    /\ UNCHANGED <<dbVars, now, token, outboxToken, dbErrors>>

\* wg.Wait returns once every worker has left its loop.
Stopped(i) ==
    /\ Ending(i)
    /\ \A w \in WorkersOf(i) : pc[w] = "off"
    /\ ProcessEnds(i)
    /\ UNCHANGED outages

\* Also what a panicking handler leads to: rollback, re-panic, process exit.
Crash(i) ==
    /\ life[i] # "down"
    /\ outages < MaxOutages
    /\ outages' = outages + 1
    /\ ProcessEnds(i)

Tick ==
    /\ now < MaxTime
    /\ now' = now + 1
    /\ UNCHANGED <<dbVars, pc, tx, signalVars, life, dbErrors, outages>>

-----------------------------------------------------------------------------

Init ==
    /\ row = [c \in Commands |-> NoRow]
    /\ effects = [c \in Commands |-> [s \in 0..MaxSends |-> 0]]
    /\ now = 0
    /\ pc = [w \in Workers |-> "off"]
    /\ tx = [w \in Workers |-> NoTx]
    /\ token = [i \in Instances |-> FALSE]
    /\ outboxToken = [i \in Instances |-> FALSE]
    /\ sending = {}
    /\ life = [i \in Instances |-> "down"]
    /\ dbErrors = 0
    /\ outages = 0

ProcessNext(w) ==
    \/ Fetch(w)         \/ FetchNothing(w)  \/ RecordStarted(w)
    \/ Handle(w)        \/ HandleError(w)   \/ RecordSuccess(w)
    \/ Commit(w)        \/ AfterCommit(w)   \/ RecordFailure(w)
    \/ NotRunnable(w)   \/ DbError(w)       \/ CommitAnswerLost(w)
    \/ RecordFailureLost(w)

RunWorker(w) ==
    \/ ProcessNext(w)
    \/ BackoffOver(w) \/ Poll(w) \/ WakeUp(w) \/ Drain(w) \/ Exit(w)

Next ==
    \/ \E w \in Workers : RunWorker(w)
    \/ \E s \in Senders :
        \/ Notify(s)
        \/ \E c \in Commands : Send(s, c) \/ SendAnswerLost(s, c)
    \/ \E i \in Instances : Start(i) \/ Stop(i) \/ Stopped(i) \/ Crash(i)
    \/ Tick

Spec == Init /\ [][Next]_vars

\* The Go scheduler runs every goroutine, calls and handlers return, select
\* does not overlook the closed stopChan for ever, and an instance that went
\* down is started again.  Clients owe nothing.
Fairness ==
    /\ \A w \in Workers : WF_vars(RunWorker(w)) /\ SF_vars(Exit(w))
    /\ \A s \in Senders : WF_vars(Notify(s))
    /\ \A i \in Instances : WF_vars(Start(i)) /\ WF_vars(Stopped(i))

FairSpec == Spec /\ Fairness

-----------------------------------------------------------------------------
(* Correctness.                                                            *)

TypeOK ==
    /\ row \in [Commands -> Rows]
    /\ effects \in [Commands -> [0..MaxSends -> Nat]]
    /\ now \in 0..MaxTime
    /\ pc \in [Workers -> Locations]
    /\ tx \in [Workers -> Transactions]
    /\ token \in [Instances -> BOOLEAN]
    /\ outboxToken \in [Instances -> BOOLEAN]
    /\ sending \subseteq Senders
    /\ life \in [Instances -> Lives]
    /\ dbErrors \in 0..MaxDbErrors
    /\ outages \in 0..MaxOutages

\* A submission's handler writes are committed at most once, whichever workers
\* race for it, fail, crash and retry (GetNextPending, WithinTransaction).
AtMostOnceEffect ==
    \A c \in Commands : \A s \in 0..MaxSends : effects[c][s] <= 1

\* A client that reads 'success' finds the handler's writes in the database.
SuccessMeansApplied ==
    \A c \in Commands :
        row[c].status = "success" => effects[c][row[c].sub] = 1

\* What a drain picks up has left no trace, so that a retry after a crash or an
\* error starts from nothing (all of processNext is in one transaction).
PendingMeansUntouched ==
    \A c \in Pending : effects[c][row[c].sub] = 0

\* A client that reads 'failed' can rely on the rollback of the handler.
FailedMeansUntouched ==
    \A c \in Commands :
        row[c].status = "failed" => effects[c][row[c].sub] = 0

\* An open transaction works on the current submission of a command that is
\* still pending, and holds what its next step is going to commit.
TransactionInv ==
    \A w \in Workers : InTx(w) =>
        /\ tx[w].cmd \in Pending
        /\ tx[w].view.sub = row[tx[w].cmd].sub
        /\ pc[w] \in {"handled", "recorded"} => tx[w].wrote
        /\ pc[w] = "recorded" => tx[w].view.status = "success"

\* No command is in the hands of two transactions (FOR UPDATE SKIP LOCKED).
LocksExclusive ==
    \A v, w \in Workers :
        InTx(v) /\ InTx(w) /\ tx[v].cmd = tx[w].cmd => v = w

\* A submission yet to come has no effects.
FutureUntouched ==
    \A c \in Commands : \A s \in 0..MaxSends :
        s > row[c].sub => effects[c][s] = 0

\* What makes AtMostOnceEffect and SuccessMeansApplied inductive.
EffectInv ==
    /\ AtMostOnceEffect
    /\ SuccessMeansApplied
    /\ PendingMeansUntouched
    /\ FutureUntouched

\* One application process with a Concurrency of 1 (the only one on SQLite).
SingleWorker == \A v, w \in Workers : v = w

\* With a single worker, the failure about to be recorded is that of a command
\* nobody else has finished.
FailureInv ==
    \A w \in Workers : pc[w] = "recordFailure" => tx[w].cmd \in Pending

\* With wake-ups on, and while every database call is answered and every queued
\* command has a handler, a queued command has a worker under way to it, a
\* signal in a channel, a Send about to notify, or an instance yet to start.
NoLostWakeup ==
    /\ WakeupEnabled
    /\ dbErrors = 0
    /\ Pending # {}
    /\ Pending \subseteq Runnable
    /\ \A i \in Instances : life[i] = "up"
    => \/ \E i \in Instances : token[i]
       \/ \E w \in Workers : pc[w] \notin {"off", "idle", "backoff"}
       \/ sending # {}

\* The queued commands that are older than c and were there before it.
Overtaken(c) ==
    {d \in Pending : /\ row[d].startedAt < row[c].startedAt
                     /\ row[d].visibleAt < row[c].visibleAt}

\* How many commands can be in hand at once.
MostInHand == IF SkipLocked THEN Cardinality(Workers) ELSE 1

\* Workers overtake few: when a command succeeds, of the older ones that were in
\* the queue before it at most as many are still waiting as the other workers can
\* have had in hand when it was fetched, whatever is rolled back, crashes or is
\* sent again meanwhile; on SQLite none is.  (ORDER BY started_at LIMIT 1, FOR
\* UPDATE SKIP LOCKED.  On SQLite older means there before; on MySQL a statement
\* that waits brings its command late, with a time that others have gone past.)
FewOvertaken ==
    [][\A c \in Commands :
          row[c].status = "pending" /\ row'[c].status = "success"
          => Cardinality(Overtaken(c)) < MostInHand]_vars

\* A single worker keeps the contract the clients were given.
Contract == INSTANCE CommandContract WITH
    status <- [c \in Commands |-> row[c].status],
    sub    <- [c \in Commands |-> row[c].sub]

\* Every submission ends in success with its writes, or in failure without.
ImplementsContract == Contract!Spec

\* Several workers keep all of it but one thing: "failed" may be written over the
\* outcome of another worker or over a new submission (RecordFailure).  Nothing
\* else lies: a submission succeeds once, from "pending", with its writes.
ImplementsSharedContract == Contract!SharedSpec

\* A queued command with a handler is executed, successfully or not.
EventuallyProcessed ==
    \A c \in Runnable : (row[c].status = "pending") ~> (row[c].status # "pending")

\* Stop returns (wg.Wait), and so do the goroutines of a cancelled context.
StopReturns ==
    \A i \in Instances : Ending(i) ~> (life[i] = "down")
=============================================================================
