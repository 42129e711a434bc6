# Verification of watermill-cqrs-fx

TLA+ specifications of the transactional core of `pkg/cqrs`: the SQL command
queue and its workers, the command bus in front of it with its limit and `Wait`,
the message-driven command path, the transactional outbox with its worker, and
the application that Fx composes of them, with their model-checked instances
(TLC) and machine-checked proofs (TLAPS). Paths below are relative to the
repository root; file names without a directory are in `pkg/cqrs/`.

    tlc -config queue_mysql.cfg MCCommandQueue      # model-check one run
    tlapm CommandQueueProofs.tla                    # check the proofs

## The system

| Component | State it keeps | Operations | Talks to |
| --- | --- | --- | --- |
| Command bus (`command.go`) | cached count of pending commands and when it was taken; the `singleflight` group of the `COUNT` query | `Send`, `Wait`, `checkQueueCapacity` | store, notifier; message publisher when `UseSQLQueue` is false |
| Execution store (`command_execution_sql.go`) | table `command_executions`: one row per command with `status`, `started_at` | `RecordPending/Started/Success/Failure`, `GetNextPending`, `GetStatus`, `GetExecution`, `CountPending` | the database |
| Queue worker (`command_queue_worker.go`) | goroutines, `stopChan` | `Start`, `runWorker`, `drain`, `processNext`, `Stop` | store, transaction manager, handlers, both notifiers |
| Transaction manager (`outbox_sql.go`, `transaction.go`) | the open transaction and its after-commit hooks | `WithinTransaction`, `AfterCommit` | the database |
| Notifier (`notifier.go`) | a channel of capacity 1 | `Notify`, `C` | from `Send`, `drain`, `Publish` to the workers |
| Transactional handler (`module.go`) | none of its own | `Handle` | store, transaction manager; called by the Watermill router |
| Event bus, outbox (`event.go`, `outbox_sql.go`) | table `events` | `Publish`, `Save` | the transaction of the handler, hooks, outbox notifier |
| Outbox worker (`outbox_worker.go`) | one goroutine | `drain`, `processBatch`, `Stop` | table `events`, message publisher |
| Lifecycle (`module.go`, `RunSQLWorkers`) | the two workers | `OnStart`, `OnStop` | both workers |
| Query bus (`query.go`), wiring, handler adapters | handler map, fixed at construction | `Execute` | handlers |

There are two ways for a command. With `UseSQLQueue`, `Send` inserts a row with
status `pending` and signals the notifier; a worker fetches the oldest pending
row, and in one transaction runs the handler (whose domain writes and events go
into the same transaction) and sets the status to `success`. When the handler
fails, the transaction is rolled back, and a *separate* statement sets the status
to `failed`. Without `UseSQLQueue`, `Send` publishes a message, and the router
calls `transactionalCommandHandler.Handle`, which does the same around a status
lookup; the broker may deliver a message again.

What is hard here:

* *Concurrency.* Several goroutines and several processes work on one table. On
  MySQL rows are locked (`FOR UPDATE SKIP LOCKED`); on SQLite the engine runs one
  transaction at a time and the constructor allows one worker.
* *Failure.* Every database call can fail; a commit can take place and still
  report an error; processes crash, and contexts are cancelled in the middle of a
  transaction.
* *Signals.* Wake-ups coalesce, are shared by several workers, are lost with
  the process, and may come before the commit they announce or over a row that
  another process has locked.
* *Delivery.* The broker hands out copies of a message concurrently.
* *Staleness.* The bus checks its limit against a count that is cached, shared by
  concurrent calls, incremented behind the check and never decremented.
* *Start and stop.* Two workers are started and stopped one after the other, with
  notifiers that each component looks up by itself, and the start may fail halfway.

What makes each component correct:

* Queue: a submission is executed at most once; `success` means that its writes
  are there, `failed` and `pending` mean that none are; no queued command is
  forgotten, with wake-ups only or with polling only; of the older commands that
  were in the queue before, workers overtake few, and one worker none; `Stop`
  returns.
* Router path: a tracked command is executed at most once, or, where that fails, no
  more often than deliveries and consumers explain; none is lost without
  its handler having turned it down; retries stop; the client finds an outcome.
* Bus: the pending limit is exceeded by a bounded number only; `ErrQueueFull` has
  a cause and does not last; what `Wait` has returned stays true, and it returns.
* Lifecycle: no worker outlives its owner; the outbox worker outlives the queue
  worker whose events it publishes; a signal reaches the worker it is for,
  whichever notifiers the configuration names.
* Outbox: an event of a committed transaction is published at least once, an
  event of a rolled-back one never; a record is deleted only after it was
  published; duplicates come from second instances and failures only; the events of
  one transaction precede those of a later one; no committed event is forgotten; `Stop` returns.

`PROJECT.json` lists the hazards behind these, each at its line.

## Modules

| Module | What it is |
| --- | --- |
| `CommandContract` | Abstract specification: what clients of the queue may rely on. Three actions per command: `Submit`, `Succeed`, `Fail`; with several workers (`SharedSpec`) `FailLate` instead of `Fail`. |
| `CommandQueue` | Table, `Send`, workers, notifier, instances. |
| `MCCommandQueue` | Placement of workers on instances and symmetry for TLC. |
| `CommandQueueProofs` | Theorems about `CommandQueue`. |
| `CommandWait` | `CommandQueue` with clients in `Wait`. |
| `MCCommandWait` | The instance of both for TLC. |
| `CommandWaitProofs` | Theorems about `CommandWait`. |
| `CommandBus` | `Send` with the limit on pending commands; of the queue only its pending rows. |
| `CommandBusProofs` | Theorems about `CommandBus`. |
| `Application` | Composes `CommandBus` with the two workers of each process, the transactions beside theirs, the notifiers and the Fx hook. |
| `MCApplication` | The configurations and their bounds for TLC. |
| `ApplicationProofs` | Theorems about `Application`, which implements `CommandBus`. |
| `TransactionalHandler` | Broker, router and `transactionalCommandHandler.Handle`. |
| `MCTransactionalHandler` | The instance of it for TLC. |
| `TransactionalHandlerProofs` | Theorems about `TransactionalHandler`. |
| `EventDelivery` | Abstract specification: what publishers of events may rely on. Three actions: `Commit`, `Deliver`, `Settle`. |
| `Outbox` | Table `events`, transactions that publish, hooks, notifier, outbox workers, instances. |
| `MCOutbox` | Which event belongs to which transaction and which transaction runs where, for TLC. |
| `OutboxProofs` | Theorems about `Outbox`. |

Operators introduced as *Mutant* are deliberately broken forms of the definition
that follows them. They stand for plausible bugs, and every property of a passing
run is known to be violated when one of them takes the place of its original.

### CommandQueue

| Variable | Code |
| --- | --- |
| `row` | committed rows: `status`, `startedAt`, and two histories that are no columns: `sub` counts the submissions under an identifier and tells their executions apart, `visibleAt` is when the `Send` that wrote the row took effect |
| `effects` | how often a submission's handler writes were committed (domain rows and outbox events are one thing here: they share the transaction) |
| `now` | `CURRENT_TIMESTAMP` in seconds; it need not advance between two steps, so ties happen |
| `pc`, `tx` | where a goroutine is, and its transaction: the command, its own uncommitted version of the row, whether the handler has written |
| `token`, `outboxToken` | a signal is in the channel of the command notifier / outbox notifier of the instance |
| `sending` | goroutines between `RecordPending` and `Notify` in `Send` |
| `life` | a process is `down`, `up`, `stopping` (stopChan closed) or `cancelled` (context cancelled) |
| `dbErrors`, `outages` | how much of the bounds on failures has been used |

A row is locked exactly while a transaction that fetched it is open, so locks are
derived from `pc` and `tx` (`Locked`). `processNext` is one action per database
call: `Fetch` or `FetchNothing`, `RecordStarted`, `Handle` or `HandleError`,
`RecordSuccess`, `Commit`, `AfterCommit`, `RecordFailure`; `drain` and
`runWorker` are `Drain`, `BackoffOver`, `Poll`, `WakeUp`, `Exit`. Any call may end
in `DbError`, `RecordFailureLost`, `CommitAnswerLost` or, in `Send`,
`SendAnswerLost`. When a context is cancelled, every call of its workers fails,
without using up the bound. `NotRunnable` stands for both a missing handler and a
payload that does not decode: both roll back and return an error (that
`RecordStarted` comes between the two changes nothing that survives the rollback).
That an answer of `RecordFailure` is lost makes no
difference, since its error is only logged. A panic of a handler rolls back and is
raised again, which ends the process: it is
a `Crash`.

Decisions the model takes about things outside the source:

* MySQL: a write to a locked row waits; `SKIP LOCKED` skips it. Lock waits do not
  time out and no deadlock is reported; either would be a `DbError`.
* SQLite: transactions exclude each other and writes. In fact the second one may
  get `SQLITE_BUSY`, which is a `DbError` again.
* `CURRENT_TIMESTAMP` (`SendTimes`): on SQLite a `Send` evaluates it under the write
  lock, so that it is the time at which the row becomes visible. On MySQL it is the
  start of the statement, which may since have waited for a lock or been slow: any
  time up to now. A command may then turn up older than one that is already in hand.
  (The new time `RecordStarted` writes is the worker's own, and goes when the
  transaction rolls back.)
* A cancelled context makes `database/sql` roll an open transaction back, perhaps
  while its handler is still running. In the model the worker keeps the row until
  its next call fails. As no call of that worker can change the table any more, the
  rows end up the same.
* The wake-up channel of `Send` and of the workers is the same one, as the Fx
  module and `NewSQLCommandQueueWorkerWithBus` arrange it.
* `outboxToken` is only set here; `Outbox` has the channel and its reader, and takes
  these signals as `NotifyAfterCommand`, at any time.
* Payloads, names of handlers, `error_data` and `finished_at` are left out: no
  property tells them apart.

### CommandWait

`wait` says for each client whether it is in `Wait`, for which command, and what it
was told. `Look` is a tick at which `GetExecution` finds a finished command; a tick
that finds none changes nothing. `WaitEndsInError` is a deadline, a cancelled
context or a failing query, also when the command finishes at that moment, since
`select` may choose either. Clients only read: every behaviour is one of
`CommandQueue` (`CommandWaitProofs!QueueOfWait`).

### CommandBus

| Variable | Code |
| --- | --- |
| `queue` | the pending rows, named by sender and number (identifiers are unique here; `CommandQueue` has resubmissions) |
| `sent` | how many commands a sender has begun to send |
| `pc` | where a goroutine is in `Send`: `idle`, in `checkQueueCapacity` (`group`, `leading`, `following`), `refused` with `ErrQueueFull`, or about to `insert`, `count` (increment) or `notify` |
| `cache` | `pendingCountCache` of an instance; `fresh` stands for `cachedAt` within the TTL |
| `flight` | the call of `countGroup` under way: none, before the query, after it, or with a result |
| `failures` | how much of the bound on failing calls has been used |
| `slack` | no variable of the code, and no guard reads it: by how much the count an instance goes by may be too high, reset by a query, raised by a command executed afterwards and by increments that come after the count was stored |

`checkQueueCapacity` is `CheckCache` (the fast path, in the same step as the call),
`Lead` or `Follow` (`countGroup.Do`, with the second look at the cache),
`CountPending`, `StoreCount` and `Finish`. They are separate steps because other
calls of `Send` insert and increment in between, and `StoreCount` overwrites what
they have added. An error of the query is returned to all that wait for it
(`CountFails`). Then follow `Insert`, `Increment`, `Notify`, or the ways `Insert`
fails. `Retry` is a client that was refused and calls again. The worker is
represented by `CommandExecuted`, which may also be a commit whose answer is lost,
and by `WorkerFails`, the process by `BusEnds`.

The module describes the bus where there is a limit: `UseSQLQueue`,
`MaxPending > 0`, and a store that can count. Without these `checkQueueCapacity`
returns nil at once. A count is not decremented when commands are executed
(`command.go:70-71` calls `MaxPending` a soft limit): with a long TTL an empty queue refuses commands until the
count grows old. `RefusalsExplained` says how much of this there can be, and
`EventuallyAccepted` that it ends.

### Application

| Variable | Code |
| --- | --- |
| `config` | for each process, what the application provides: notifiers that override those of the module, whether the queue's wake-ups are enabled, which of the workers poll, the dependencies of the queue worker, and whether there is an outbox with a database and a publisher |
| `stage` | how far the hook of `RunSQLWorkers` is: `starting` between the two halves of `OnStart`, `failed` when one returned an error, `stopQueue` and `stopOutbox` in the two `Stop`s of `OnStop` |
| `worker` | where the two workers of a process are: `off`, `idle` (in `select`), `work` (in `drain`, before the next command or batch); the queue worker at `execute` (its transaction is open and its row locked), `hooks`, `notify` (after the commit) and `record` (after a rollback, before `RecordFailure`); the outbox worker in a `batch` with more records behind it, or in the `last` one |
| `hand`, `batch` | the command a queue worker is at; the records an outbox worker has read and not yet relayed |
| `full` | the notifiers that hold a signal; a notifier is named by what it is for and by whether it comes from the module or the configuration |
| `events`, `saved` | the outbox table and how many records it has had; a record remembers its process and whether its signal came before its commit (`late`), which no column says |
| `hooks` | transactions of other goroutines that have committed and whose after-commit hook is still to run |
| `open` | transactions of a caller's own that have published and not yet ended |
| `external`, `outages` | how much of the bounds on transactions beside the commands', and on crashes and stops, has been used |
| `orphans` | history, which no guard reads: commands a process had in hand for another one when it went down |

`CommandBusNotifier`, `EventBusNotifier` and `WorkerNotifier` are the choices the
providers of `CommandBus` and `EventBus` and the hook make independently of each
other; the buses signal the right worker only if these agree.

The processes share the queue and the outbox table. A worker has `Concurrency` 1,
and of its transaction only what other workers and the notifiers can tell apart are
steps of their own:

* `Fetch` locks some pending row nobody else has locked, `FetchNothing` finds none and
  ends the drain, though rows in other hands may be pending. In which order
  commands are fetched is `CommandQueue`'s question; here any free row may be the
  oldest, as `started_at` does not tell those of a second apart.
* `Commit` takes the command from the queue, with an event saved or without. Only
  then `RunCommandHook` (the hook `EventBus.Publish` registered) and `NotifyOutbox`
  (`processNext`) signal the outbox worker. When the answer of the commit is lost, the
  writes are there, neither signal follows, and the drain ends.
* `HandlerFails` gives the row up, which is pending and free until `RecordFailure`;
  another worker may have taken or executed it by then. `QueueBreaks` is any other
  call that fails.
* `ReadBatch` reads some of the records or all; a batch below the limit ends the
  drain after its last record, whatever was saved meanwhile. `Relay` publishes and
  deletes a record, which another process may also be doing. `OutboxBreaks` is a call
  that fails. In which order a batch is relayed, and how often a record is
  published, are `Outbox`'s questions.

Other goroutines publish in transactions of both kinds. `CommitManaged` is
`WithinTransaction` up to the commit (whose answer may be lost), and `RunHook` what
follows. In a transaction of the caller's own no hook can be registered:
`PublishManually` signals at once, and `EndManual` commits or rolls back at any time
after, or never (`event.go:78-80`, on which `outbox_worker_test.go:212-225` insists).
By then the worker may have found nothing and gone to sleep.

This is MySQL; on SQLite transactions exclude each other, which only leaves fewer
interleavings.

`StartQueueWorker`, `StartOutboxWorker`, `StopQueueWorker`, `StopOutboxWorker` and
`Stopped` are the hook; a `Crash` may come at any stage, and rolls back what is open.
When the second half of `OnStart` finds no database or publisher for the outbox
worker, it returns an error after the queue worker was started, and Fx does not
call `OnStop` of a hook whose `OnStart` failed (`module.go:386-391`): the worker goes
on until the process ends (`HalfStarted`).

All steps that concern the bus are steps of `CommandBus`, and all others leave it
alone, so that `Application` implements it (`ApplicationProofs!ImplementsBus`).

### TransactionalHandler

`deliveries` counts the copies of a command's message that wait for a consumer,
`hand` and `pc` say what each consumer does with the copy it took, `status` and
`effects` are the committed row and the committed executions, and `refused`
remembers whose handler has returned an error. Database calls are actions as in
`CommandQueue`; a failing one is returned to the router (`DbError`,
`CommitAnswerLost`, `RecordFailureAnswerLost`). `Ack` and `Nack` are Watermill's
answers to `nil` and to an error; `Redeliver` and `Crash` are the broker repeating
a message it heard nothing about. Commands outside `Tracked` take the path without
a `CommandID` or a store (`BeginUntracked`). A status `pending` is never committed
on this path, and hence not a value of `status`. With `RowLocks` (MySQL)
`GetStatus` reads without a lock and `RecordStarted` takes the row; without it
(SQLite) a transaction excludes all others.

### Outbox

| Variable | Code |
| --- | --- |
| `table`, `stamp` | committed rows of `events`, and `occurred_at`, set by `Publish` and visible with the commit (the code takes the time once per event, the model once per transaction) |
| `txpc` | a transaction is `open`, has `published`, is `committed` (its hooks still to run) or `done`; after a rollback it may be tried again, its events standing for new records |
| `delivered` | how often the broker has got a record |
| `wpc`, `batch`, `full`, `hand` | where an instance's outbox worker is, the records of its batch it has not finished with, whether the batch had `BatchSize` records, and the record it has published and not yet deleted |
| `token`, `life`, `now`, `failures`, `outages`, `stops` | as in `CommandQueue`; orderly stops are counted apart from crashes and cancellations |

`processBatch` is `ReadBatch`, then `PublishRecord` and `Delete` for each record,
or one of the ways each call fails: it did nothing (`ReadFails`, `PublishFails`,
`DeleteFails`), or it did its work and the answer is lost (`PublishAnswerLost`,
`DeleteAnswerLost`). An error gives the batch up (`GiveUp`) and ends the drain.
`stopChan` is looked at between batches only (`Drain`); a cancelled context fails
the database calls of a batch, though not `Publish`, which takes no context. The
`SELECT` takes no lock, and the `DELETE` does not ask how many rows it hit: two
instances may hold the same record.

A transaction in `Managed` was opened by `WithinTransaction`: `Publish` registers a
hook, which runs after a commit that reported success. For any other, `Publish`
notifies at once, before the caller commits. `Poison` records are those the broker
always refuses. On SQLite a transaction and a `DELETE` exclude each other; the model
lets them interleave, and `SQLITE_BUSY` is one of the failures. A `Save` that fails
is followed by `Rollback`, as a handler that returns the error brings about.

`Settled`, the events done with, is derived: committed and no longer in the table.

## Runs

Passing runs:

| Run | Instance | Shows |
| --- | --- | --- |
| `queue_mysql` | 2 instances, 3 workers (2 + 1), 2 commands, wake-ups only, 1 failing call, 1 crash or stop; symmetric in commands and workers of an instance | `AtMostOnceEffect`, `SuccessMeansApplied`, `PendingMeansUntouched`, `NoLostWakeup`, `ImplementsSharedContract` under races between workers of one and of several processes |
| `queue_sqlite` | 1 worker, 2 commands of which one cannot run, 2 submissions each, 3 clock values, 2 failing calls, 2 outages | `ImplementsContract`, `FailedMeansUntouched`, `FewOvertaken` |
| `queue_wakeup_live` | 1 instance, 2 workers, 2 submissions each, no polling, 1 crash, stop or cancellation, no failing calls | `EventuallyProcessed` by wake-ups alone, `StopReturns` |
| `queue_poll_live` | SQLite, 1 worker, 2 submissions each, no wake-ups, 1 failing call, 1 outage, 1 client in `Wait` | `EventuallyProcessed` by polling alone, `WaitReturns`, `AnswerStands` over resubmissions |
| `handler_sqlite` | 2 consumers, one tracked and one untracked command, 1 failing call, 2 repeated deliveries | `AtMostOnceEffect`, `BoundedExecutions`, `NoSilentLoss`, `RetriesStop` |
| `outbox_race` | 2 instances without polling, a managed and a manual transaction, one event refused by the broker, batches of 2, 1 failing call, 1 crash or cancellation, 1 stop | `SettledMeansDelivered`, `BoundedDuplicates`, `ImplementsDelivery` under races of two workers for the same records |
| `outbox_live` | 1 instance with polling, 2 events of a managed transaction and one of a manual one that the broker refuses, batches of 2, the same failures | `NoLostWakeup`, `InOrder` (events reach the broker in the order of their transactions), `EventuallySettled` (also beside a refused record), `StopReturns` |
| `application` | 2 senders, `MaxPending` 1, cache with TTL; 1 process in 6 configurations, and 2 processes that share the queue | `SoftLimit`, `RefusalsExplained`, `EventuallyAccepted`, `NoStrayWorker`, `OutboxOutlivesQueue`, `NoLostSignal`, `EventuallyWorkedOff` |

Runs in which the code does not do what the repository says of it; TLC reports
the violation:

| Run | What happens |
| --- | --- |
| `failed_but_applied` | Two workers on MySQL. The first one's handler fails; its rollback releases the row, still `pending`. The second one fetches the command, succeeds and commits. Only then the first executes `RecordFailure`, an unconditional `UPDATE`: the client reads `failed`, though everything was committed (`docs/transactional_cqrs.md:115`). A condition `status = 'pending'` in the `UPDATE`, or a savepoint that keeps the lock, closes the gap. |
| `poison_head` | A command without a handler stays `pending` and oldest. Every drain fetches it first, fails and stops; the commands behind it are never executed (`README.md:31`, `docs/transactional_cqrs.md:166`). |
| `handler_unrecorded` | On the router path a failing handler's rollback also removes the row `RecordStarted` inserted; `RecordFailure` updates no row and reports no error. `Wait` finds nothing until it times out (`module.go:239`). `examples/errors` means to show this error; as its table lacks two columns `GetExecution` selects (`command_name`, `payload`), its `Wait` ends in an SQL error instead. |
| `handler_race` | On MySQL two consumers hold copies of a message; both find no status, the second waits in `RecordStarted` for the first to commit and then runs the handler again (`module.go:211`). |

A smaller disagreement without a run: `docs/transactional_cqrs.md:108` says that a
running command has the status `'started'`; `RecordStarted` writes `pending`
(`command_execution_sql.go:98`). The model follows the code, and the code needs
it: a status `started` would not be found again after a crash.

### Bounds

* Two commands are the least with which there is an order, a command behind
  another, and a worker that finds one row locked and another one free. Three
  workers on two instances have both kinds of peers: one that shares the channel
  and one that does not.
* `MaxSends` 2 lets a client submit an identifier again in every state of its
  first submission. In `queue_mysql` it is 1 to keep the run short; two
  submissions with several workers are in `queue_wakeup_live`, which unlike
  `queue_poll_live` has no failing calls, and the invariants
  are proved for any number.
* `MaxDbErrors` and `MaxOutages`: one failure can hit every call and every point
  between two calls; a second one can hit the recovery from the first.
* `MaxTime` 2 gives three times: a retry, a resubmission and another command in
  every order, ties included. `queue_sqlite` has one worker, for which `FewOvertaken`
  means that no older command is overtaken. What it means for several workers, and on
  MySQL, where a `Send` may bring its command late, takes more commands to show and is
  proved for any number. Where no property depends on the order, time stands
  still, which makes every order of `started_at` a tie and hence possible.
* Outbox: three records and batches of two leave a record for a
  second batch; the refused one can be older, younger or as old; and two instances are
  what it takes to race for a record. The first failure, crash
  or stop can hit between any two calls, in either instance.
* `application`: two senders are what it takes to share a count, to be let through
  by the same one, and to have an increment overwritten; with `MaxPending` 1 every
  one of these exceeds the limit. The deployments (`Typical`) are one process with
  wake-ups only, with the notifiers of the module and with others; polling only; no
  outbox; the two whose `OnStart` fails; and two processes, of which the second has
  no senders and takes commands out of the first one's reach. To keep the run short,
  each has the bounds that fit its question (`TypicalBounds`): three commands per
  sender and a failing call where no worker takes them away, the busiest a bus can be;
  a command, a transaction beside it and a failing call with polling; a command, a
  transaction and a crash or stop where the notifiers are overridden; one command per
  sender where all is complete; a crash or stop of the rival, at any point of what it
  does with the one command, where there are two; and two commands of one sender
  elsewhere. The theorems hold for every configuration, any number of processes and
  all bounds.
* `MaxRedeliveries` 2 lets a copy be out with both consumers while one of them
  crashes.

Runs with bounded submissions and wake-ups only end in states without a successor:
all commands done and all workers asleep. These runs say `CHECK_DEADLOCK FALSE`;
the others are checked for deadlock.

### Fairness

* `WF(RunWorker(w))`: the Go scheduler runs every goroutine that can go on, and
  handlers and database calls return. Nothing is said about their outcome.
* `SF(Exit(w))`: `select` chooses among its ready cases at random, so a closed
  `stopChan` is not overlooked for ever in favour of a ticker. Weak fairness would
  not do: the worker leaves the select for a drain again and again.
* `WF(Notify(s))`: a `Send` that has written the row goes on.
* `WF(Start(i))`, `WF(Stopped(i))`: somebody restarts a process that went down
  (the recovery the README of the repository speaks of presupposes it), and
  `wg.Wait` returns when it can.
* `WF(Look(r))`: the ticker of a `Wait` ticks, and the client looks. That a deadline
  passes is possible at any time and never owed, so `WaitReturns` says that none is needed.
* Clients owe nothing to the queue; failures are bounded in number, so that they cease. With
  a failing call and polling disabled a command may wait until the next `Send`;
  this is why `queue_wakeup_live` has no failures and `queue_poll_live` has.
* Outbox: the same, with the whole worker of an instance in `WF(RunWorker(i))`, and
  `WF(RunHooks(t))`: `WithinTransaction` goes on after the commit. A transaction
  need not commit. `EventuallySettled` leaves out only the events a refused record
  is in front of or beside, which `processBatch` never reaches
  (`outbox_worker.go:231`); that a refused record does no harm to older ones is part
  of what the run shows.
* Application: weak fairness of each sender inside `Send`, of the TTL, of both
  workers, of a hook once the commit is answered, and of the Fx hook (somebody
  restarts the process), strong fairness of `Exit` as above. `EventuallyAccepted`
  also needs that a client which was told `ErrQueueFull` comes back, as the guide has
  it (503 with `Retry-After`); nobody needs to send a new command, to begin or end a
  transaction, to stop or to fail. Both liveness properties say what holds in the end,
  from some moment on: the bounds end the sending, and neither can be owed while
  new commands come without end. They except processes that cannot serve (`Serves`,
  `Relays`): `OnStart` failed for want of the queue worker's dependencies, nobody would
  hear of the command or event, or the worker concerned does not poll and a call
  failed. The last is an exception the code needs: a row whose insert was reported as
  an error fills the queue without a signal, and refused `Send`s do not wake the
  worker up (`command.go:219`). For the same reason events of manual transactions are
  due only where the outbox worker polls (`Due`).
* Router: `SF` of `HandleCommand(p)`, since a consumer that waits for the database
  while others come and go gets its turn, and `SF` of receiving each command:
  Watermill subscribes to one topic for every command type (`module.go:148-150`),
  so that one command's retries do not starve another's messages.

## Proofs

For every number of commands, workers, senders, instances, consumers, and for
every bound:

| Theorem | Statement |
| --- | --- |
| `CommandQueueProofs!Typing` | `Spec => []TypeOK` |
| `CommandQueueProofs!AtMostOnce` | `Spec => []AtMostOnceEffect` |
| `CommandQueueProofs!SuccessApplied` | `Spec => []SuccessMeansApplied` |
| `CommandQueueProofs!RetryStartsClean` | `Spec => []PendingMeansUntouched` |
| `CommandQueueProofs!WakeupKept` | `Spec => []NoLostWakeup` |
| `CommandQueueProofs!FailedUntouched` | `SingleWorker => (Spec => []FailedMeansUntouched)` |
| `CommandQueueProofs!ContractKept` | `SingleWorker => (Spec => ImplementsContract)` |
| `CommandQueueProofs!SharedContractKept` | `Spec => ImplementsSharedContract` |
| `CommandQueueProofs!Overtaking` | `Spec => FewOvertaken` |
| `CommandWaitProofs!WaitTyping` | `WaitSpec => []WaitTypeOK` |
| `CommandWaitProofs!SuccessesStand` | `WaitSpec => []SuccessStands` |
| `CommandWaitProofs!AnswersStand` | `SingleWorker => (WaitSpec => []AnswerStands)` |
| `CommandBusProofs!SoftLimitKept` | `BusSpec => []SoftLimit` |
| `CommandBusProofs!RefusalsTrue` | `BusSpec => RefusalsExplained` |
| `ApplicationProofs!ImplementsBus` | `Spec => BusSpec` |
| `ApplicationProofs!ApplicationSoftLimit` | `Spec => []SoftLimit` |
| `ApplicationProofs!ApplicationRefusals` | `Spec => RefusalsExplained` |
| `ApplicationProofs!AppTyping` | `Spec => []TypeOK` |
| `ApplicationProofs!StrayWorkers` | `Spec => []NoStrayWorker` |
| `ApplicationProofs!OutboxLast` | `Spec => []OutboxOutlivesQueue` |
| `ApplicationProofs!SignalsKept` | `Spec => []NoLostSignal` |
| `TransactionalHandlerProofs!Typing` | `Spec => []TypeOK` |
| `TransactionalHandlerProofs!NothingLost` | `Spec => []NoSilentLoss` |
| `TransactionalHandlerProofs!AtMostOnce` | `~RowLocks => (Spec => []AtMostOnceEffect)` |
| `TransactionalHandlerProofs!ExecutionsBounded` | `Spec => []BoundedExecutions` |
| `TransactionalHandlerProofs!OneConsumerOnce` | `Cardinality(Consumers) = 1 => (Spec => []AtMostOnceEffect)` |
| `TransactionalHandlerProofs!OnceWithoutRedelivery` | `Spec => [](redeliveries = 0 => AtMostOnceEffect)` |
| `OutboxProofs!Typing` | `Spec => []TypeOK` |
| `OutboxProofs!AtLeastOnce` | `Spec => []SettledMeansDelivered` |
| `OutboxProofs!OnlyCommitted` | `Spec => []DeliveredMeansCommitted` |
| `OutboxProofs!DeliveryKept` | `Spec => ImplementsDelivery` |
| `OutboxProofs!WakeupKept` | `Spec => []NoLostWakeup` |
| `OutboxProofs!FewDuplicates` | `Spec => []BoundedDuplicates` |
| `OutboxProofs!DeliveredInOrder` | `Spec => InOrder` |
| `OutboxProofs!PoisonHoldsBack` | a refused record holds back, for ever, every younger event committed after it |

The assumptions are those named in the modules: roles are disjoint, every instance
has a worker (`RolesAssumption`), bounds are natural numbers (`BoundsAssumption`),
and SQLite means one worker per instance (`ConcurrencyAssumption`, which no proof
needs); for the outbox also that `BatchSize` is positive, which `Normalize` sees to,
and that events and instances are finitely many, as are workers and consumers; for
the bus, that senders are finitely many and each instance has one
(`SendersAssumption`), and that there is a limit (`LimitAssumption`); and the types
of configurations (`ConfigsAssumption`). `SingleWorker` is one process with
`Concurrency` 1.

*The queue.* `AtMostOnceEffect` is not inductive: a commit increments `effects`,
and only what the transaction has seen tells that it was zero. The invariant is
`IInv == TypeOK /\ TransactionInv /\ LocksExclusive /\ EffectInv`.
`TransactionInv` ties an open transaction to the table (its command is still
`pending` under the submission it fetched); it survives the steps of others because
of `LocksExclusive` and because every write to a locked row waits. `EffectInv` then
says, per status, what has been committed: nothing for `pending` and for
submissions yet to come, one execution for `success`. It says nothing for `failed`,
and with several workers nothing could be said. With a single worker, `FailureInv`
adds that a failure about to be recorded concerns a command that is still `pending`
(nobody else could have executed it), from which `FailedMeansUntouched` and the step
simulation of `CommandContract` follow: `Send` is a `Submit`, a commit a `Succeed`,
`RecordFailure` a `Fail`, all else a stutter.

*Wake-ups.* `NoLostWakeup` is inductive given the types: a worker goes to sleep
only when every pending row is locked, that is when another worker is in a
transaction; that worker, should it roll back because its handler failed, goes on
draining. The reasons to stop draining early are database errors and commands that
cannot run, which the property excludes, and an instance that is about to stop.

*Several workers.* What they keep of the contract is all but the time at which a
failure may be reported: `RecordFailure` writes over whatever the row says by then
(`failed_but_applied`), and `SharedSpec` has `FailLate` for it. The step simulation
needs `IInv` and that a failure about to be recorded is that of a command with a row
(`ReportedInv`). `SharedSpec` has everything else: `success` comes from `pending`
only, once per submission, and together with the writes.

*Order.* `FewOvertaken` rests on `FewOlder`: of the commands older than one in a
transaction, fewer are pending than can be in hand at once, which is the number of
workers on MySQL and one on SQLite. A fetch passes over locked rows only, so that the
older ones it leaves are an image of the other workers' transactions
(`FetchOvertakes`). It counts those that were in the queue before the command
(`Overtaken`), which on SQLite are all the older ones. From then on they can only become fewer (`HoldsPlace`): the row in
hand is locked and keeps its `started_at`, a submission that arrives later is
visible from the present time on, and (`TimeInv`) no row from a later one; its
`started_at` may be older than those of commands in hand when `Send` was delayed on
MySQL, and then it has no place to lose. A worker that rolls back does
not add to them, since its command was pending all along.

*Wait.* The row a client saw may be overwritten by a resubmission, so what it was
told is compared with the submission, not with the command. No step of
`CommandContract` touches a submission that has finished (`FinishedStays`); since a
queue with a single worker implements the contract, `AnswerStands` is inductive
together with the fact that the submission it names is not in the future
(`AnswerInv`). With several workers the answer `failed` may be overtaken by the
facts, but `success` may not (`SuccessesStand`): a commit counts the effect of a
pending submission, and a submission with effects is not pending (`EffectsStay`).

*The limit.* The invariant `CountInv` adds to the types that a flight has a leader and
the cache is stale while it counts (`FlightInv`), that what a sender is about to
insert is no row yet (`RowInv`), and for each instance six inequalities between the
cached count, the count in flight, `slack`, the instance's pending rows P, its
senders A about to insert and C about to increment, their number n, and `failures`
(`CountsOf`). The chain of the limit is: when the rows are counted, one sender
leads, so P + A is less than the count plus n; while a count is fresh, P is less
than count + C + n + failures, since only an overwritten increment or a lost answer
can hide a row; a call let through by a count below the limit hence finds
P + A + 3 <= MaxPending + 2n + failures, those let through beside it add up to n
more, and this is `SoftLimit`. The chain of the refusals is that no count exceeds
the pending rows by more than `slack`. Each action has a lemma that does the set
sizes (`Moves`, `AddRow`, `RemoveRow`) and one of pure arithmetic (`Inserted`,
`Stored`, ...).

*The application.* Each of its steps is a step of the bus or leaves it alone, so the
two theorems carry over. `LifecycleInv` relates the stage of the hook to the
workers: the queue worker runs only between its start and the end of its `Stop`, the
outbox worker from the second half of `OnStart` to the end of `OnStop`; both
properties follow. `NoLostSignal` says for the composition what `NoLostWakeup` says
for each worker, and across processes: whichever notifiers are configured, while no
call fails, a sleeping queue worker has no command of its process but those whose
sender is about to signal or that are in some worker's hand, and a sleeping outbox
worker no record of its process but those about to be signalled. Two things the code
leaves to polling are excepted, and no more: a command another process had in hand
when it went down (`orphans`), which becomes pending again without a signal, and the
records of manual transactions (`late`).

It is not inductive. A worker goes to sleep over commands that others have in hand, so
one may leave a hand only when it is executed, marked failed or orphaned: between two
commands a worker has none (`HandsInv`). And an outbox worker goes to
sleep after a batch that was read before the last record was saved, so a signal has to
be on its way not only while it sleeps but from the moment the `last` batch is read,
for every record outside of that batch (`EventsHeard`). `WakeUpInv` is the
conjunction of these with `LifecycleInv` and `CommandsHeard`. A worker that is not
running has its recovery drain before it, which takes the place of the signals a
crash has lost.

*The router path.* `NoSilentLoss` rests on `DoneInv`: a consumer that acknowledges
holds a command that is done, and a row that shows a final status belongs to one.
On SQLite, `AtMostOnceEffect` rests on `OnceInv`: at most one consumer is inside a
transaction, and what `GetStatus` saw is still true while it is. On MySQL it is
false (`handler_race`); what holds on either database is `BoundedExecutions`. It
needs an account per command (`LedgerInv`): until the first commit of a tracked
command, the copies with the broker and with consumers do not exceed the deliveries
caused (`Budget`); from then on `GetStatus` turns every newcomer away, and the
executions made and the transactions still open together stay within the budget and
the number of consumers. For an untracked command an execution and the copy that
remains are both counted, and a failing call pays for the repetition. Two cases in
which MySQL is safe follow: a single consumer (`OneConsumerOnce`), and a broker that
has repeated no message it heard nothing about, as it does of its own accord or when
a consumer dies (`OnceWithoutRedelivery`); failing calls, lost answers and `Nack`s
alone are harmless.

*The outbox.* `DeliveryInv` ties the worker's notes to the table: a batch holds
committed events only, the record in hand has been delivered, a refused one never
(and so it stays in the table). From it follow at-least-once delivery and the step
simulation of `EventDelivery`: a commit is a `Commit`, a successful call of the
publisher a `Deliver`, a row deleted a `Settle`, all else a stutter.
`BoundedDuplicates` needs an account (`DuplicatesInv`): to the deliveries made are
added those that are due without further failure, one from every instance that
has the record in its batch (`PublishNow`) or may read it later (`PublishLater`). A
publication moves one from due to made; a failing delete makes one due again
and is paid by `failures`; a crash or a cancelled context is paid by `outages`.
`NoLostWakeup` is inductive given `DeliveryInv`: a worker may pass a record over only
if its batch was full, and then it reads another.

*The order of events.* `occurred_at` is taken when an event is published and not when
it is committed (`event.go:59`), so that events of overlapping transactions may reach
the broker in either order. `InOrder` says what remains: once a transaction has
committed and another has not, events of the first are delivered before younger ones
of the second. It is proved per pair of events from `Precedes(e, f)`, which holds the
moment e is committed and f is not, and which every step keeps: a batch with f is
read from a table with e, or after e was delivered, and within a batch the oldest
goes first. `PoisonHoldsBack` applies it to a refused e. There is one clock, `now`,
for all instances; processes whose clocks differ get no such promise, since
`occurred_at` is the publisher's time.

Only model-checked are the liveness properties (`EventuallyProcessed`,
`EventuallySettled`, `StopReturns`, `RetriesStop`, `WaitReturns`, `EventuallyAccepted`,
`EventuallyWorkedOff`), which depend on fairness and are out of the prover's
reach. There are no recursive definitions and no induction over data.

## Not modelled, and why

* *Query bus*: a map filled by the constructor, and one lookup and call per query. No
  state changes and nothing is concurrent.
* *Fx providers and handler adapters*: of these, the choice of notifiers and what the
  hook requires are in `Application`. The providers of Watermill's own buses,
  processors and groups, and the generic adapters, only construct and forward.
* *Examples*: users of the library.
* *Publishing without a transaction or without an outbox*: hands the event to
  Watermill's bus and keeps no state.
* *Several goroutines per queue worker in the composition* (`Concurrency` above 1): how
  they share a notifier is in `CommandQueue`.
* *Real time*: the length of the poll interval, of the backoff and of the TTL, and the
  3 seconds `CountPending` has. They are taken to end, nothing more; that a failing
  `RecordFailure` leads to a retry without pause
  (`command_queue_worker.go:297-305`) is therefore noted, not checked.
* *Encoding* of payloads and errors: whether a payload decodes is the choice of
  `Runnable`.

## Plan

1. `Pipeline`: `CommandQueue` and `Outbox`, call by call, composed through
   `outboxToken` and the `events` table (`Application` composes the transactions,
   signals and batches only): every successful command's events reach the publisher,
   and a command reported `failed` publishes none, with a single worker.
2. Proofs about it: that the composition implements each of the two, so that their
   theorems carry over.
