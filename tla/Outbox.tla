------------------------------- MODULE Outbox -------------------------------
(***************************************************************************)
(* The transactional outbox: the events table, EventBus.Publish that saves *)
(* into it within a transaction, the after-commit hooks that wake the      *)
(* worker, and SQLOutboxWorker, which publishes the records to the broker  *)
(* and deletes them.  Each application instance runs one outbox worker.    *)
(***************************************************************************)
EXTENDS Naturals, FiniteSets

CONSTANTS
    Events,         \* outbox records; a retried transaction publishes them anew
    NoEvent,        \* "no record in hand"
    Txs,            \* transactions that publish events
    Instances,      \* application processes sharing the database
    TxOf,           \* the transaction each event is published in
    InstanceOf,     \* the instance each transaction runs in
    Managed,        \* transactions opened by WithinTransaction
    Poison,         \* records the broker refuses
    BatchSize,      \* config.BatchSize
    PollEnabled,    \* PollInterval > 0
    WakeupEnabled,  \* Notifier configured
    MaxTime,        \* bound: ticks of the clock
    MaxFailures,    \* bound: failing calls of database and broker
    MaxOutages,     \* bound: crashes and context cancellations
    MaxStops        \* bound: orderly stops

ASSUME RolesAssumption ==
    /\ NoEvent \notin Events
    /\ TxOf \in [Events -> Txs]
    /\ InstanceOf \in [Txs -> Instances]
    /\ Managed \subseteq Txs
    /\ Poison \subseteq Events

\* Normalize replaces a batch size that is not positive by 50.
ASSUME BatchAssumption == BatchSize \in Nat \ {0}

ASSUME FiniteAssumption == IsFiniteSet(Events) /\ IsFiniteSet(Instances)

ASSUME BoundsAssumption ==
    /\ {MaxTime, MaxFailures, MaxOutages, MaxStops} \subseteq Nat
    /\ {PollEnabled, WakeupEnabled} \subseteq BOOLEAN

VARIABLES
    table,     \* committed rows of the events table
    stamp,     \* occurred_at of each event
    txpc,      \* where each transaction is
    delivered, \* how often the broker has got each event
    wpc,       \* where the outbox worker of each instance is
    batch,     \* records of the worker's batch it has not finished with
    full,      \* the batch had BatchSize records when it was read
    hand,      \* the record a worker has published and is about to delete
    token,     \* the wake-up channel of each instance holds a signal
    life,      \* each instance's process
    now,       \* time.Now
    failures,  \* failing calls so far
    outages,   \* crashes and cancellations so far
    stops      \* orderly stops so far

vars == <<table, stamp, txpc, delivered, wpc, batch, full, hand, token, life,
          now, failures, outages, stops>>

txVars == <<stamp, txpc>>
workVars == <<batch, full, hand>>
envVars == <<life, now, outages, stops>>

-----------------------------------------------------------------------------
(* Types.                                                                  *)

\* A transaction with hooks is "committed" until it has run them.
TxLocations == {"none", "open", "published", "committed", "done"}

BatchLocations == {"publish", "delete"}

Locations == BatchLocations \cup {"off", "idle", "drain", "read", "backoff"}

Lives == {"down", "up", "stopping", "cancelled"}

-----------------------------------------------------------------------------
(* The database, the connections, the wake-up channel.                     *)

EventsOf(t) == {e \in Events : TxOf[e] = t}

Committed == {e \in Events : txpc[TxOf[e]] \in {"committed", "done"}}

\* Mutant: the query without LIMIT.
BatchesUnlimited == {table}

\* SELECT ... ORDER BY occurred_at ASC LIMIT BatchSize: the oldest rows.
Batches ==
    {s \in SUBSET table :
        /\ \A e \in s : \A f \in table \ s : stamp[e] <= stamp[f]
        /\ Cardinality(s) <= BatchSize
        /\ s = table \/ Cardinality(s) = BatchSize}

\* A connection fails a bounded number of calls.
ConnectionFails ==
    /\ failures < MaxFailures
    /\ failures' = failures + 1

\* Whether a worker's database call fails: a cancelled context fails them all.
CallFails(i) ==
    IF life[i] = "cancelled" THEN UNCHANGED failures ELSE ConnectionFails

CallWorks(i) ==
    /\ life[i] # "cancelled"
    /\ UNCHANGED failures

\* channelNotifier.Notify: a full channel swallows the signal.
Notify(i) == token' = [token EXCEPT ![i] = @ \/ WakeupEnabled]

\* Mutant: the context is never asked, and Publish always notifies at once.
RegisterNever(t) == FALSE

\* The context of WithinTransaction takes a hook, any other refuses it.
RegisterAfterCommit(t) == t \in Managed

-----------------------------------------------------------------------------
(* Transactions that publish events, in any goroutine of the application.  *)

Begin(t) ==
    /\ life[InstanceOf[t]] # "down"
    /\ txpc[t] = "none"
    /\ txpc' = [txpc EXCEPT ![t] = "open"]
    /\ UNCHANGED <<table, stamp, delivered, wpc, workVars, token, failures, envVars>>

\* Mutant: Publish saves the records on a connection of its own.
PublishOutsideTx(t) ==
    /\ txpc[t] = "open"
    /\ table' = table \cup EventsOf(t)
    /\ stamp' = [e \in Events |-> IF TxOf[e] = t THEN now ELSE stamp[e]]
    /\ IF RegisterAfterCommit(t) THEN UNCHANGED token ELSE Notify(InstanceOf[t])
    /\ txpc' = [txpc EXCEPT ![t] = "published"]
    /\ UNCHANGED <<delivered, wpc, workVars, failures, envVars>>

\* EventBus.Publish saves the records in the transaction.  Without a hook to
\* register it notifies at once, before the transaction has committed.
Publish(t) ==
    /\ txpc[t] = "open"
    /\ stamp' = [e \in Events |-> IF TxOf[e] = t THEN now ELSE stamp[e]]
    /\ IF RegisterAfterCommit(t) THEN UNCHANGED token ELSE Notify(InstanceOf[t])
    /\ txpc' = [txpc EXCEPT ![t] = "published"]
    /\ UNCHANGED <<table, delivered, wpc, workVars, failures, envVars>>

\* The transaction fails, by itself or by a failing call, and may be retried.
Rollback(t) ==
    /\ txpc[t] \in {"open", "published"}
    /\ txpc' = [txpc EXCEPT ![t] = "none"]
    /\ UNCHANGED <<table, stamp, delivered, wpc, workVars, token, failures, envVars>>

Commit(t) ==
    /\ txpc[t] = "published"
    /\ table' = table \cup EventsOf(t)
    /\ txpc' = [txpc EXCEPT ![t] = IF RegisterAfterCommit(t) THEN "committed" ELSE "done"]
    /\ UNCHANGED <<stamp, delivered, wpc, workVars, token, failures, envVars>>

\* The database commits, Commit reports an error, and no hook runs.
CommitAnswerLost(t) ==
    /\ txpc[t] = "published"
    /\ ConnectionFails
    /\ table' = table \cup EventsOf(t)
    /\ txpc' = [txpc EXCEPT ![t] = "done"]
    /\ UNCHANGED <<stamp, delivered, wpc, workVars, token, envVars>>

\* The hook that Publish registered notifies the outbox worker.
RunHooks(t) ==
    /\ txpc[t] = "committed"
    /\ Notify(InstanceOf[t])
    /\ txpc' = [txpc EXCEPT ![t] = "done"]
    /\ UNCHANGED <<table, stamp, delivered, wpc, workVars, failures, envVars>>

\* The command queue worker notifies after every command it has executed,
\* whether or not the command has published an event.
NotifyAfterCommand(i) ==
    /\ life[i] # "down"
    /\ Notify(i)
    /\ UNCHANGED <<table, txVars, delivered, wpc, workVars, failures, envVars>>

-----------------------------------------------------------------------------
(* processBatch: read a batch; publish and delete its records one by one.  *)

\* An empty batch ends the drain; any other is worked through.
ReadBatch(i) ==
    /\ wpc[i] = "read"
    /\ CallWorks(i)
    /\ \E s \in Batches :
        /\ batch' = [batch EXCEPT ![i] = s]
        /\ full' = [full EXCEPT ![i] = Cardinality(s) = BatchSize]
        /\ wpc' = [wpc EXCEPT ![i] = IF s = {} THEN "idle" ELSE "publish"]
    /\ UNCHANGED <<table, txVars, delivered, hand, token, envVars>>

\* The record of the batch whose turn it is.
Oldest(i) == {e \in batch[i] : \A f \in batch[i] : stamp[e] <= stamp[f]}

PublishRecord(i) ==
    /\ wpc[i] = "publish"
    /\ \E e \in Oldest(i) \ Poison :
        /\ delivered' = [delivered EXCEPT ![e] = @ + 1]
        /\ hand' = [hand EXCEPT ![i] = e]
    /\ wpc' = [wpc EXCEPT ![i] = "delete"]
    /\ UNCHANGED <<table, txVars, batch, full, token, failures, envVars>>

\* processBatch returns an error: drain breaks off and the worker backs off.
GiveUp(i) ==
    /\ batch' = [batch EXCEPT ![i] = {}]
    /\ hand' = [hand EXCEPT ![i] = NoEvent]
    /\ wpc' = [wpc EXCEPT ![i] = "backoff"]
    /\ UNCHANGED full

\* Mutant: the publisher's error is logged, and the record deleted.
PublishErrorIgnored(i) ==
    /\ wpc[i] = "publish"
    /\ \E e \in Oldest(i) :
        /\ IF e \in Poison THEN UNCHANGED failures ELSE ConnectionFails
        /\ hand' = [hand EXCEPT ![i] = e]
    /\ wpc' = [wpc EXCEPT ![i] = "delete"]
    /\ UNCHANGED <<table, txVars, delivered, batch, full, token, envVars>>

\* Mutant: the publisher's error is logged, and the record left for later.
PublishErrorSkips(i) ==
    /\ wpc[i] = "publish"
    /\ \E e \in Oldest(i) :
        LET rest == batch[i] \ {e}
        IN  /\ IF e \in Poison THEN UNCHANGED failures ELSE ConnectionFails
            /\ batch' = [batch EXCEPT ![i] = rest]
            /\ wpc' = [wpc EXCEPT ![i] = IF rest # {} THEN "publish" ELSE "idle"]
    /\ UNCHANGED <<table, txVars, delivered, full, hand, token, envVars>>

\* The broker refuses the record or cannot be reached.
PublishFails(i) ==
    /\ wpc[i] = "publish"
    /\ \E e \in Oldest(i) :
        IF e \in Poison THEN UNCHANGED failures ELSE ConnectionFails
    /\ GiveUp(i)
    /\ UNCHANGED <<table, txVars, delivered, token, envVars>>

\* The broker has the record, but Publish reports an error.
PublishAnswerLost(i) ==
    /\ wpc[i] = "publish"
    /\ ConnectionFails
    /\ \E e \in Oldest(i) \ Poison :
        delivered' = [delivered EXCEPT ![e] = @ + 1]
    /\ GiveUp(i)
    /\ UNCHANGED <<table, txVars, token, envVars>>

\* After the last record of a full batch drain reads another one.
NextRecord(i) ==
    LET rest == batch[i] \ {hand[i]}
    IN  /\ batch' = [batch EXCEPT ![i] = rest]
        /\ hand' = [hand EXCEPT ![i] = NoEvent]
        /\ wpc' = [wpc EXCEPT ![i] = IF rest # {} THEN "publish"
                                     ELSE IF full[i] THEN "drain" ELSE "idle"]
        /\ UNCHANGED full

\* Mutant: the condition of the DELETE matches no row, which is no error.
DeleteNothing(i) ==
    /\ wpc[i] = "delete"
    /\ CallWorks(i)
    /\ NextRecord(i)
    /\ UNCHANGED <<table, txVars, delivered, token, envVars>>

\* DELETE ... WHERE id = ?: no error if another instance was faster.
Delete(i) ==
    /\ wpc[i] = "delete"
    /\ CallWorks(i)
    /\ table' = table \ {hand[i]}
    /\ NextRecord(i)
    /\ UNCHANGED <<txVars, delivered, token, envVars>>

DeleteFails(i) ==
    /\ wpc[i] = "delete"
    /\ CallFails(i)
    /\ GiveUp(i)
    /\ UNCHANGED <<table, txVars, delivered, token, envVars>>

\* The database deletes the row, but the call reports an error.
DeleteAnswerLost(i) ==
    /\ wpc[i] = "delete"
    /\ life[i] # "cancelled"
    /\ ConnectionFails
    /\ table' = table \ {hand[i]}
    /\ GiveUp(i)
    /\ UNCHANGED <<txVars, delivered, token, envVars>>

ReadFails(i) ==
    /\ wpc[i] = "read"
    /\ CallFails(i)
    /\ GiveUp(i)
    /\ UNCHANGED <<table, txVars, delivered, token, envVars>>

-----------------------------------------------------------------------------
(* Start's goroutine: the select loop around drain.                        *)

Ending(i) == life[i] \in {"stopping", "cancelled"}

\* drain looks at stopChan and ctx.Done() before each batch, and only then.
Drain(i) ==
    /\ wpc[i] = "drain"
    /\ wpc' = [wpc EXCEPT ![i] = IF Ending(i) THEN "idle" ELSE "read"]
    /\ UNCHANGED <<table, txVars, delivered, workVars, token, failures, envVars>>

\* Mutant: an error ends the goroutine instead of the drain.
BackoffEndsWorker(i) ==
    /\ wpc[i] = "backoff"
    /\ wpc' = [wpc EXCEPT ![i] = "off"]
    /\ UNCHANGED <<table, txVars, delivered, workVars, token, failures, envVars>>

BackoffOver(i) ==
    /\ wpc[i] = "backoff"
    /\ wpc' = [wpc EXCEPT ![i] = "idle"]
    /\ UNCHANGED <<table, txVars, delivered, workVars, token, failures, envVars>>

Poll(i) ==
    /\ wpc[i] = "idle"
    /\ PollEnabled
    /\ wpc' = [wpc EXCEPT ![i] = "drain"]
    /\ UNCHANGED <<table, txVars, delivered, workVars, token, failures, envVars>>

WakeUp(i) ==
    /\ wpc[i] = "idle"
    /\ token[i]
    /\ token' = [token EXCEPT ![i] = FALSE]
    /\ wpc' = [wpc EXCEPT ![i] = "drain"]
    /\ UNCHANGED <<table, txVars, delivered, workVars, failures, envVars>>

\* Mutant: the select has no case for stopChan.
ExitOnCancelOnly(i) ==
    /\ wpc[i] = "idle"
    /\ life[i] = "cancelled"
    /\ wpc' = [wpc EXCEPT ![i] = "off"]
    /\ UNCHANGED <<table, txVars, delivered, workVars, token, failures, envVars>>

Exit(i) ==
    /\ wpc[i] = "idle"
    /\ Ending(i)
    /\ wpc' = [wpc EXCEPT ![i] = "off"]
    /\ UNCHANGED <<table, txVars, delivered, workVars, token, failures, envVars>>

-----------------------------------------------------------------------------
(* Instances start, stop and crash; time passes.                           *)

\* The worker begins with a recovery drain; the channel is new.
Start(i) ==
    /\ life[i] = "down"
    /\ life' = [life EXCEPT ![i] = "up"]
    /\ wpc' = [wpc EXCEPT ![i] = "drain"]
    /\ token' = [token EXCEPT ![i] = FALSE]
    /\ UNCHANGED <<table, txVars, delivered, workVars, now, failures, outages, stops>>

\* Stop closes stopChan.
Stop(i) ==
    /\ life[i] = "up"
    /\ stops < MaxStops
    /\ stops' = stops + 1
    /\ life' = [life EXCEPT ![i] = "stopping"]
    /\ UNCHANGED <<table, txVars, delivered, wpc, workVars, token, now, failures, outages>>

\* The caller's context ends, which also fails the database calls under way.
Cancel(i) ==
    /\ life[i] = "up"
    /\ outages < MaxOutages
    /\ outages' = outages + 1
    /\ life' = [life EXCEPT ![i] = "cancelled"]
    /\ UNCHANGED <<table, txVars, delivered, wpc, workVars, token, now, failures, stops>>

\* What becomes of a transaction whose process ends: one that is open rolls
\* back, and one that has committed never runs its hooks.
AfterEnd(t) ==
    CASE txpc[t] \in {"open", "published"} -> "none"
      [] txpc[t] = "committed" -> "done"
      [] OTHER -> txpc[t]

\* The process is gone, and with it its goroutines and open transactions.
ProcessEnds(i) ==
    /\ life' = [life EXCEPT ![i] = "down"]
    /\ wpc' = [wpc EXCEPT ![i] = "off"]
    /\ batch' = [batch EXCEPT ![i] = {}]
    /\ hand' = [hand EXCEPT ![i] = NoEvent]
    /\ txpc' = [t \in Txs |-> IF InstanceOf[t] = i THEN AfterEnd(t) ELSE txpc[t]]
    /\ UNCHANGED <<table, stamp, delivered, full, token, now, failures, stops>>

\* wg.Wait returns once the goroutine has left its loop.
Stopped(i) ==
    /\ Ending(i)
    /\ wpc[i] = "off"
    /\ ProcessEnds(i)
    /\ UNCHANGED outages

Crash(i) ==
    /\ life[i] # "down"
    /\ outages < MaxOutages
    /\ outages' = outages + 1
    /\ ProcessEnds(i)

Tick ==
    /\ now < MaxTime
    /\ now' = now + 1
    /\ UNCHANGED <<table, txVars, delivered, wpc, workVars, token, life,
                   failures, outages, stops>>

-----------------------------------------------------------------------------

Init ==
    /\ table = {}
    /\ stamp = [e \in Events |-> 0]
    /\ txpc = [t \in Txs |-> "none"]
    /\ delivered = [e \in Events |-> 0]
    /\ wpc = [i \in Instances |-> "off"]
    /\ batch = [i \in Instances |-> {}]
    /\ full = [i \in Instances |-> FALSE]
    /\ hand = [i \in Instances |-> NoEvent]
    /\ token = [i \in Instances |-> FALSE]
    /\ life = [i \in Instances |-> "down"]
    /\ now = 0
    /\ failures = 0
    /\ outages = 0
    /\ stops = 0

Transaction(t) ==
    \/ Begin(t)    \/ Publish(t)          \/ Rollback(t)
    \/ Commit(t)   \/ CommitAnswerLost(t) \/ RunHooks(t)

ProcessBatch(i) ==
    \/ ReadBatch(i)         \/ ReadFails(i)
    \/ PublishRecord(i)     \/ PublishFails(i) \/ PublishAnswerLost(i)
    \/ Delete(i)            \/ DeleteFails(i)  \/ DeleteAnswerLost(i)

RunWorker(i) ==
    \/ ProcessBatch(i)
    \/ Drain(i) \/ BackoffOver(i) \/ Poll(i) \/ WakeUp(i) \/ Exit(i)

Next ==
    \/ \E t \in Txs : Transaction(t)
    \/ \E i \in Instances :
        \/ RunWorker(i) \/ NotifyAfterCommand(i)
        \/ Start(i) \/ Stop(i) \/ Cancel(i) \/ Stopped(i) \/ Crash(i)
    \/ Tick

Spec == Init /\ [][Next]_vars

\* The Go scheduler runs every goroutine and calls return, select does not
\* overlook the closed stopChan for ever, hooks are run, and an instance that
\* went down is started again.  Clients need not commit.
Fairness ==
    /\ \A i \in Instances :
        /\ WF_vars(RunWorker(i)) /\ SF_vars(Exit(i))
        /\ WF_vars(Start(i)) /\ WF_vars(Stopped(i))
    /\ \A t \in Txs : WF_vars(RunHooks(t))

FairSpec == Spec /\ Fairness

-----------------------------------------------------------------------------
(* Correctness.                                                            *)

\* No query returns more than LIMIT rows.
SizedBatches == {s \in SUBSET Events : Cardinality(s) <= BatchSize}

TypeOK ==
    /\ table \in SUBSET Events
    /\ stamp \in [Events -> 0..MaxTime]
    /\ txpc \in [Txs -> TxLocations]
    /\ delivered \in [Events -> Nat]
    /\ wpc \in [Instances -> Locations]
    /\ batch \in [Instances -> SizedBatches]
    /\ full \in [Instances -> BOOLEAN]
    /\ hand \in [Instances -> Events \cup {NoEvent}]
    /\ token \in [Instances -> BOOLEAN]
    /\ life \in [Instances -> Lives]
    /\ now \in 0..MaxTime
    /\ failures \in 0..MaxFailures
    /\ outages \in 0..MaxOutages
    /\ stops \in 0..MaxStops

\* A committed event is in the table, or done with for good.
Settled == Committed \ table

\* The worker's notes agree with where it is, and speak of committed events.
WorkerInv ==
    \A i \in Instances :
        /\ batch[i] \subseteq Committed
        /\ wpc[i] \notin BatchLocations => batch[i] = {}
        /\ wpc[i] = "publish" => batch[i] # {}
        /\ IF wpc[i] = "delete" THEN hand[i] \in batch[i] ELSE hand[i] = NoEvent
        /\ life[i] = "down" => wpc[i] = "off"

\* A record about to be deleted has reached the broker.
HandInv ==
    \A i \in Instances : wpc[i] = "delete" => delivered[hand[i]] > 0

\* No committed event leaves the table before the broker has got it, whatever
\* instances race, calls fail and processes crash (processBatch deletes last).
SettledMeansDelivered ==
    \A e \in Settled : delivered[e] > 0

\* Subscribers never see an event of a transaction that rolled back, or may
\* still roll back (Save goes through the caller's transaction).
DeliveredMeansCommitted ==
    /\ table \subseteq Committed
    /\ \A e \in Events : delivered[e] > 0 => e \in Committed

\* A record the broker refuses is never delivered, and so never deleted.
PoisonKept ==
    \A e \in Poison : delivered[e] = 0

\* The instances that may publish e in the batch they have, and in a later one.
PublishNow(e) == {i \in Instances : e \in batch[i] /\ hand[i] # e}

PublishLater(e) ==
    {i \in Instances : e \notin Settled /\ (life[i] = "cancelled" \/ e \notin batch[i])}

\* How often subscribers must expect an event: once for every instance that
\* reads the table, and once more for a failing call, a crash or a cancelled
\* context.  An orderly stop costs no duplicate, nor does a poison record that
\* breaks off its batch again and again (each record is deleted by itself).
BoundedDuplicates ==
    \A e \in Events :
        delivered[e] <= Cardinality(Instances) + failures + outages

\* What makes BoundedDuplicates inductive.
DuplicatesInv ==
    \A e \in Events :
        delivered[e] + Cardinality(PublishNow(e)) + Cardinality(PublishLater(e))
            <= Cardinality(Instances) + failures + outages

\* The worker of instance i is going to see the record e.
Attended(i, e) ==
    \/ token[i]
    \/ wpc[i] \in {"drain", "read"}
    \/ wpc[i] \in BatchLocations /\ (full[i] \/ e \in batch[i])

\* With wake-ups on, and while no call fails and no record is poison, an event
\* of a managed transaction never waits in the table with nobody on the way to
\* it, unless the instance it was committed in is down or ending.
NoLostWakeup ==
    (WakeupEnabled /\ failures = 0 /\ table \cap Poison = {}) =>
        \A e \in table :
            LET t == TxOf[e]
                i == InstanceOf[t]
            IN  t \in Managed /\ life[i] = "up" =>
                    txpc[t] = "committed" \/ Attended(i, e)

\* The outbox keeps the promise made to publishers.
Promise == INSTANCE EventDelivery WITH
    committed <- Committed,
    settled   <- Settled

\* Published at least once, after the commit, and not dropped before.
ImplementsDelivery == Promise!Spec

\* A record the broker refuses is in front of e, or beside it.
Blocked(e) == \E p \in table \cap Poison : stamp[p] <= stamp[e]

\* The order subscribers may rely on: when s commits before t, an event of s with
\* an older stamp is delivered before the event of t, even if another instance
\* reads the table first, calls fail and the event of s can never be delivered
\* (ORDER BY occurred_at; processBatch returns at the first error).  The older
\* stamp alone is not enough: s may have been open for long when it commits.
InOrder ==
    \A s \in Txs : \A t \in Txs \ {s} :
        [](EventsOf(s) \subseteq Committed /\ EventsOf(t) \cap Committed = {} =>
            [](\A e \in EventsOf(s), f \in EventsOf(t) :
                delivered[f] > 0 /\ stamp[e] < stamp[f] => delivered[e] > 0))

\* Every committed event is published and leaves the table in the end, unless a
\* record that is no younger can never be published: each batch begins with it,
\* and processBatch breaks off.  A younger one does no harm.
EventuallySettled ==
    \A e \in Events \ Poison : (e \in table) ~> (e \notin table \/ Blocked(e))

\* Stop returns (wg.Wait), and so does the goroutine of a cancelled context.
StopReturns ==
    \A i \in Instances : Ending(i) ~> (life[i] = "down")
=============================================================================
