------------------------ MODULE TransactionalHandler ------------------------
(***************************************************************************)
(* The message-driven path of commands, used when UseSQLQueue is false:    *)
(* CommandBus.Send publishes a message, and transactionalCommandHandler    *)
(* runs the command handler in a database transaction that looks up and    *)
(* records the command's status.  The broker behind the Watermill router   *)
(* delivers a message at least once.                                       *)
(***************************************************************************)
EXTENDS Naturals, FiniteSets

CONSTANTS
    Commands,        \* commands that clients send, each one once
    NoCommand,       \* "no message in hand"
    Tracked,         \* commands with a CommandID, where an execStore is configured
    Consumers,       \* goroutines in which the router may run Handle
    RowLocks,        \* MySQL: GetStatus takes no lock, RecordStarted a row lock;
                     \* otherwise SQLite: one transaction at a time
    MaxDbErrors,     \* bound: failing database calls
    MaxRedeliveries  \* bound: deliveries the broker repeats of its own accord

ASSUME ConstantsAssumption ==
    /\ NoCommand \notin Commands
    /\ Tracked \subseteq Commands
    /\ IsFiniteSet(Consumers)
    /\ RowLocks \in BOOLEAN
    /\ MaxDbErrors \in Nat
    /\ MaxRedeliveries \in Nat

VARIABLES
    status,       \* committed status of each command's row, "none" without a row
    effects,      \* committed runs of each command's handler
    sent,         \* commands that were published
    deliveries,   \* copies of each message that wait for a consumer
    pc,           \* where each consumer is in Handle
    hand,         \* the command each consumer works on
    refused,      \* history: commands whose handler returned an error
    dbErrors,     \* database calls that failed so far
    redeliveries  \* repeated deliveries so far

vars == <<status, effects, sent, deliveries, pc, hand, refused, dbErrors,
          redeliveries>>

dbVars == <<status, effects>>
brokerVars == <<sent, deliveries, redeliveries>>

-----------------------------------------------------------------------------

Statuses == {"none", "success", "failed"}

\* Where the transaction of a consumer is open, and where it holds the row.
InTxLocations == {"checked", "started", "handled", "recorded"}

Locations == InTxLocations \cup {"idle", "received", "recordFailure", "ack", "nack"}

InTx(p) == pc[p] \in InTxLocations

HoldsRow(p) == pc[p] \in {"started", "handled", "recorded"}

\* A transaction or write of p waits: for the row in MySQL, else for the engine.
Waits(p) ==
    \E q \in Consumers \ {p} :
        IF RowLocks THEN HoldsRow(q) /\ hand[q] = hand[p] ELSE InTx(q)

InFlight(c) == deliveries[c] > 0 \/ \E p \in Consumers : hand[p] = c

ConnectionFails ==
    /\ dbErrors < MaxDbErrors
    /\ dbErrors' = dbErrors + 1

At(p, here, there) ==
    /\ pc[p] = here
    /\ pc' = [pc EXCEPT ![p] = there]

-----------------------------------------------------------------------------
(* The broker and the router.                                              *)

Send(c) ==
    /\ c \notin sent
    /\ sent' = sent \cup {c}
    /\ deliveries' = [deliveries EXCEPT ![c] = @ + 1]
    /\ UNCHANGED <<dbVars, pc, hand, refused, dbErrors, redeliveries>>

Receive(p, c) ==
    /\ deliveries[c] > 0
    /\ At(p, "idle", "received")
    /\ hand' = [hand EXCEPT ![p] = c]
    /\ deliveries' = [deliveries EXCEPT ![c] = @ - 1]
    /\ UNCHANGED <<dbVars, sent, refused, dbErrors, redeliveries>>

\* Mutant: the message is taken from the queue a second time.
AckTwice(p) ==
    /\ At(p, "ack", "idle")
    /\ hand' = [hand EXCEPT ![p] = NoCommand]
    /\ deliveries' = [deliveries EXCEPT ![hand[p]] = @ - 1]
    /\ UNCHANGED <<dbVars, sent, redeliveries, refused, dbErrors>>

\* Handle returned nil.
Ack(p) ==
    /\ At(p, "ack", "idle")
    /\ hand' = [hand EXCEPT ![p] = NoCommand]
    /\ UNCHANGED <<dbVars, brokerVars, refused, dbErrors>>

\* Handle returned an error: the message is delivered again.
Nack(p) ==
    /\ At(p, "nack", "idle")
    /\ hand' = [hand EXCEPT ![p] = NoCommand]
    /\ deliveries' = [deliveries EXCEPT ![hand[p]] = @ + 1]
    /\ UNCHANGED <<dbVars, sent, refused, dbErrors, redeliveries>>

\* The broker hears nothing of a message it handed out, and hands it out again.
Redeliver(p) ==
    /\ hand[p] # NoCommand
    /\ redeliveries < MaxRedeliveries
    /\ redeliveries' = redeliveries + 1
    /\ deliveries' = [deliveries EXCEPT ![hand[p]] = @ + 1]
    /\ UNCHANGED <<dbVars, sent, pc, hand, refused, dbErrors>>

\* The consumer's process dies; a panic of the handler is a Crash, too, for
\* everything but the process: rollback, and the message is not acknowledged.
Crash(p) ==
    /\ hand[p] # NoCommand
    /\ redeliveries < MaxRedeliveries
    /\ redeliveries' = redeliveries + 1
    /\ deliveries' = [deliveries EXCEPT ![hand[p]] = @ + 1]
    /\ pc' = [pc EXCEPT ![p] = "idle"]
    /\ hand' = [hand EXCEPT ![p] = NoCommand]
    /\ UNCHANGED <<dbVars, sent, refused, dbErrors>>

-----------------------------------------------------------------------------
(* transactionalCommandHandler.Handle.                                     *)

\* A command without an identity, or without a store: a bare transaction.
BeginUntracked(p) ==
    /\ hand[p] \notin Tracked
    /\ RowLocks \/ ~Waits(p)
    /\ At(p, "received", "started")
    /\ UNCHANGED <<dbVars, brokerVars, hand, refused, dbErrors>>

\* GetStatus finds the command processed: an empty transaction, and nil.
Skip(p) ==
    /\ hand[p] \in Tracked
    /\ status[hand[p]] \in {"success", "failed"}
    /\ RowLocks \/ ~Waits(p)
    /\ At(p, "received", "ack")
    /\ UNCHANGED <<dbVars, brokerVars, hand, refused, dbErrors>>

\* Mutant: the status is not looked at.
GetStatusIgnored(p) ==
    /\ hand[p] \in Tracked
    /\ RowLocks \/ ~Waits(p)
    /\ At(p, "received", "checked")
    /\ UNCHANGED <<dbVars, brokerVars, hand, refused, dbErrors>>

GetStatus(p) ==
    /\ hand[p] \in Tracked
    /\ status[hand[p]] \notin {"success", "failed"}
    /\ RowLocks \/ ~Waits(p)
    /\ At(p, "received", "checked")
    /\ UNCHANGED <<dbVars, brokerVars, hand, refused, dbErrors>>

\* The upsert locks the row; its 'pending' is never seen outside.
RecordStarted(p) ==
    /\ ~Waits(p)
    /\ At(p, "checked", "started")
    /\ UNCHANGED <<dbVars, brokerVars, hand, refused, dbErrors>>

Handle(p) ==
    /\ At(p, "started", "handled")
    /\ UNCHANGED <<dbVars, brokerVars, hand, refused, dbErrors>>

\* Mutant: the handler's error is returned to the router.
HandleErrorReturned(p) ==
    /\ At(p, "started", "nack")
    /\ refused' = refused \cup {hand[p]}
    /\ UNCHANGED <<dbVars, brokerVars, hand, dbErrors>>

\* The handler's error rolls back everything, the row of the command included.
HandleError(p) ==
    /\ At(p, "started", IF hand[p] \in Tracked THEN "recordFailure" ELSE "nack")
    /\ refused' = refused \cup {hand[p]}
    /\ UNCHANGED <<dbVars, brokerVars, hand, dbErrors>>

RecordSuccess(p) ==
    /\ hand[p] \in Tracked
    /\ At(p, "handled", "recorded")
    /\ UNCHANGED <<dbVars, brokerVars, hand, refused, dbErrors>>

\* Where the transaction is complete and only has to be committed.
Complete(p) == pc[p] = IF hand[p] \in Tracked THEN "recorded" ELSE "handled"

ApplyTx(p) ==
    LET c == hand[p]
    IN  /\ effects' = [effects EXCEPT ![c] = @ + 1]
        /\ status' = IF c \in Tracked THEN [status EXCEPT ![c] = "success"] ELSE status

\* Mutant: a hook's error is returned after the commit.
CommitThenError(p) ==
    /\ Complete(p)
    /\ ApplyTx(p)
    /\ \E there \in {"ack", "nack"} : pc' = [pc EXCEPT ![p] = there]
    /\ UNCHANGED <<brokerVars, hand, refused, dbErrors>>

Commit(p) ==
    /\ Complete(p)
    /\ ApplyTx(p)
    /\ pc' = [pc EXCEPT ![p] = "ack"]
    /\ UNCHANGED <<brokerVars, hand, refused, dbErrors>>

\* RecordFailure is an UPDATE: it finds no row where the insert of RecordStarted
\* was rolled back, and reports no error.
UpdateFailed(p) ==
    /\ pc[p] = "recordFailure"
    /\ ~Waits(p)
    /\ status' = [status EXCEPT ![hand[p]] = IF @ = "none" THEN @ ELSE "failed"]

RecordFailure(p) ==
    /\ UpdateFailed(p)
    /\ pc' = [pc EXCEPT ![p] = "ack"]
    /\ UNCHANGED <<effects, brokerVars, hand, refused, dbErrors>>

\* The UPDATE takes place but its answer is lost: Handle returns both errors.
RecordFailureAnswerLost(p) ==
    /\ UpdateFailed(p)
    /\ ConnectionFails
    /\ pc' = [pc EXCEPT ![p] = "nack"]
    /\ UNCHANGED <<effects, brokerVars, hand, refused>>

\* Mutant: a database error is logged, and Handle returns nil.
DbErrorLogged(p) ==
    /\ pc[p] \in {"received", "checked", "handled", "recorded", "recordFailure"}
    /\ ConnectionFails
    /\ pc' = [pc EXCEPT ![p] = "ack"]
    /\ UNCHANGED <<dbVars, brokerVars, hand, refused>>

\* BeginTx, GetStatus, RecordStarted, RecordSuccess, Commit or RecordFailure
\* fails; Handle returns the error.
DbError(p) ==
    /\ pc[p] \in {"received", "checked", "handled", "recorded", "recordFailure"}
    /\ ConnectionFails
    /\ pc' = [pc EXCEPT ![p] = "nack"]
    /\ UNCHANGED <<dbVars, brokerVars, hand, refused>>

CommitAnswerLost(p) ==
    /\ Complete(p)
    /\ ConnectionFails
    /\ ApplyTx(p)
    /\ pc' = [pc EXCEPT ![p] = "nack"]
    /\ UNCHANGED <<brokerVars, hand, refused>>

-----------------------------------------------------------------------------

Init ==
    /\ status = [c \in Commands |-> "none"]
    /\ effects = [c \in Commands |-> 0]
    /\ sent = {}
    /\ deliveries = [c \in Commands |-> 0]
    /\ pc = [p \in Consumers |-> "idle"]
    /\ hand = [p \in Consumers |-> NoCommand]
    /\ refused = {}
    /\ dbErrors = 0
    /\ redeliveries = 0

HandleCommand(p) ==
    \/ BeginUntracked(p) \/ Skip(p)        \/ GetStatus(p)     \/ RecordStarted(p)
    \/ Handle(p)         \/ HandleError(p) \/ RecordSuccess(p) \/ Commit(p)
    \/ RecordFailure(p)  \/ DbError(p)     \/ CommitAnswerLost(p)
    \/ RecordFailureAnswerLost(p)         \/ Ack(p)          \/ Nack(p)

Next ==
    \/ \E c \in Commands : Send(c) \/ \E p \in Consumers : Receive(p, c)
    \/ \E p \in Consumers : HandleCommand(p) \/ Redeliver(p) \/ Crash(p)

Spec == Init /\ [][Next]_vars

\* Handlers and database calls return, a write that waits for a lock gets it in
\* the end, and every command type has a subscription of its own, so that no
\* other command's retries keep its messages waiting.
Fairness ==
    /\ \A p \in Consumers : SF_vars(HandleCommand(p))
    /\ \A c \in Commands : SF_vars(\E p \in Consumers : Receive(p, c))

FairSpec == Spec /\ Fairness

-----------------------------------------------------------------------------
(* Correctness.                                                            *)

TypeOK ==
    /\ status \in [Commands -> Statuses]
    /\ effects \in [Commands -> Nat]
    /\ sent \subseteq Commands
    /\ deliveries \in [Commands -> Nat]
    /\ pc \in [Consumers -> Locations]
    /\ hand \in [Consumers -> Commands \cup {NoCommand}]
    /\ refused \subseteq Commands
    /\ dbErrors \in 0..MaxDbErrors
    /\ redeliveries \in 0..MaxRedeliveries

\* "Command already processed, skip": however often a tracked command is
\* delivered, its handler's writes are committed once.
AtMostOnceEffect == \A c \in Tracked : effects[c] <= 1

\* How often a handler's writes may be committed, whatever the database.  Each
\* delivery that the broker repeats of its own accord may cost one execution.  For
\* a tracked command nothing else does: neither failed calls nor lost answers,
\* and at most one execution for each consumer that has passed GetStatus before
\* the first commit.  An untracked one may also repeat for each failed call.
BoundedExecutions ==
    \A c \in Commands :
        IF c \in Tracked
        THEN effects[c] <= 1 + redeliveries /\ effects[c] <= Cardinality(Consumers)
        ELSE effects[c] <= 1 + redeliveries + dbErrors

\* The consumers whose copy of c may still be executed or come back, and those
\* that have passed GetStatus with it.
Working(c) == {p \in Consumers : hand[p] = c /\ pc[p] # "ack"}

Opened(c) == {p \in Consumers : hand[p] = c /\ InTx(p)}

Copies(c) == deliveries[c] + Cardinality(Working(c))

\* The deliveries of c that the client and the broker have caused.
Budget(c) == (IF c \in sent THEN 1 ELSE 0) + redeliveries

\* What makes BoundedExecutions inductive: before the first commit every copy may
\* become an execution, after it only those past GetStatus.
Ledger(c) ==
    IF c \notin Tracked
    THEN effects[c] + Copies(c) <= Budget(c) + dbErrors
    ELSE IF status[c] = "none"
    THEN effects[c] = 0 /\ Copies(c) <= Budget(c)
    ELSE /\ effects[c] + Cardinality(Opened(c)) <= Budget(c)
         /\ effects[c] + Cardinality(Opened(c)) <= Cardinality(Consumers)

LedgerInv == \A c \in Commands : Ledger(c)

\* A command is done when its handler's writes are there or it was turned down.
Done(c) == effects[c] > 0 \/ c \in refused

\* A command that was sent is still in flight, or was executed, or its handler
\* turned it down: redelivery, crashes and lost answers lose none.
NoSilentLoss ==
    \A c \in sent : InFlight(c) \/ Done(c)

\* What makes NoSilentLoss inductive: whoever acknowledges, or is about to record
\* a failure, and every row that shows a final status, speaks of a done command.
DoneInv ==
    /\ \A p \in Consumers :
        /\ IF pc[p] = "idle" THEN hand[p] = NoCommand ELSE hand[p] \in Commands
        /\ pc[p] = "recordFailure" => hand[p] \in refused
        /\ pc[p] = "ack" => Done(hand[p])
    /\ \A c \in Commands : status[c] # "none" => Done(c)

\* "Now record the failure status": once Handle is through with a tracked
\* command, the client that waits for it finds a final status.
SettledWhenDone ==
    \A c \in sent \cap Tracked : InFlight(c) \/ status[c] \in {"success", "failed"}

\* Returning nil stops the retries of a tracked command, a failing one included.
RetriesStop ==
    \A c \in Tracked : (deliveries[c] > 0) ~> ~InFlight(c)
=============================================================================
