------------------------- MODULE CommandQueueProofs -------------------------
(***************************************************************************)
(* What is proved about CommandQueue for any number of commands, workers,  *)
(* instances, submissions and failures.                                    *)
(***************************************************************************)
EXTENDS CommandQueue, FiniteSetTheorems, TLAPS

-----------------------------------------------------------------------------
(* Types.                                                                  *)

\* Counting an effect keeps the counters natural numbers.
LEMMA CountTypes ==
    ASSUME NEW e \in [Commands -> [0..MaxSends -> Nat]],
           NEW c, NEW s \in 0..MaxSends, NEW wrote \in BOOLEAN
    PROVE  [e EXCEPT ![c][s] = IF wrote THEN @ + 1 ELSE @]
               \in [Commands -> [0..MaxSends -> Nat]]
  <1> DEFINE n == IF wrote THEN e[c][s] + 1 ELSE e[c][s]
  <1>1. CASE c \in Commands
    <2>1. e[c] \in [0..MaxSends -> Nat]
      BY <1>1
    <2>2. e[c][s] \in Nat
      BY <2>1
    <2>3. n \in Nat
      BY <2>2
    <2> HIDE DEF n
    <2>4. [e[c] EXCEPT ![s] = n] \in [0..MaxSends -> Nat]
      BY <2>1, <2>3
    <2> QED
      BY <1>1, <2>4 DEF n
  <1>2. CASE c \notin Commands
    BY <1>2
  <1> QED
    BY <1>1, <1>2

\* A committed transaction leaves a well-formed row.
LEMMA ApplyTxTypes ==
    ASSUME TypeOK, NEW w \in Workers, ApplyTx(w)
    PROVE  /\ row' \in [Commands -> Rows]
           /\ effects' \in [Commands -> [0..MaxSends -> Nat]]
  <1>1. tx[w] \in Transactions
    BY DEF TypeOK
  <1>2. /\ tx[w].view \in Rows
        /\ tx[w].wrote \in BOOLEAN
    BY <1>1 DEF Transactions
  <1>3. tx[w].view.sub \in 0..MaxSends
    BY <1>2 DEF Rows
  <1>4. row' \in [Commands -> Rows]
    BY <1>2 DEF TypeOK, ApplyTx
  <1>5. effects' \in [Commands -> [0..MaxSends -> Nat]]
    BY <1>2, <1>3, CountTypes DEF TypeOK, ApplyTx
  <1> QED
    BY <1>4, <1>5

\* The outcome of a database call never breaks the bound on failing calls.
LEMMA CallTypes ==
    ASSUME TypeOK, NEW i, CallFails(i) \/ CallWorks(i) \/ ConnectionFails
    PROVE  dbErrors' \in 0..MaxDbErrors
  BY BoundsAssumption DEF TypeOK, CallFails, CallWorks, ConnectionFails

LEMMA InitTypeOK == Init => TypeOK
  BY RolesAssumption, BoundsAssumption
     DEF Init, TypeOK, Rows, NoRow, Transactions, NoTx, Statuses, Locations,
         InTxLocations, Lives

\* RecordPending keeps the row well formed as long as it may count up.
LEMMA RecordPendingTypes ==
    ASSUME TypeOK, NEW c \in Commands, row[c].sub < MaxSends, RecordPending(c)
    PROVE  row' \in [Commands -> Rows]
  <1>1. SendTimes \subseteq 0..MaxTime /\ now \in 0..MaxTime
    BY BoundsAssumption DEF TypeOK, SendTimes
  <1>2. PICK t \in SendTimes :
            row' = [row EXCEPT ![c] = [status    |-> "pending",
                                       sub       |-> row[c].sub + 1,
                                       startedAt |-> t,
                                       visibleAt |-> now]]
    BY DEF RecordPending
  <1>3. row[c].sub + 1 \in 0..MaxSends
    BY BoundsAssumption DEF TypeOK, Rows
  <1> QED
    BY <1>1, <1>2, <1>3 DEF TypeOK, Rows, Statuses

\* A worker without a transaction has a well-formed one in hand.
LEMMA NoTxType == NoTx \in Transactions
  BY BoundsAssumption DEF NoTx, NoRow, Transactions, Rows, Statuses

\* The steps of one worker inside its transaction.
LEMMA TransactionTypes ==
    ASSUME TypeOK, NEW w \in Workers,
           \/ Fetch(w) \/ RecordStarted(w) \/ Handle(w) \/ HandleError(w)
           \/ RecordSuccess(w)
    PROVE  TypeOK'
  <1>1. /\ pc' \in [Workers -> Locations]
        /\ UNCHANGED <<dbVars, signalVars, envVars>>
    BY DEF TypeOK, Locations, InTxLocations, Fetch, RecordStarted, Handle,
           HandleError, RecordSuccess
  <1>2. dbErrors' \in 0..MaxDbErrors
    BY CallTypes DEF TypeOK, Fetch, RecordStarted, Handle, HandleError,
           RecordSuccess
  <1>3. tx' \in [Workers -> Transactions]
    <2>1. tx[w] \in Transactions /\ now \in 0..MaxTime
      BY DEF TypeOK
    <2>2. CASE Fetch(w)
      <3>1. PICK c \in NextPending :
              tx' = [tx EXCEPT ![w] =
                        [cmd |-> c, view |-> row[c], wrote |-> FALSE]]
        BY <2>2 DEF Fetch
      <3> DEFINE t == [cmd |-> c, view |-> row[c], wrote |-> FALSE]
      <3>2. c \in Commands /\ row[c] \in Rows
        BY <3>1 DEF NextPending, Pending, TypeOK
      <3>3. t \in Transactions
        BY <3>2 DEF Transactions
      <3>4. tx' = [tx EXCEPT ![w] = t]
        BY <3>1
      <3> HIDE DEF t
      <3> QED
        BY <3>3, <3>4 DEF TypeOK
    <2>3. CASE RecordStarted(w)
      BY <2>1, <2>3 DEF TypeOK, RecordStarted, Transactions, Rows, Statuses
    <2>4. CASE Handle(w)
      BY <2>1, <2>4 DEF TypeOK, Handle, Transactions
    <2>5. CASE HandleError(w)
      <3>1. [NoTx EXCEPT !.cmd = tx[w].cmd] \in Transactions
        BY <2>1, NoTxType DEF Transactions
      <3> QED
        BY <2>5, <3>1 DEF TypeOK, HandleError
    <2>6. CASE RecordSuccess(w)
      BY <2>1, <2>6 DEF TypeOK, RecordSuccess, Transactions, Rows, Statuses
    <2> QED
      BY <2>2, <2>3, <2>4, <2>5, <2>6
  <1> QED
    BY <1>1, <1>2, <1>3 DEF TypeOK, dbVars, signalVars, envVars

\* The steps that end a transaction, and what drain does next.
LEMMA OutcomeTypes ==
    ASSUME TypeOK, NEW w \in Workers,
           \/ FetchNothing(w) \/ Commit(w) \/ AfterCommit(w) \/ RecordFailure(w)
           \/ RecordFailureLost(w) \/ NotRunnable(w) \/ DbError(w)
           \/ CommitAnswerLost(w)
    PROVE  TypeOK'
  <1>1. pc' \in [Workers -> Locations]
    BY DEF TypeOK, Locations, InTxLocations, FetchNothing, Commit, AfterCommit,
           RecordFailure, RecordFailureLost, NotRunnable, DbError,
           CommitAnswerLost, GiveUp
  <1>2. tx' \in [Workers -> Transactions]
    BY NoTxType
       DEF TypeOK, FetchNothing, Commit, AfterCommit, RecordFailure,
           RecordFailureLost, NotRunnable, DbError, CommitAnswerLost, GiveUp
  <1>3. /\ row' \in [Commands -> Rows]
        /\ effects' \in [Commands -> [0..MaxSends -> Nat]]
    <2>1. CASE Commit(w) \/ CommitAnswerLost(w)
      BY <2>1, ApplyTxTypes DEF Commit, CommitAnswerLost
    <2>2. CASE RecordFailure(w)
      BY <2>2 DEF TypeOK, RecordFailure, Rows, Statuses
    <2> QED
      BY <2>1, <2>2
         DEF TypeOK, FetchNothing, AfterCommit, RecordFailureLost, NotRunnable,
             DbError, dbVars
  <1>4. dbErrors' \in 0..MaxDbErrors
    BY CallTypes
       DEF TypeOK, FetchNothing, Commit, AfterCommit, RecordFailure,
           RecordFailureLost, NotRunnable, DbError, CommitAnswerLost
  <1>5. token' \in [Instances -> BOOLEAN]
    BY BoundsAssumption
       DEF TypeOK, WakePeers, FetchNothing, Commit, AfterCommit, RecordFailure,
           RecordFailureLost, NotRunnable, DbError, CommitAnswerLost, signalVars
  <1>6. /\ outboxToken' \in [Instances -> BOOLEAN]
        /\ sending' \subseteq Senders
    BY DEF TypeOK, FetchNothing, Commit, AfterCommit, RecordFailure,
           RecordFailureLost, NotRunnable, DbError, CommitAnswerLost, signalVars
  <1>7. UNCHANGED envVars
    BY DEF FetchNothing, Commit, AfterCommit, RecordFailure,
           RecordFailureLost, NotRunnable, DbError, CommitAnswerLost
  <1> QED
    BY <1>1, <1>2, <1>3, <1>4, <1>5, <1>6, <1>7 DEF TypeOK, envVars

\* The select loop of runWorker.
LEMMA LoopTypes ==
    ASSUME TypeOK, NEW w \in Workers,
           BackoffOver(w) \/ Poll(w) \/ WakeUp(w) \/ Drain(w) \/ Exit(w)
    PROVE  TypeOK'
  BY DEF TypeOK, BackoffOver, Poll, WakeUp, Drain, Exit, Locations,
         dbVars, signalVars, envVars

\* CommandBus.Send.
LEMMA SendTypes ==
    ASSUME TypeOK, NEW s \in Senders,
           \/ Notify(s)
           \/ \E c \in Commands : Send(s, c) \/ SendAnswerLost(s, c)
    PROVE  TypeOK'
  <1>1. CASE Notify(s)
    BY <1>1, BoundsAssumption DEF TypeOK, Notify, dbVars, envVars
  <1>2. ASSUME NEW c \in Commands, Send(s, c) \/ SendAnswerLost(s, c)
        PROVE  TypeOK'
    <2>1. row' \in [Commands -> Rows]
      BY <1>2, RecordPendingTypes DEF Send, SendAnswerLost
    <2>2. dbErrors' \in 0..MaxDbErrors
      BY <1>2, CallTypes DEF TypeOK, Send, SendAnswerLost
    <2> QED
      BY <1>2, <2>1, <2>2
         DEF TypeOK, Send, SendAnswerLost, signalVars, envVars
  <1> QED
    BY <1>1, <1>2

\* Starting, stopping and crashing.
LEMMA LifeTypes ==
    ASSUME TypeOK, NEW i \in Instances,
           Start(i) \/ Stop(i) \/ Stopped(i) \/ Crash(i)
    PROVE  TypeOK'
  <1>1. CASE Start(i)
    BY <1>1 DEF TypeOK, Start, Locations, Lives, dbVars
  <1>2. CASE Stop(i)
    BY <1>2, BoundsAssumption DEF TypeOK, Stop, Lives, dbVars, signalVars
  <1>3. CASE Stopped(i) \/ Crash(i)
    <2>1. outages' \in 0..MaxOutages
      BY <1>3, BoundsAssumption DEF TypeOK, Stopped, Crash
    <2>2. ProcessEnds(i)
      BY <1>3 DEF Stopped, Crash
    <2> QED
      BY <2>1, <2>2, NoTxType DEF TypeOK, ProcessEnds, Locations, Lives, dbVars
  <1> QED
    BY <1>1, <1>2, <1>3

LEMMA NextTypeOK == TypeOK /\ [Next]_vars => TypeOK'
  <1> SUFFICES ASSUME TypeOK, [Next]_vars
               PROVE  TypeOK'
    OBVIOUS
  <1>1. ASSUME NEW w \in Workers, RunWorker(w)
        PROVE  TypeOK'
    BY <1>1, TransactionTypes, OutcomeTypes, LoopTypes DEF RunWorker, ProcessNext
  <1>2. ASSUME NEW s \in Senders,
               \/ Notify(s)
               \/ \E c \in Commands : Send(s, c) \/ SendAnswerLost(s, c)
        PROVE  TypeOK'
    BY <1>2, SendTypes
  <1>3. ASSUME NEW i \in Instances, Start(i) \/ Stop(i) \/ Stopped(i) \/ Crash(i)
        PROVE  TypeOK'
    BY <1>3, LifeTypes
  <1>4. CASE Tick
    BY <1>4, BoundsAssumption DEF TypeOK, Tick, dbVars, signalVars
  <1>5. CASE UNCHANGED vars
    BY <1>5 DEF TypeOK, vars
  <1> QED
    BY <1>1, <1>2, <1>3, <1>4, <1>5 DEF Next

\* Every variable keeps its type: in particular a row never counts more
\* submissions, and a run never more failures, than the bounds allow.
THEOREM Typing == Spec => []TypeOK
  BY InitTypeOK, NextTypeOK, PTL DEF Spec

-----------------------------------------------------------------------------
(* Row locks and transactions.                                             *)

LEMMA InitTransactions == Init => TransactionInv /\ LocksExclusive
  BY DEF Init, TransactionInv, LocksExclusive, InTx, InTxLocations

\* A step of a worker leaves the other workers alone, with the rows they lock.
LEMMA OthersUntouched ==
    ASSUME TypeOK, TransactionInv, LocksExclusive,
           NEW w \in Workers, RunWorker(w), NEW u \in Workers \ {w}
    PROVE  /\ pc'[u] = pc[u]
           /\ tx'[u] = tx[u]
           /\ InTx(u) => row'[tx[u].cmd] = row[tx[u].cmd]
  <1>1. pc'[u] = pc[u] /\ tx'[u] = tx[u]
    BY DEF TypeOK, RunWorker, ProcessNext, Fetch, FetchNothing, RecordStarted,
           Handle, HandleError, RecordSuccess, Commit, AfterCommit,
           RecordFailure, RecordFailureLost, NotRunnable, DbError,
           CommitAnswerLost, GiveUp, BackoffOver, Poll, WakeUp, Drain, Exit
  <1>2. CASE Commit(w) \/ CommitAnswerLost(w)
    <2>1. InTx(w)
      BY <1>2 DEF Commit, CommitAnswerLost, InTx, InTxLocations
    <2>2. InTx(u) => tx[u].cmd # tx[w].cmd /\ tx[u].cmd \in Commands
      BY <2>1 DEF LocksExclusive, TransactionInv, Pending
    <2>3. row' = [row EXCEPT ![tx[w].cmd] = tx[w].view]
      BY <1>2 DEF Commit, CommitAnswerLost, ApplyTx
    <2> QED
      BY <1>1, <2>2, <2>3 DEF TypeOK
  <1>3. CASE RecordFailure(w)
    <2>1. InTx(u) => tx[u].cmd # tx[w].cmd
      BY <1>3 DEF RecordFailure, WriteWaits, Locked
    <2> QED
      BY <1>1, <1>3, <2>1 DEF RecordFailure, TypeOK
  <1>4. CASE ~(Commit(w) \/ CommitAnswerLost(w) \/ RecordFailure(w))
    <2>1. row' = row
      BY <1>4 DEF RunWorker, ProcessNext, Fetch, FetchNothing, RecordStarted,
           Handle, HandleError, RecordSuccess, AfterCommit, RecordFailureLost,
           NotRunnable, DbError, BackoffOver, Poll, WakeUp, Drain, Exit, dbVars
    <2> QED
      BY <1>1, <2>1
  <1> QED
    BY <1>2, <1>3, <1>4

\* A worker's step that ends inside a transaction began there, or fetched a
\* command that nobody had locked.
LEMMA OwnTransaction ==
    ASSUME TypeOK, TransactionInv, NEW w \in Workers, RunWorker(w), InTx(w)'
    PROVE  /\ row' = row
           /\ tx'[w].cmd \in Pending
           /\ tx'[w].view.sub = row[tx'[w].cmd].sub
           /\ pc'[w] \in {"handled", "recorded"} => tx'[w].wrote
           /\ pc'[w] = "recorded" => tx'[w].view.status = "success"
           /\ \/ InTx(w) /\ tx'[w].cmd = tx[w].cmd
              \/ ~Locked(tx'[w].cmd)
  <1> DEFINE Goal ==
           /\ row' = row
           /\ tx'[w].cmd \in Pending
           /\ tx'[w].view.sub = row[tx'[w].cmd].sub
           /\ pc'[w] \in {"handled", "recorded"} => tx'[w].wrote
           /\ pc'[w] = "recorded" => tx'[w].view.status = "success"
           /\ \/ InTx(w) /\ tx'[w].cmd = tx[w].cmd
              \/ ~Locked(tx'[w].cmd)
  <1>1. pc'[w] \in InTxLocations /\ pc \in [Workers -> Locations]
    BY DEF InTx, TypeOK
  <1>2. tx \in [Workers -> Transactions] /\ tx[w] \in Transactions
    BY DEF TypeOK
  <1>3. CASE Fetch(w)
    <2>1. PICK c \in NextPending :
            tx' = [tx EXCEPT ![w] =
                      [cmd |-> c, view |-> row[c], wrote |-> FALSE]]
      BY <1>3 DEF Fetch
    <2>2. c \in Pending /\ ~Locked(c)
      BY DEF NextPending
    <2>3. tx'[w] = [cmd |-> c, view |-> row[c], wrote |-> FALSE]
      BY <1>2, <2>1
    <2>4. row' = row /\ pc'[w] = "fetched"
      BY <1>1, <1>3 DEF Fetch, dbVars
    <2> QED
      BY <2>2, <2>3, <2>4
  <1>4. CASE RecordStarted(w)
    <2>1. /\ pc[w] = "fetched"
          /\ pc'[w] = "started"
          /\ row' = row
          /\ tx' = [tx EXCEPT ![w].view.status = "pending",
                              ![w].view.startedAt = now]
      BY <1>1, <1>4 DEF RecordStarted, dbVars
    <2>2. tx'[w].cmd = tx[w].cmd /\ tx'[w].view.sub = tx[w].view.sub
      BY <1>2, <2>1 DEF Transactions, Rows
    <2> QED
      BY <2>1, <2>2 DEF TransactionInv, InTx, InTxLocations
  <1>5. CASE Handle(w)
    <2>1. /\ pc[w] = "started"
          /\ pc'[w] = "handled"
          /\ row' = row
          /\ tx' = [tx EXCEPT ![w].wrote = TRUE]
      BY <1>1, <1>5 DEF Handle, dbVars
    <2>2. tx'[w].cmd = tx[w].cmd /\ tx'[w].view = tx[w].view /\ tx'[w].wrote
      BY <1>2, <2>1 DEF Transactions
    <2> QED
      BY <2>1, <2>2 DEF TransactionInv, InTx, InTxLocations
  <1>6. CASE RecordSuccess(w)
    <2>1. /\ pc[w] = "handled"
          /\ pc'[w] = "recorded"
          /\ row' = row
          /\ tx' = [tx EXCEPT ![w].view.status = "success"]
      BY <1>1, <1>6 DEF RecordSuccess, dbVars
    <2>2. /\ tx'[w].cmd = tx[w].cmd
          /\ tx'[w].wrote = tx[w].wrote
          /\ tx'[w].view.sub = tx[w].view.sub
          /\ tx'[w].view.status = "success"
      BY <1>2, <2>1 DEF Transactions, Rows
    <2> QED
      BY <2>1, <2>2 DEF TransactionInv, InTx, InTxLocations
  <1>7. Fetch(w) \/ RecordStarted(w) \/ Handle(w) \/ RecordSuccess(w)
    BY <1>1 DEF InTxLocations, RunWorker, ProcessNext, FetchNothing,
         HandleError, Commit, AfterCommit, RecordFailure, RecordFailureLost,
         NotRunnable, DbError, CommitAnswerLost, GiveUp, BackoffOver, Poll,
         WakeUp, Drain, Exit
  <1> QED
    BY <1>3, <1>4, <1>5, <1>6, <1>7

LEMMA WorkerTransactions ==
    ASSUME TypeOK, TransactionInv, LocksExclusive,
           NEW w \in Workers, RunWorker(w)
    PROVE  TransactionInv' /\ LocksExclusive'
  <1>1. ASSUME NEW u \in Workers \ {w}, InTx(u)'
        PROVE  /\ InTx(u) /\ tx'[u] = tx[u] /\ pc'[u] = pc[u]
               /\ row'[tx[u].cmd] = row[tx[u].cmd]
    BY <1>1, OthersUntouched DEF InTx
  <1>2. TransactionInv'
    <2>1. ASSUME NEW u \in Workers, InTx(u)'
          PROVE  (/\ tx[u].cmd \in Pending
                  /\ tx[u].view.sub = row[tx[u].cmd].sub
                  /\ pc[u] \in {"handled", "recorded"} => tx[u].wrote
                  /\ pc[u] = "recorded" => tx[u].view.status = "success")'
      <3>1. CASE u = w
        BY <2>1, <3>1, OwnTransaction DEF Pending
      <3>2. CASE u # w
        BY <1>1, <2>1, <3>2 DEF TransactionInv, Pending
      <3> QED
        BY <3>1, <3>2
    <2> QED
      BY <2>1 DEF TransactionInv
  <1>3. LocksExclusive'
    <2>1. ASSUME NEW u \in Workers \ {w}, InTx(u)', InTx(w)'
          PROVE  tx'[u].cmd # tx'[w].cmd
      <3>1. InTx(u) /\ tx'[u] = tx[u]
        BY <1>1, <2>1
      <3>2. CASE InTx(w) /\ tx'[w].cmd = tx[w].cmd
        BY <3>1, <3>2 DEF LocksExclusive
      <3>3. CASE ~Locked(tx'[w].cmd)
        BY <3>1, <3>3 DEF Locked
      <3> QED
        BY <2>1, <3>2, <3>3, OwnTransaction
    <2>2. ASSUME NEW u \in Workers \ {w}, NEW v \in Workers \ {w},
                 InTx(u)', InTx(v)', tx'[u].cmd = tx'[v].cmd
          PROVE  u = v
      BY <1>1, <2>2 DEF LocksExclusive
    <2> QED
      BY <2>1, <2>2 DEF LocksExclusive
  <1> QED
    BY <1>2, <1>3

LEMMA SendTransactions ==
    ASSUME TypeOK, TransactionInv, LocksExclusive, NEW s \in Senders,
           \/ Notify(s)
           \/ \E c \in Commands : Send(s, c) \/ SendAnswerLost(s, c)
    PROVE  TransactionInv' /\ LocksExclusive'
  <1>1. UNCHANGED <<pc, tx>>
    BY DEF Notify, Send, SendAnswerLost
  <1>2. LocksExclusive'
    BY <1>1 DEF LocksExclusive, InTx
  <1>3. ASSUME NEW w \in Workers, InTx(w)
        PROVE  row'[tx[w].cmd] = row[tx[w].cmd]
    <2>1. CASE Notify(s)
      BY <2>1 DEF Notify, dbVars
    <2>2. ASSUME NEW c \in Commands, Send(s, c) \/ SendAnswerLost(s, c)
          PROVE  row'[tx[w].cmd] = row[tx[w].cmd]
      <3>1. c # tx[w].cmd /\ tx[w].cmd \in Commands
        BY <1>3, <2>2
           DEF Send, SendAnswerLost, WriteWaits, Locked, TransactionInv, Pending
      <3>2. \E r : row' = [row EXCEPT ![c] = r]
        BY <2>2 DEF Send, SendAnswerLost, RecordPending
      <3> QED
        BY <3>1, <3>2 DEF TypeOK
    <2> QED
      BY <2>1, <2>2
  <1>4. TransactionInv'
    BY <1>1, <1>3 DEF TransactionInv, InTx, Pending
  <1> QED
    BY <1>2, <1>4

LEMMA LifeTransactions ==
    ASSUME TypeOK, TransactionInv, LocksExclusive, NEW i \in Instances,
           Start(i) \/ Stop(i) \/ Stopped(i) \/ Crash(i)
    PROVE  TransactionInv' /\ LocksExclusive'
  <1>1. row' = row
    BY DEF Start, Stop, Stopped, Crash, ProcessEnds, dbVars
  <1>2. ASSUME NEW w \in Workers, InTx(w)'
        PROVE  InTx(w) /\ pc'[w] = pc[w] /\ tx'[w] = tx[w]
    BY <1>2 DEF InTx, InTxLocations, Start, Stop, Stopped, Crash, ProcessEnds
  <1> QED
    BY <1>1, <1>2 DEF TransactionInv, LocksExclusive, Pending

LEMMA NextTransactions ==
    TypeOK /\ TransactionInv /\ LocksExclusive /\ [Next]_vars
        => TransactionInv' /\ LocksExclusive'
  <1> SUFFICES ASSUME TypeOK, TransactionInv, LocksExclusive, [Next]_vars
               PROVE  TransactionInv' /\ LocksExclusive'
    OBVIOUS
  <1>1. CASE Tick \/ UNCHANGED vars
    BY <1>1 DEF Tick, vars, dbVars, TransactionInv, LocksExclusive, InTx, Pending
  <1> QED
    BY <1>1, WorkerTransactions, SendTransactions, LifeTransactions DEF Next

-----------------------------------------------------------------------------
(* Effects.                                                                *)

LEMMA InitEffects == Init => EffectInv
  BY DEF Init, NoRow, EffectInv, AtMostOnceEffect, SuccessMeansApplied,
         PendingMeansUntouched, FutureUntouched, Pending

\* Which steps touch the database at all.
LEMMA DatabaseSteps ==
    ASSUME [Next]_vars
    PROVE  \/ UNCHANGED dbVars
           \/ \E w \in Workers :
                  Commit(w) \/ CommitAnswerLost(w) \/ RecordFailure(w)
           \/ \E s \in Senders, c \in Commands : Send(s, c) \/ SendAnswerLost(s, c)
  BY DEF Next, RunWorker, ProcessNext, Fetch, FetchNothing, RecordStarted,
         Handle, HandleError, RecordSuccess, AfterCommit, RecordFailureLost,
         NotRunnable, DbError, BackoffOver, Poll, WakeUp, Drain, Exit, Notify,
         Start, Stop, Stopped, Crash, ProcessEnds, Tick, dbVars, vars

\* Committing a transaction counts the effect of a submission that had none.
LEMMA ApplyTxEffects ==
    ASSUME TypeOK, TransactionInv, EffectInv, NEW w \in Workers,
           pc[w] = "recorded", ApplyTx(w)
    PROVE  EffectInv'
  <1> DEFINE c == tx[w].cmd
             s == row[c].sub
  <1>1. /\ c \in Commands
        /\ row[c].status = "pending"
        /\ tx[w].view.sub = s
        /\ tx[w].wrote
        /\ tx[w].view.status = "success"
    BY DEF TransactionInv, InTx, InTxLocations, Pending
  <1>2. s \in 0..MaxSends /\ effects[c] \in [0..MaxSends -> Nat]
    BY <1>1 DEF TypeOK, Rows
  <1>3. effects[c][s] = 0
    BY <1>1 DEF EffectInv, PendingMeansUntouched, Pending
  <1>4. row' = [row EXCEPT ![c] = tx[w].view]
    BY DEF ApplyTx
  <1>5. effects' = [effects EXCEPT ![c] = [effects[c] EXCEPT ![s] = 1]]
    BY <1>1, <1>3 DEF ApplyTx
  <1> HIDE DEF c, s
  <1>6. /\ row'[c].status = "success" /\ row'[c].sub = s
        /\ \A d \in Commands \ {c} : row'[d] = row[d] /\ effects'[d] = effects[d]
    BY <1>1, <1>4, <1>5 DEF TypeOK, c, s
  <1>7. effects'[c] = [effects[c] EXCEPT ![s] = 1]
    BY <1>1, <1>5 DEF TypeOK
  <1>8. \A t \in 0..MaxSends : effects'[c][t] = IF t = s THEN 1 ELSE effects[c][t]
    BY <1>2, <1>7
  <1>9. AtMostOnceEffect'
    BY <1>6, <1>8 DEF EffectInv, AtMostOnceEffect
  <1>10. SuccessMeansApplied'
    BY <1>2, <1>6, <1>8 DEF EffectInv, SuccessMeansApplied
  <1>11. PendingMeansUntouched'
    BY <1>6 DEF EffectInv, PendingMeansUntouched, Pending
  <1>12. FutureUntouched'
    BY <1>2, <1>6, <1>8 DEF EffectInv, FutureUntouched, c, s
  <1> QED
    BY <1>9, <1>10, <1>11, <1>12 DEF EffectInv

\* A new submission has no effects yet.
LEMMA RecordPendingEffects ==
    ASSUME TypeOK, EffectInv, NEW c \in Commands, row[c].sub < MaxSends,
           RecordPending(c), effects' = effects
    PROVE  EffectInv'
  <1>1. row[c].sub \in 0..MaxSends /\ row[c].sub + 1 \in 0..MaxSends
    BY BoundsAssumption DEF TypeOK, Rows
  <1>2. /\ row'[c].status = "pending" /\ row'[c].sub = row[c].sub + 1
        /\ \A d \in Commands \ {c} : row'[d] = row[d]
    BY DEF TypeOK, RecordPending
  <1>3. effects[c][row[c].sub + 1] = 0
    BY <1>1 DEF EffectInv, FutureUntouched
  <1>4. FutureUntouched'
    BY <1>1, <1>2 DEF EffectInv, FutureUntouched
  <1> QED
    BY <1>2, <1>3, <1>4
       DEF EffectInv, AtMostOnceEffect, SuccessMeansApplied,
           PendingMeansUntouched, Pending

LEMMA NextEffects ==
    TypeOK /\ TransactionInv /\ EffectInv /\ [Next]_vars => EffectInv'
  <1> SUFFICES ASSUME TypeOK, TransactionInv, EffectInv, [Next]_vars
               PROVE  EffectInv'
    OBVIOUS
  <1>1. ASSUME NEW w \in Workers, Commit(w) \/ CommitAnswerLost(w)
        PROVE  EffectInv'
    BY <1>1, ApplyTxEffects DEF Commit, CommitAnswerLost
  <1>2. ASSUME NEW w \in Workers, RecordFailure(w)
        PROVE  EffectInv'
    <2>1. /\ effects' = effects
          /\ \A d \in Commands :
                 row'[d].sub = row[d].sub
                 /\ (row'[d].status = row[d].status \/ row'[d].status = "failed")
      BY <1>2 DEF RecordFailure, TypeOK, Rows
    <2> QED
      BY <2>1 DEF EffectInv, AtMostOnceEffect, SuccessMeansApplied,
                  PendingMeansUntouched, FutureUntouched, Pending
  <1>3. ASSUME NEW s \in Senders, NEW c \in Commands,
               Send(s, c) \/ SendAnswerLost(s, c)
        PROVE  EffectInv'
    BY <1>3, RecordPendingEffects DEF Send, SendAnswerLost
  <1>4. CASE UNCHANGED dbVars
    BY <1>4 DEF dbVars, EffectInv, AtMostOnceEffect, SuccessMeansApplied,
                PendingMeansUntouched, FutureUntouched, Pending
  <1> QED
    BY <1>1, <1>2, <1>3, <1>4, DatabaseSteps

-----------------------------------------------------------------------------
(* The invariants.                                                         *)

IInv == TypeOK /\ TransactionInv /\ LocksExclusive /\ EffectInv

LEMMA Invariance == Spec => []IInv
  <1>1. Init => IInv
    BY InitTypeOK, InitTransactions, InitEffects DEF IInv
  <1>2. IInv /\ [Next]_vars => IInv'
    BY NextTypeOK, NextTransactions, NextEffects DEF IInv
  <1> QED
    BY <1>1, <1>2, PTL DEF Spec

\* However many workers and instances race, fail, crash and retry, no
\* submission's handler writes are committed twice.
THEOREM AtMostOnce == Spec => []AtMostOnceEffect
  <1>1. IInv => AtMostOnceEffect
    BY DEF IInv, EffectInv
  <1> QED
    BY <1>1, Invariance, PTL

\* Whoever reads 'success' finds the handler's writes committed.
THEOREM SuccessApplied == Spec => []SuccessMeansApplied
  <1>1. IInv => SuccessMeansApplied
    BY DEF IInv, EffectInv
  <1> QED
    BY <1>1, Invariance, PTL

\* Whatever a drain retries has left no trace of its earlier attempts.
THEOREM RetryStartsClean == Spec => []PendingMeansUntouched
  <1>1. IInv => PendingMeansUntouched
    BY DEF IInv, EffectInv
  <1> QED
    BY <1>1, Invariance, PTL

-----------------------------------------------------------------------------
(* Wake-ups.                                                               *)

\* A worker that will look at the queue before it goes to sleep.
UnderWay(w) == pc[w] \notin {"off", "idle", "backoff"}

\* What NoLostWakeup assumes, and what it promises.
Unattended ==
    /\ WakeupEnabled
    /\ dbErrors = 0
    /\ Pending # {}
    /\ Pending \subseteq Runnable
    /\ \A i \in Instances : life[i] = "up"

Attended ==
    \/ \E i \in Instances : token[i]
    \/ \E w \in Workers : UnderWay(w)
    \/ sending # {}

LEMMA WakeupForm == NoLostWakeup <=> (Unattended => Attended)
  BY DEF NoLostWakeup, Unattended, Attended, UnderWay

LEMMA InitWakeup == Init => NoLostWakeup
  BY WakeupForm DEF Init, Unattended, Pending, NoRow

\* A worker that finds nothing leaves every queued command to a worker that has
\* locked it.
LEMMA FetchNothingAttended ==
    ASSUME TypeOK, NEW w \in Workers, FetchNothing(w), Unattended'
    PROVE  Attended'
  <1>1. PICK c \in Pending : Locked(c)
    BY DEF FetchNothing, Unattended, Pending, dbVars
  <1>2. PICK v \in Workers : InTx(v)
    BY <1>1 DEF Locked
  <1>3. v # w
    BY <1>2 DEF FetchNothing, InTx, InTxLocations
  <1>4. UnderWay(v)'
    BY <1>2, <1>3 DEF FetchNothing, UnderWay, InTx, InTxLocations, TypeOK
  <1> QED
    BY <1>4 DEF Attended

\* A worker gives up only on a command that cannot run, on a database error, or
\* in an instance that is ending.
LEMMA GiveUpAttended ==
    ASSUME TypeOK, TransactionInv, NEW w \in Workers,
           NotRunnable(w) \/ DbError(w) \/ CommitAnswerLost(w)
    PROVE  ~Unattended'
  <1>1. CASE NotRunnable(w)
    <2>1. tx[w].cmd \in Pending \ Runnable
      BY <1>1 DEF NotRunnable, TransactionInv, InTx, InTxLocations
    <2>2. UNCHANGED dbVars
      BY <1>1 DEF NotRunnable
    <2> QED
      BY <2>1, <2>2 DEF Unattended, Pending, dbVars
  <1>2. CASE DbError(w)
    <2>1. UNCHANGED envVars /\ CallFails(InstanceOf[w])
      BY <1>2 DEF DbError
    <2>2. InstanceOf[w] \in Instances
      BY RolesAssumption
    <2>3. CASE life[InstanceOf[w]] = "cancelled"
      BY <2>1, <2>2, <2>3 DEF Unattended, envVars
    <2>4. CASE life[InstanceOf[w]] # "cancelled"
      BY <2>1, <2>4 DEF Unattended, CallFails, ConnectionFails, TypeOK
    <2> QED
      BY <2>3, <2>4
  <1>3. CASE CommitAnswerLost(w)
    BY <1>3 DEF CommitAnswerLost, ConnectionFails, Unattended, TypeOK
  <1> QED
    BY <1>1, <1>2, <1>3

LEMMA WorkerWakeup ==
    ASSUME TypeOK, TransactionInv, NoLostWakeup, NEW w \in Workers, RunWorker(w)
    PROVE  NoLostWakeup'
  <1> SUFFICES ASSUME Unattended'
               PROVE  Attended'
    BY DEF NoLostWakeup, Unattended, Attended, UnderWay
  <1>1. CASE FetchNothing(w)
    BY <1>1, FetchNothingAttended
  <1>2. CASE NotRunnable(w) \/ DbError(w) \/ CommitAnswerLost(w)
    BY <1>2, GiveUpAttended
  <1>3. CASE BackoffOver(w)
    <2>1. Unattended
      BY <1>3 DEF BackoffOver, Unattended, Pending, dbVars, envVars
    <2>2. \A v \in Workers : UnderWay(v) => UnderWay(v)'
      BY <1>3 DEF BackoffOver, UnderWay, TypeOK
    <2> QED
      BY <1>3, <2>1, <2>2, WakeupForm DEF BackoffOver, Attended, signalVars
  <1>4. CASE Exit(w)
    <2>1. InstanceOf[w] \in Instances /\ life[InstanceOf[w]] # "up"
      BY <1>4, RolesAssumption DEF Exit, Ending
    <2> QED
      BY <1>4, <2>1 DEF Exit, Unattended, envVars
  <1>5. CASE Drain(w)
    <2>1. ~Ending(InstanceOf[w])
      BY <1>5, RolesAssumption DEF Drain, Ending, Unattended, envVars
    <2> QED
      BY <1>5, <2>1 DEF Drain, Attended, UnderWay, TypeOK
  <1>6. CASE \/ Fetch(w) \/ RecordStarted(w) \/ Handle(w) \/ HandleError(w)
             \/ RecordSuccess(w) \/ Commit(w) \/ AfterCommit(w)
             \/ RecordFailure(w) \/ RecordFailureLost(w) \/ Poll(w) \/ WakeUp(w)
    <2>1. UnderWay(w)'
      BY <1>6 DEF UnderWay, TypeOK, Fetch, RecordStarted, Handle, HandleError,
           RecordSuccess, Commit, AfterCommit, RecordFailure, RecordFailureLost,
           Poll, WakeUp
    <2> QED
      BY <2>1 DEF Attended
  <1> QED
    BY <1>1, <1>2, <1>3, <1>4, <1>5, <1>6 DEF RunWorker, ProcessNext

LEMMA SendWakeup ==
    ASSUME TypeOK, NoLostWakeup, NEW s \in Senders,
           \/ Notify(s)
           \/ \E c \in Commands : Send(s, c) \/ SendAnswerLost(s, c)
    PROVE  NoLostWakeup'
  <1>1. CASE Notify(s)
    <2>1. InstanceOf[s] \in Instances
      BY RolesAssumption
    <2> QED
      BY <1>1, <2>1 DEF Notify, NoLostWakeup, TypeOK
  <1>2. ASSUME NEW c \in Commands, Send(s, c)
        PROVE  NoLostWakeup'
    BY <1>2 DEF Send, NoLostWakeup
  <1>3. ASSUME NEW c \in Commands, SendAnswerLost(s, c)
        PROVE  NoLostWakeup'
    BY <1>3 DEF SendAnswerLost, ConnectionFails, NoLostWakeup, TypeOK
  <1> QED
    BY <1>1, <1>2, <1>3

LEMMA LifeWakeup ==
    ASSUME TypeOK, NEW i \in Instances,
           Start(i) \/ Stop(i) \/ Stopped(i) \/ Crash(i)
    PROVE  NoLostWakeup'
  <1>1. CASE Start(i)
    <2>1. PICK w \in Workers : InstanceOf[w] = i
      BY RolesAssumption
    <2>2. pc'[w] = "drain"
      BY <1>1, <2>1 DEF Start, WorkersOf
    <2> QED
      BY <2>2 DEF NoLostWakeup
  <1>2. CASE Stop(i) \/ Stopped(i) \/ Crash(i)
    <2>1. life'[i] # "up"
      BY <1>2 DEF Stop, Stopped, Crash, ProcessEnds, TypeOK
    <2> QED
      BY <2>1 DEF NoLostWakeup
  <1> QED
    BY <1>1, <1>2

LEMMA NextWakeup ==
    TypeOK /\ TransactionInv /\ NoLostWakeup /\ [Next]_vars => NoLostWakeup'
  <1> SUFFICES ASSUME TypeOK, TransactionInv, NoLostWakeup, [Next]_vars
               PROVE  NoLostWakeup'
    OBVIOUS
  <1>1. CASE Tick \/ UNCHANGED vars
    BY <1>1 DEF Tick, vars, dbVars, signalVars, NoLostWakeup, Pending
  <1> QED
    BY <1>1, WorkerWakeup, SendWakeup, LifeWakeup DEF Next

\* No wake-up is lost, in whatever order workers fetch, skip locked rows, fall
\* asleep, notify each other, stop, crash and start.
THEOREM WakeupKept == Spec => []NoLostWakeup
  <1>1. IInv => TypeOK /\ TransactionInv
    BY DEF IInv
  <1> QED
    BY <1>1, Invariance, InitWakeup, NextWakeup, PTL DEF Spec

-----------------------------------------------------------------------------
(* A single worker keeps the contract.                                     *)

SingleInv == IInv /\ FailureInv /\ FailedMeansUntouched

LEMMA InitSingle == Init => FailureInv /\ FailedMeansUntouched
  BY DEF Init, FailureInv, FailedMeansUntouched, NoRow

\* Every step on the database is one the contract allows.
LEMMA CommitSucceeds ==
    ASSUME IInv, NEW w \in Workers, Commit(w) \/ CommitAnswerLost(w)
    PROVE  \E c \in Commands : Contract!Succeed(c)
  <1>1. ApplyTx(w) /\ pc[w] = "recorded"
    BY DEF Commit, CommitAnswerLost
  <1>2. tx[w].cmd \in Commands
    BY <1>1 DEF IInv, TransactionInv, InTx, InTxLocations, Pending
  <1>3. PICK c \in Commands : c = tx[w].cmd
    BY <1>2
  <1>4. /\ row[c].status = "pending"
        /\ tx[w].view.sub = row[c].sub
        /\ tx[w].wrote
        /\ tx[w].view.status = "success"
    BY <1>1, <1>3 DEF IInv, TransactionInv, InTx, InTxLocations, Pending
  <1>5. row' = [row EXCEPT ![c] = tx[w].view]
    BY <1>1, <1>3 DEF ApplyTx
  <1>6. effects' = [effects EXCEPT ![c][row[c].sub] = @ + 1]
    BY <1>1, <1>3, <1>4 DEF ApplyTx
  <1>7. row \in [Commands -> Rows]
    BY DEF IInv, TypeOK
  <1>8. [d \in Commands |-> row'[d].status]
            = [[d \in Commands |-> row[d].status] EXCEPT ![c] = "success"]
    BY <1>4, <1>5, <1>7
  <1>9. [d \in Commands |-> row'[d].sub] = [d \in Commands |-> row[d].sub]
    BY <1>4, <1>5, <1>7
  <1>10. Contract!Succeed(c)
    BY <1>4, <1>6, <1>8, <1>9 DEF Contract!Succeed
  <1> QED
    BY <1>10

LEMMA RecordFailureFails ==
    ASSUME IInv, FailureInv, NEW w \in Workers, RecordFailure(w)
    PROVE  \E c \in Commands : Contract!Fail(c)
  <1>1. tx[w].cmd \in Commands
    BY DEF RecordFailure, FailureInv, Pending
  <1>2. PICK c \in Commands : c = tx[w].cmd
    BY <1>1
  <1>3. row[c].status = "pending"
    BY <1>2 DEF RecordFailure, FailureInv, Pending
  <1>4. row' = [row EXCEPT ![c].status = "failed"] /\ effects' = effects
    BY <1>2 DEF RecordFailure
  <1>5. row \in [Commands -> Rows]
    BY DEF IInv, TypeOK
  <1>6. [d \in Commands |-> row'[d].status]
            = [[d \in Commands |-> row[d].status] EXCEPT ![c] = "failed"]
    BY <1>4, <1>5 DEF Rows
  <1>7. [d \in Commands |-> row'[d].sub] = [d \in Commands |-> row[d].sub]
    BY <1>4, <1>5 DEF Rows
  <1>8. Contract!Fail(c)
    BY <1>3, <1>4, <1>6, <1>7 DEF Contract!Fail
  <1> QED
    BY <1>8

LEMMA SendSubmits ==
    ASSUME IInv, NEW s \in Senders, NEW c \in Commands,
           Send(s, c) \/ SendAnswerLost(s, c)
    PROVE  Contract!Submit(c)
  <1>1. /\ row[c].sub < MaxSends
        /\ effects' = effects
        /\ RecordPending(c)
    BY DEF Send, SendAnswerLost
  <1>2. PICK t \in SendTimes :
            row' = [row EXCEPT ![c] = [status    |-> "pending",
                                       sub       |-> row[c].sub + 1,
                                       startedAt |-> t,
                                       visibleAt |-> now]]
    BY <1>1 DEF RecordPending
  <1>3. row \in [Commands -> Rows]
    BY DEF IInv, TypeOK
  <1>4. [d \in Commands |-> row'[d].status]
            = [[d \in Commands |-> row[d].status] EXCEPT ![c] = "pending"]
    BY <1>2, <1>3
  <1>5. [d \in Commands |-> row'[d].sub]
            = [[d \in Commands |-> row[d].sub] EXCEPT ![c] = @ + 1]
    BY <1>2, <1>3
  <1> QED
    BY <1>1, <1>4, <1>5 DEF Contract!Submit

\* A single worker records the failure of a command before anything else can
\* happen to its row but a new submission.
LEMMA NextFailure ==
    ASSUME SingleWorker, IInv, FailureInv, [Next]_vars
    PROVE  FailureInv'
  <1> SUFFICES ASSUME NEW w \in Workers, pc'[w] = "recordFailure"
               PROVE  (tx[w].cmd \in Pending)'
    BY DEF FailureInv
  <1>1. CASE HandleError(w)
    <2>1. tx[w].cmd \in Pending /\ UNCHANGED dbVars
      BY <1>1 DEF HandleError, IInv, TransactionInv, InTx, InTxLocations
    <2>2. tx'[w].cmd = tx[w].cmd
      BY <1>1 DEF HandleError, IInv, TypeOK, NoTx
    <2> QED
      BY <2>1, <2>2 DEF Pending, dbVars
  <1>2. CASE \E s \in Senders, c \in Commands : Send(s, c) \/ SendAnswerLost(s, c)
    <2>1. PICK s \in Senders, c \in Commands : Send(s, c) \/ SendAnswerLost(s, c)
      BY <1>2
    <2>2. UNCHANGED <<pc, tx>> /\ RecordPending(c)
      BY <2>1 DEF Send, SendAnswerLost
    <2>3. tx[w].cmd \in Pending
      BY <2>2 DEF FailureInv
    <2> QED
      BY <2>2, <2>3 DEF RecordPending, Pending, IInv, TypeOK
  <1>3. CASE /\ ~HandleError(w)
             /\ ~\E s \in Senders, c \in Commands :
                     Send(s, c) \/ SendAnswerLost(s, c)
    <2>1. pc[w] = "recordFailure" /\ tx'[w] = tx[w] /\ row' = row
      <3>1. CASE RunWorker(w)
        BY <1>3, <3>1
           DEF IInv, TypeOK, RunWorker, ProcessNext, Fetch, FetchNothing,
               RecordStarted, Handle, RecordSuccess, Commit, AfterCommit,
               RecordFailure, RecordFailureLost, NotRunnable, DbError,
               CommitAnswerLost, GiveUp, BackoffOver, Poll, WakeUp, Drain, Exit
      <3>2. CASE ~RunWorker(w)
        <4>1. \A v \in Workers : ~RunWorker(v)
          BY <3>2 DEF SingleWorker
        <4> QED
          BY <1>3, <4>1
             DEF Next, Notify, Start, Stop, Stopped, Crash, ProcessEnds, Tick,
                 dbVars, vars
      <3> QED
        BY <3>1, <3>2
    <2> QED
      BY <2>1 DEF FailureInv, Pending
  <1> QED
    BY <1>1, <1>2, <1>3

LEMMA NextContract ==
    ASSUME IInv, FailureInv, [Next]_vars
    PROVE  [Contract!Next]_(Contract!vars)
  <1>1. CASE UNCHANGED dbVars
    BY <1>1 DEF dbVars, Contract!vars
  <1>2. ASSUME NEW w \in Workers, Commit(w) \/ CommitAnswerLost(w)
        PROVE  Contract!Next
    BY <1>2, CommitSucceeds DEF Contract!Next
  <1>3. ASSUME NEW w \in Workers, RecordFailure(w)
        PROVE  Contract!Next
    BY <1>3, RecordFailureFails DEF Contract!Next
  <1>4. ASSUME NEW s \in Senders, NEW c \in Commands,
               Send(s, c) \/ SendAnswerLost(s, c)
        PROVE  Contract!Next
    BY <1>4, SendSubmits DEF Contract!Next
  <1> QED
    BY <1>1, <1>2, <1>3, <1>4, DatabaseSteps

LEMMA NextUntouched ==
    ASSUME IInv, FailureInv, FailedMeansUntouched, [Next]_vars
    PROVE  FailedMeansUntouched'
  <1>1. EffectInv /\ row \in [Commands -> Rows]
    BY DEF IInv, TypeOK
  <1>2. CASE UNCHANGED dbVars
    BY <1>2 DEF dbVars, FailedMeansUntouched
  <1>3. ASSUME NEW w \in Workers, Commit(w) \/ CommitAnswerLost(w)
        PROVE  FailedMeansUntouched'
    <2>1. tx[w].cmd \in Commands /\ tx[w].view.status = "success"
      BY <1>3 DEF Commit, CommitAnswerLost, IInv, TransactionInv, InTx,
                  InTxLocations, Pending
    <2>2. row' = [row EXCEPT ![tx[w].cmd] = tx[w].view]
      BY <1>3 DEF Commit, CommitAnswerLost, ApplyTx
    <2>3. \A c \in Commands \ {tx[w].cmd} : effects'[c] = effects[c]
      BY <1>3 DEF Commit, CommitAnswerLost, ApplyTx, IInv, TypeOK
    <2> QED
      BY <1>1, <2>1, <2>2, <2>3 DEF FailedMeansUntouched
  <1>4. ASSUME NEW w \in Workers, RecordFailure(w)
        PROVE  FailedMeansUntouched'
    <2>1. tx[w].cmd \in Pending
      BY <1>4 DEF RecordFailure, FailureInv
    <2>2. effects[tx[w].cmd][row[tx[w].cmd].sub] = 0
      BY <1>1, <2>1 DEF EffectInv, PendingMeansUntouched
    <2> QED
      BY <1>1, <1>4, <2>2 DEF RecordFailure, FailedMeansUntouched, Rows
  <1>5. ASSUME NEW s \in Senders, NEW c \in Commands,
               Send(s, c) \/ SendAnswerLost(s, c)
        PROVE  FailedMeansUntouched'
    BY <1>1, <1>5 DEF Send, SendAnswerLost, RecordPending, FailedMeansUntouched
  <1> QED
    BY <1>2, <1>3, <1>4, <1>5, DatabaseSteps

LEMMA SingleInvariance == SingleWorker => (Spec => []SingleInv)
  <1> SUFFICES ASSUME SingleWorker
               PROVE  Spec => []SingleInv
    OBVIOUS
  <1>1. Init => FailureInv /\ FailedMeansUntouched
    BY InitSingle
  <1>2. IInv /\ FailureInv /\ FailedMeansUntouched /\ [Next]_vars
            => FailureInv' /\ FailedMeansUntouched'
    BY NextFailure, NextUntouched
  <1> QED
    BY <1>1, <1>2, Invariance, PTL DEF Spec, SingleInv

\* With a single worker, whoever reads 'failed' can rely on the rollback.
THEOREM FailedUntouched == SingleWorker => (Spec => []FailedMeansUntouched)
  <1>1. SingleInv => FailedMeansUntouched
    BY DEF SingleInv
  <1> QED
    BY <1>1, SingleInvariance, PTL

\* With a single worker, the queue keeps the contract of CommandContract: every
\* submission is executed at most once and ends in success or in failure.
THEOREM ContractKept == SingleWorker => (Spec => ImplementsContract)
  <1>1. Init => Contract!Init
    BY BoundsAssumption DEF Init, NoRow, Contract!Init
  <1>2. SingleInv /\ [Next]_vars => [Contract!Next]_(Contract!vars)
    BY NextContract DEF SingleInv
  <1> QED
    BY <1>1, <1>2, SingleInvariance, PTL
       DEF Spec, ImplementsContract, Contract!Spec

-----------------------------------------------------------------------------
(* What several workers keep of the contract.                              *)

\* A failure about to be recorded is that of a command with a row.
ReportedInv ==
    \A w \in Workers : pc[w] = "recordFailure" =>
        tx[w].cmd \in Commands /\ row[tx[w].cmd].status # "none"

\* A row is never taken away again.
LEMMA RowsStay ==
    ASSUME IInv, [Next]_vars, NEW c \in Commands, row[c].status # "none"
    PROVE  row'[c].status # "none"
  <1>1. CASE UNCHANGED dbVars
    BY <1>1 DEF dbVars
  <1>2. ASSUME NEW w \in Workers, Commit(w) \/ CommitAnswerLost(w)
        PROVE  row'[c].status # "none"
    <2>1. /\ row' = [row EXCEPT ![tx[w].cmd] = tx[w].view]
          /\ tx[w].view.status = "success"
      BY <1>2 DEF Commit, CommitAnswerLost, ApplyTx, IInv, TransactionInv, InTx,
             InTxLocations
    <2> QED
      BY <2>1 DEF IInv, TypeOK
  <1>3. ASSUME NEW w \in Workers, RecordFailure(w)
        PROVE  row'[c].status # "none"
    BY <1>3 DEF RecordFailure, IInv, TypeOK, Rows
  <1>4. ASSUME NEW s \in Senders, NEW d \in Commands,
               Send(s, d) \/ SendAnswerLost(s, d)
        PROVE  row'[c].status # "none"
    BY <1>4 DEF Send, SendAnswerLost, RecordPending, IInv, TypeOK
  <1> QED
    BY <1>1, <1>2, <1>3, <1>4, DatabaseSteps

LEMMA NextReported ==
    ASSUME IInv, ReportedInv, [Next]_vars
    PROVE  ReportedInv'
  <1> SUFFICES ASSUME NEW w \in Workers, pc'[w] = "recordFailure"
               PROVE  tx'[w].cmd \in Commands /\ row'[tx'[w].cmd].status # "none"
    BY DEF ReportedInv
  <1>1. CASE HandleError(w)
    <2>1. tx[w].cmd \in Pending /\ UNCHANGED dbVars
      BY <1>1 DEF HandleError, IInv, TransactionInv, InTx, InTxLocations
    <2>2. tx'[w].cmd = tx[w].cmd
      BY <1>1 DEF HandleError, IInv, TypeOK, NoTx
    <2> QED
      BY <2>1, <2>2 DEF Pending, dbVars
  <1>2. CASE ~HandleError(w)
    <2>1. pc[w] = "recordFailure" /\ tx'[w] = tx[w]
      <3>1. CASE RunWorker(w)
        BY <1>2, <3>1
           DEF IInv, TypeOK, RunWorker, ProcessNext, Fetch, FetchNothing,
               RecordStarted, Handle, RecordSuccess, Commit, AfterCommit,
               RecordFailure, RecordFailureLost, NotRunnable, DbError,
               CommitAnswerLost, GiveUp, BackoffOver, Poll, WakeUp, Drain, Exit
      <3>2. ASSUME NEW v \in Workers \ {w}, RunWorker(v)
            PROVE  pc'[w] = pc[w] /\ tx'[w] = tx[w]
        BY <3>2, OthersUntouched DEF IInv
      <3>3. CASE \A v \in Workers : ~RunWorker(v)
        BY <3>3
           DEF IInv, TypeOK, Next, Notify, Send, SendAnswerLost, Start, Stop,
               Stopped, Crash, ProcessEnds, Tick, WorkersOf, vars
      <3> QED
        BY <3>1, <3>2, <3>3
    <2> QED
      BY <2>1, RowsStay DEF ReportedInv
  <1> QED
    BY <1>1, <1>2

LEMMA RecordFailureFailsLate ==
    ASSUME IInv, ReportedInv, NEW w \in Workers, RecordFailure(w)
    PROVE  \E c \in Commands : Contract!FailLate(c)
  <1>1. PICK c \in Commands : c = tx[w].cmd
    BY DEF RecordFailure, ReportedInv
  <1>2. row[c].status # "none"
    BY <1>1 DEF RecordFailure, ReportedInv
  <1>3. row' = [row EXCEPT ![c].status = "failed"] /\ effects' = effects
    BY <1>1 DEF RecordFailure
  <1>4. /\ [d \in Commands |-> row'[d].status]
              = [[d \in Commands |-> row[d].status] EXCEPT ![c] = "failed"]
        /\ [d \in Commands |-> row'[d].sub] = [d \in Commands |-> row[d].sub]
    BY <1>3 DEF IInv, TypeOK, Rows
  <1>5. Contract!FailLate(c)
    BY <1>2, <1>3, <1>4 DEF Contract!FailLate
  <1> QED
    BY <1>5

LEMMA NextSharedContract ==
    ASSUME IInv, ReportedInv, [Next]_vars
    PROVE  [Contract!SharedNext]_(Contract!vars)
  <1>1. CASE UNCHANGED dbVars
    BY <1>1 DEF dbVars, Contract!vars
  <1>2. ASSUME NEW w \in Workers, Commit(w) \/ CommitAnswerLost(w)
        PROVE  Contract!SharedNext
    BY <1>2, CommitSucceeds DEF Contract!SharedNext
  <1>3. ASSUME NEW w \in Workers, RecordFailure(w)
        PROVE  Contract!SharedNext
    BY <1>3, RecordFailureFailsLate DEF Contract!SharedNext
  <1>4. ASSUME NEW s \in Senders, NEW c \in Commands,
               Send(s, c) \/ SendAnswerLost(s, c)
        PROVE  Contract!SharedNext
    BY <1>4, SendSubmits DEF Contract!SharedNext
  <1> QED
    BY <1>1, <1>2, <1>3, <1>4, DatabaseSteps

\* Any number of workers keeps the contract but for failures that are reported
\* late: every submission is executed at most once, and succeeds with its writes.
THEOREM SharedContractKept == Spec => ImplementsSharedContract
  <1>1. Init => Contract!Init /\ ReportedInv
    BY BoundsAssumption DEF Init, NoRow, Contract!Init, ReportedInv
  <1>2. IInv /\ ReportedInv /\ [Next]_vars =>
            ReportedInv' /\ [Contract!SharedNext]_(Contract!vars)
    BY NextReported, NextSharedContract
  <1> QED
    BY <1>1, <1>2, Invariance, PTL
       DEF Spec, ImplementsSharedContract, Contract!SharedSpec

-----------------------------------------------------------------------------
(* Workers overtake few older commands.                                    *)

\* No row took effect at a time that is yet to come.
TimeInv ==
    /\ \A c \in Commands : row[c].visibleAt <= now
    /\ \A w \in Workers : tx[w].view.visibleAt <= now

\* Of the older commands, fewer are waiting than can be in hand: what has turned
\* up since the fetch was not there before.
FewOlder ==
    \A w \in Workers : InTx(w) =>
        /\ IsFiniteSet(Overtaken(tx[w].cmd))
        /\ Cardinality(Overtaken(tx[w].cmd)) < MostInHand

OrderInv == IInv /\ TimeInv /\ FewOlder

LEMMA InitOrder == Init => TimeInv /\ FewOlder
  BY BoundsAssumption
     DEF Init, TimeInv, FewOlder, NoRow, NoTx, InTx, InTxLocations

LEMMA NextTime == TypeOK /\ TypeOK' /\ TimeInv /\ [Next]_vars => TimeInv'
  <1> SUFFICES ASSUME TypeOK, TypeOK', TimeInv, [Next]_vars
               PROVE  TimeInv'
    OBVIOUS
  <1>1. now \in Nat /\ now' \in Nat /\ now <= now'
    <2>1. now \in Nat
      BY BoundsAssumption DEF TypeOK
    <2>2. CASE Tick
      BY <2>1, <2>2 DEF Tick
    <2>3. ASSUME NEW w \in Workers, RunWorker(w)
          PROVE  now' = now
      BY <2>3
         DEF RunWorker, ProcessNext, Fetch, FetchNothing, RecordStarted, Handle,
             HandleError, RecordSuccess, Commit, AfterCommit, RecordFailure,
             RecordFailureLost, NotRunnable, DbError, CommitAnswerLost,
             BackoffOver, Poll, WakeUp, Drain, Exit, envVars
    <2>4. CASE ~Tick /\ \A w \in Workers : ~RunWorker(w)
      <3>1. now' = now
        BY <2>4 DEF Next, Send, SendAnswerLost, Notify, Start, Stop, Stopped,
               Crash, ProcessEnds, envVars, vars
      <3> QED
        BY <2>1, <3>1
    <2> QED
      BY <2>1, <2>2, <2>3, <2>4
  <1>2. /\ \A c \in Commands : row[c].visibleAt \in Nat /\ row'[c].visibleAt \in Nat
        /\ \A w \in Workers :
              /\ tx[w].view.visibleAt \in Nat
              /\ tx'[w].view.visibleAt \in Nat
    <2>1. \A r \in Rows : r.visibleAt \in Nat
      BY BoundsAssumption DEF Rows
    <2>2. /\ \A c \in Commands : row[c] \in Rows /\ row'[c] \in Rows
          /\ \A w \in Workers : tx[w].view \in Rows /\ tx'[w].view \in Rows
      BY DEF TypeOK, Transactions
    <2> QED
      BY <2>1, <2>2
  <1>3. ASSUME NEW c \in Commands
        PROVE  row'[c].visibleAt <= now'
    <2>1. CASE UNCHANGED dbVars
      BY <1>1, <1>2, <2>1 DEF dbVars, TimeInv
    <2>2. ASSUME NEW w \in Workers, Commit(w) \/ CommitAnswerLost(w)
          PROVE  row'[c].visibleAt <= now'
      <3>1. row'[c] = row[c] \/ row'[c] = tx[w].view
        BY <2>2 DEF Commit, CommitAnswerLost, ApplyTx, TypeOK
      <3> QED
        BY <1>1, <1>2, <3>1 DEF TimeInv
    <2>3. ASSUME NEW w \in Workers, RecordFailure(w)
          PROVE  row'[c].visibleAt <= now'
      <3>1. row'[c].visibleAt = row[c].visibleAt
        BY <2>3 DEF RecordFailure, TypeOK, Rows
      <3> QED
        BY <1>1, <1>2, <3>1 DEF TimeInv
    <2>4. ASSUME NEW s \in Senders, NEW e \in Commands,
                 Send(s, e) \/ SendAnswerLost(s, e)
          PROVE  row'[c].visibleAt <= now'
      <3>1. row'[c] = row[c] \/ row'[c].visibleAt = now
        BY <2>4 DEF Send, SendAnswerLost, RecordPending, TypeOK
      <3> QED
        BY <1>1, <1>2, <3>1 DEF TimeInv
    <2> QED
      BY <2>1, <2>2, <2>3, <2>4, DatabaseSteps
  <1>4. ASSUME NEW w \in Workers
        PROVE  tx'[w].view.visibleAt <= now'
    <2> DEFINE Kept ==
            \/ tx'[w].view.visibleAt \in {0, tx[w].view.visibleAt}
            \/ \E c \in Commands : tx'[w].view.visibleAt = row[c].visibleAt
    <2>1. Kept
      <3>1. CASE Fetch(w)
        <4>1. PICK c \in NextPending :
                tx' = [tx EXCEPT ![w] =
                          [cmd |-> c, view |-> row[c], wrote |-> FALSE]]
          BY <3>1 DEF Fetch
        <4>2. c \in Commands /\ tx'[w].view = row[c]
          BY <4>1 DEF NextPending, Pending, TypeOK
        <4> QED
          BY <4>2
      <3>2. CASE RecordStarted(w) \/ Handle(w) \/ RecordSuccess(w)
        <4>1. /\ tx[w] \in Transactions
              /\ tx[w].view \in [status : Statuses, sub : 0..MaxSends,
                                 startedAt : 0..MaxTime, visibleAt : 0..MaxTime]
          BY DEF TypeOK, Transactions, Rows
        <4>2. CASE RecordStarted(w)
          BY <4>1, <4>2 DEF RecordStarted, TypeOK, Transactions, Rows
        <4>3. CASE Handle(w)
          BY <4>1, <4>3 DEF Handle, TypeOK, Transactions
        <4>4. CASE RecordSuccess(w)
          BY <4>1, <4>4 DEF RecordSuccess, TypeOK, Transactions, Rows
        <4> QED
          BY <3>2, <4>2, <4>3, <4>4
      <3>3. CASE \/ HandleError(w) \/ Commit(w) \/ RecordFailure(w)
                 \/ RecordFailureLost(w) \/ NotRunnable(w) \/ DbError(w)
                 \/ CommitAnswerLost(w)
        BY <3>3 DEF HandleError, Commit, RecordFailure, RecordFailureLost,
               NotRunnable, DbError, CommitAnswerLost, GiveUp, NoTx, NoRow, TypeOK
      <3>4. CASE \/ FetchNothing(w) \/ AfterCommit(w) \/ BackoffOver(w) \/ Poll(w)
                 \/ WakeUp(w) \/ Drain(w) \/ Exit(w)
        BY <3>4 DEF FetchNothing, AfterCommit, BackoffOver, Poll, WakeUp, Drain, Exit
      <3>5. ASSUME NEW v \in Workers \ {w}, RunWorker(v)
            PROVE  tx'[w] = tx[w]
        BY <3>5 DEF TypeOK, RunWorker, ProcessNext, Fetch, FetchNothing,
               RecordStarted, Handle, HandleError, RecordSuccess, Commit,
               AfterCommit, RecordFailure, RecordFailureLost, NotRunnable, DbError,
               CommitAnswerLost, GiveUp, BackoffOver, Poll, WakeUp, Drain, Exit
      <3>6. CASE \A v \in Workers : ~RunWorker(v)
        <4>1. tx'[w] = tx[w] \/ tx'[w] = NoTx
          BY <3>6 DEF Next, Send, SendAnswerLost, Notify, Start, Stop, Stopped,
                 Crash, ProcessEnds, Tick, vars
        <4> QED
          BY <4>1 DEF NoTx, NoRow
      <3>7. CASE RunWorker(w)
        BY <3>1, <3>2, <3>3, <3>4, <3>7 DEF RunWorker, ProcessNext
      <3>8. CASE \E v \in Workers \ {w} : RunWorker(v)
        BY <3>5, <3>8
      <3> QED
        BY <3>6, <3>7, <3>8
    <2> QED
      BY <1>1, <1>2, <2>1 DEF TimeInv
  <1> QED
    BY <1>3, <1>4 DEF TimeInv

\* A transaction begins with a fetch.
LEMMA OnlyFetchOpens ==
    ASSUME TypeOK, [Next]_vars, NEW w \in Workers, ~InTx(w), InTx(w)'
    PROVE  Fetch(w)
  <1>1. CASE RunWorker(w)
    <2>1. CASE RecordStarted(w) \/ Handle(w) \/ RecordSuccess(w)
      BY <2>1 DEF InTx, InTxLocations, RecordStarted, Handle, RecordSuccess
    <2>2. CASE \/ FetchNothing(w) \/ HandleError(w) \/ Commit(w)
               \/ AfterCommit(w) \/ RecordFailure(w) \/ RecordFailureLost(w)
               \/ NotRunnable(w) \/ DbError(w) \/ CommitAnswerLost(w)
      BY <2>2 DEF TypeOK, InTx, InTxLocations, FetchNothing, HandleError,
             Commit, AfterCommit, RecordFailure, RecordFailureLost,
             NotRunnable, DbError, CommitAnswerLost, GiveUp
    <2>3. CASE BackoffOver(w) \/ Poll(w) \/ WakeUp(w) \/ Drain(w) \/ Exit(w)
      BY <2>3 DEF TypeOK, InTx, InTxLocations, BackoffOver, Poll, WakeUp, Drain,
             Exit
    <2> QED
      BY <1>1, <2>1, <2>2, <2>3 DEF RunWorker, ProcessNext
  <1>2. ASSUME NEW v \in Workers \ {w}, RunWorker(v)
        PROVE  FALSE
    <2>1. pc'[w] = pc[w]
      BY <1>2 DEF TypeOK, RunWorker, ProcessNext, Fetch, FetchNothing,
             RecordStarted, Handle, HandleError, RecordSuccess, Commit,
             AfterCommit, RecordFailure, RecordFailureLost, NotRunnable, DbError,
             CommitAnswerLost, GiveUp, BackoffOver, Poll, WakeUp, Drain, Exit
    <2> QED
      BY <2>1 DEF InTx
  <1>3. CASE \A v \in Workers : ~RunWorker(v)
    BY <1>3
       DEF InTx, InTxLocations, Next, Notify, Send, SendAnswerLost, Start, Stop,
           Stopped, Crash, ProcessEnds, Tick, WorkersOf, vars
  <1> QED
    BY <1>1, <1>2, <1>3

\* The older commands that a fetch passes over are those the other workers have
\* in hand: on SQLite nobody has one.
LEMMA FetchOvertakes ==
    ASSUME IInv, NEW w \in Workers, Fetch(w)
    PROVE  /\ IsFiniteSet(Overtaken(tx'[w].cmd))
           /\ Cardinality(Overtaken(tx'[w].cmd)) < MostInHand
  <1> DEFINE others == {v \in Workers \ {w} : InTx(v)}
             inHand == {tx[v].cmd : v \in others}
             cmdOf == [v \in others |-> tx[v].cmd]
  <1>1. PICK c \in NextPending : tx'[w].cmd = c
    BY DEF Fetch, IInv, TypeOK
  <1>2. Overtaken(c) \subseteq inHand
    <2> SUFFICES ASSUME NEW d \in Overtaken(c)
                 PROVE  d \in inHand
      OBVIOUS
    <2>1. /\ c \in Commands /\ d \in Pending /\ d \in Commands
          /\ row[d].startedAt < row[c].startedAt
      BY DEF Overtaken, NextPending, Pending
    <2>2. row[c].startedAt \in Nat /\ row[d].startedAt \in Nat
      BY <2>1, BoundsAssumption DEF IInv, TypeOK, Rows
    <2>3. ~(row[c].startedAt <= row[d].startedAt)
      BY <2>1, <2>2
    <2>4. Locked(d)
      BY <2>1, <2>3 DEF NextPending
    <2>5. ~InTx(w)
      BY DEF Fetch, InTx, InTxLocations
    <2> QED
      BY <2>4, <2>5 DEF Locked
  <1>3. /\ IsFiniteSet(Workers \ {w})
        /\ Cardinality(Workers \ {w}) = Cardinality(Workers) - 1
        /\ Cardinality(Workers) \in Nat
    BY RolesAssumption, FS_RemoveElement, FS_CardinalityType
  <1>4. /\ IsFiniteSet(others)
        /\ Cardinality(others) <= Cardinality(Workers) - 1
    <2>1. others \subseteq Workers \ {w}
      OBVIOUS
    <2> HIDE DEF others
    <2> QED
      BY <1>3, <2>1, FS_Subset
  <1>5. cmdOf \in Surjection(others, inHand)
    BY DEF Surjection
  <1>6. /\ IsFiniteSet(inHand)
        /\ Cardinality(inHand) <= Cardinality(others)
    <2> HIDE DEF others, inHand, cmdOf
    <2> QED
      BY <1>4, <1>5, FS_Surjection
  <1>7. /\ IsFiniteSet(Overtaken(c))
        /\ Cardinality(Overtaken(c)) <= Cardinality(inHand)
    <2> HIDE DEF inHand
    <2> QED
      BY <1>2, <1>6, FS_Subset
  <1>8. /\ Cardinality(Overtaken(c)) \in Nat
        /\ Cardinality(inHand) \in Nat
        /\ Cardinality(others) \in Nat
    <2> HIDE DEF others, inHand
    <2> QED
      BY <1>4, <1>6, <1>7, FS_CardinalityType
  <1>9. CASE SkipLocked
    <2> HIDE DEF others, inHand
    <2> QED
      BY <1>1, <1>3, <1>4, <1>6, <1>7, <1>8, <1>9 DEF MostInHand
  <1>10. CASE ~SkipLocked
    <2>1. others = {}
      BY <1>10 DEF Fetch
    <2>2. inHand = {}
      BY <2>1
    <2>3. Overtaken(c) = {}
      BY <1>2, <2>2
    <2> QED
      BY <1>1, <1>10, <2>3, FS_EmptySet DEF MostInHand
  <1> QED
    BY <1>9, <1>10

\* Whatever happens to a transaction under way, no command joins those that are
\* older than the one in hand and were there before it.
LEMMA HoldsPlace ==
    ASSUME IInv, TimeInv, [Next]_vars, NEW w \in Workers, InTx(w), InTx(w)'
    PROVE  /\ tx'[w].cmd = tx[w].cmd
           /\ Overtaken(tx[w].cmd)' \subseteq Overtaken(tx[w].cmd)
  <1> DEFINE c == tx[w].cmd
  <1>1. c \in Pending /\ c \in Commands
    BY DEF IInv, TransactionInv, Pending
  <1>2. tx'[w].cmd = c /\ row'[c] = row[c]
    <2>1. CASE RunWorker(w)
      <3>1. row' = row
        BY <2>1, OwnTransaction DEF IInv
      <3>2. CASE RecordStarted(w) \/ Handle(w) \/ RecordSuccess(w)
        BY <3>1, <3>2 DEF RecordStarted, Handle, RecordSuccess, IInv, TypeOK,
               Transactions
      <3>3. CASE \/ Fetch(w) \/ FetchNothing(w) \/ HandleError(w) \/ Commit(w)
                 \/ AfterCommit(w) \/ RecordFailure(w) \/ RecordFailureLost(w)
                 \/ NotRunnable(w) \/ DbError(w) \/ CommitAnswerLost(w)
        BY <3>3 DEF IInv, TypeOK, InTx, InTxLocations, Fetch, FetchNothing,
               HandleError, Commit, AfterCommit, RecordFailure,
               RecordFailureLost, NotRunnable, DbError, CommitAnswerLost, GiveUp
      <3>4. CASE BackoffOver(w) \/ Poll(w) \/ WakeUp(w) \/ Drain(w) \/ Exit(w)
        BY <3>4 DEF IInv, TypeOK, InTx, InTxLocations, BackoffOver, Poll,
               WakeUp, Drain, Exit
      <3> QED
        BY <2>1, <3>2, <3>3, <3>4 DEF RunWorker, ProcessNext
    <2>2. ASSUME NEW v \in Workers \ {w}, RunWorker(v)
          PROVE  tx'[w].cmd = c /\ row'[c] = row[c]
      BY <2>2, OthersUntouched DEF IInv
    <2>3. ASSUME NEW s \in Senders, NEW e \in Commands,
                 Send(s, e) \/ SendAnswerLost(s, e)
          PROVE  tx'[w].cmd = c /\ row'[c] = row[c]
      <3>1. UNCHANGED tx /\ RecordPending(e) /\ ~Locked(e)
        BY <2>3 DEF Send, SendAnswerLost, WriteWaits
      <3>2. c # e
        BY <3>1 DEF Locked
      <3> QED
        BY <1>1, <3>1, <3>2 DEF RecordPending, IInv, TypeOK
    <2>4. CASE /\ \A v \in Workers : ~RunWorker(v)
               /\ ~\E s \in Senders, e \in Commands :
                       Send(s, e) \/ SendAnswerLost(s, e)
      BY <2>4
         DEF IInv, TypeOK, InTx, InTxLocations, Next, Notify, Start, Stop,
             Stopped, Crash, ProcessEnds, Tick, WorkersOf, dbVars, vars
    <2> QED
      BY <2>1, <2>2, <2>3, <2>4
  <1>3. ASSUME NEW d \in Commands, row'[d].status = "pending",
               row'[d].visibleAt < row[c].visibleAt
        PROVE  row[d] = row'[d]
    <2>1. CASE UNCHANGED dbVars
      BY <2>1 DEF dbVars
    <2>2. ASSUME NEW v \in Workers, Commit(v) \/ CommitAnswerLost(v)
          PROVE  row[d] = row'[d]
      <3>1. /\ InTx(v) /\ pc[v] = "recorded"
            /\ row' = [row EXCEPT ![tx[v].cmd] = tx[v].view]
        BY <2>2 DEF Commit, CommitAnswerLost, ApplyTx, InTx, InTxLocations
      <3>2. tx[v].view.status = "success"
        BY <3>1 DEF IInv, TransactionInv
      <3> QED
        BY <1>3, <3>1, <3>2 DEF IInv, TypeOK
    <2>3. ASSUME NEW v \in Workers, RecordFailure(v)
          PROVE  row[d] = row'[d]
      BY <1>3, <2>3 DEF RecordFailure, IInv, TypeOK, Rows
    <2>4. ASSUME NEW s \in Senders, NEW e \in Commands,
                 Send(s, e) \/ SendAnswerLost(s, e)
          PROVE  row[d] = row'[d]
      <3>1. RecordPending(e)
        BY <2>4 DEF Send, SendAnswerLost
      <3>2. CASE d = e
        <4>1. row'[d].visibleAt = now
          BY <3>1, <3>2 DEF RecordPending, IInv, TypeOK
        <4>2. /\ now \in Nat /\ row[c].visibleAt \in Nat
              /\ row[c].visibleAt <= now
          BY <1>1, BoundsAssumption DEF TimeInv, IInv, TypeOK, Rows
        <4> QED
          BY <1>3, <4>1, <4>2
      <3>3. CASE d # e
        BY <3>1, <3>3 DEF RecordPending, IInv, TypeOK
      <3> QED
        BY <3>2, <3>3
    <2> QED
      BY <2>1, <2>2, <2>3, <2>4, DatabaseSteps
  <1>4. Overtaken(c)' \subseteq Overtaken(c)
    <2> SUFFICES ASSUME NEW d \in Overtaken(c)'
                 PROVE  d \in Overtaken(c)
      OBVIOUS
    <2>1. /\ d \in Commands /\ row'[d].status = "pending"
          /\ row'[d].visibleAt < row[c].visibleAt
          /\ row'[d].startedAt < row[c].startedAt
      BY <1>2 DEF Overtaken, Pending
    <2> QED
      BY <1>3, <2>1 DEF Overtaken, Pending
  <1> QED
    BY <1>2, <1>4

LEMMA NextOlder ==
    ASSUME IInv, TimeInv, FewOlder, [Next]_vars
    PROVE  FewOlder'
  <1> SUFFICES ASSUME NEW w \in Workers, InTx(w)'
               PROVE  /\ IsFiniteSet(Overtaken(tx[w].cmd))'
                      /\ (Cardinality(Overtaken(tx[w].cmd)) < MostInHand)'
    BY DEF FewOlder
  <1>1. CASE InTx(w)
    <2> DEFINE before == Overtaken(tx[w].cmd)
               after == Overtaken(tx[w].cmd)'
    <2>1. after \subseteq before
      BY <1>1, HoldsPlace
    <2>2. IsFiniteSet(before) /\ Cardinality(before) < MostInHand
      BY <1>1 DEF FewOlder
    <2> HIDE DEF before, after
    <2>3. /\ IsFiniteSet(after)
          /\ Cardinality(after) <= Cardinality(before)
      BY <2>1, <2>2, FS_Subset
    <2>4. /\ Cardinality(after) \in Nat /\ Cardinality(before) \in Nat
          /\ Cardinality(Workers) \in Nat
      BY <2>2, <2>3, RolesAssumption, FS_CardinalityType
    <2>5. Cardinality(after) < MostInHand
      BY <2>2, <2>3, <2>4 DEF MostInHand
    <2> QED
      BY <2>3, <2>5 DEF after, MostInHand
  <1>2. CASE ~InTx(w)
    <2>1. Fetch(w)
      BY <1>2, OnlyFetchOpens DEF IInv
    <2>2. row' = row
      BY <2>1 DEF Fetch, dbVars
    <2>3. Overtaken(tx[w].cmd)' = Overtaken(tx'[w].cmd)
      BY <2>2 DEF Overtaken, Pending
    <2> QED
      BY <2>1, <2>3, FetchOvertakes DEF MostInHand
  <1> QED
    BY <1>1, <1>2

LEMMA OrderInvariance == Spec => []OrderInv
  <1>1. IInv /\ TimeInv /\ FewOlder /\ [Next]_vars /\ IInv'
            => TimeInv' /\ FewOlder'
    BY NextTime, NextOlder DEF IInv
  <1> QED
    BY <1>1, InitOrder, Invariance, PTL DEF Spec, OrderInv

\* However many workers race, a command that succeeds has overtaken fewer older
\* ones than can be in hand at once, on SQLite none.  On MySQL this is said of
\* those that were in the queue before it: a Send whose statement was held up can
\* bring an older one at any time.
THEOREM Overtaking == Spec => FewOvertaken
  <1>1. ASSUME OrderInv, [Next]_vars, NEW c \in Commands,
               row[c].status = "pending", row'[c].status = "success"
        PROVE  Cardinality(Overtaken(c)) < MostInHand
    <2>1. CASE UNCHANGED dbVars
      BY <1>1, <2>1 DEF dbVars
    <2>2. ASSUME NEW w \in Workers, Commit(w) \/ CommitAnswerLost(w)
          PROVE  Cardinality(Overtaken(c)) < MostInHand
      <3>1. InTx(w) /\ row' = [row EXCEPT ![tx[w].cmd] = tx[w].view]
        BY <2>2 DEF Commit, CommitAnswerLost, ApplyTx, InTx, InTxLocations
      <3>2. c = tx[w].cmd
        BY <1>1, <3>1 DEF OrderInv, IInv, TypeOK
      <3> QED
        BY <1>1, <3>1, <3>2 DEF OrderInv, FewOlder
    <2>3. ASSUME NEW w \in Workers, RecordFailure(w)
          PROVE  FALSE
      BY <1>1, <2>3 DEF RecordFailure, OrderInv, IInv, TypeOK, Rows
    <2>4. ASSUME NEW s \in Senders, NEW e \in Commands,
                 Send(s, e) \/ SendAnswerLost(s, e)
          PROVE  FALSE
      BY <1>1, <2>4 DEF Send, SendAnswerLost, RecordPending, OrderInv, IInv, TypeOK
    <2> QED
      BY <1>1, <2>1, <2>2, <2>3, <2>4, DatabaseSteps
  <1>2. OrderInv /\ [Next]_vars =>
            [\A c \in Commands :
                row[c].status = "pending" /\ row'[c].status = "success"
                => Cardinality(Overtaken(c)) < MostInHand]_vars
    BY <1>1
  <1> QED
    BY <1>2, OrderInvariance, PTL DEF Spec, FewOvertaken
=============================================================================
