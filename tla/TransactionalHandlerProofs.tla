---------------------- MODULE TransactionalHandlerProofs ----------------------
(***************************************************************************)
(* What is proved about TransactionalHandler for any number of commands,   *)
(* consumers, redeliveries and failures, on MySQL and on SQLite.           *)
(***************************************************************************)
EXTENDS TransactionalHandler, FiniteSetTheorems, TLAPS

IInv == TypeOK /\ DoneInv /\ NoSilentLoss

LEMMA InitIInv == Init => IInv
  BY ConstantsAssumption
     DEF Init, IInv, TypeOK, DoneInv, NoSilentLoss, Statuses, Locations,
         InTxLocations

\* The steps of Handle that touch neither the database nor the history.
LEMMA QuietSteps ==
    ASSUME IInv, NEW p \in Consumers,
           \/ BeginUntracked(p) \/ Skip(p) \/ GetStatus(p) \/ RecordStarted(p)
           \/ Handle(p) \/ RecordSuccess(p) \/ DbError(p)
    PROVE  IInv'
  <1>1. TypeOK'
    BY ConstantsAssumption
       DEF IInv, TypeOK, BeginUntracked, Skip, GetStatus, RecordStarted, Handle,
           RecordSuccess, DbError, ConnectionFails, At, Locations,
           InTxLocations, dbVars, brokerVars
  <1>2. /\ UNCHANGED <<status, effects, sent, deliveries, hand, refused>>
        /\ pc \in [Consumers -> Locations]
        /\ \A q \in Consumers \ {p} : pc'[q] = pc[q]
        /\ pc[p] # "idle" /\ pc'[p] \notin {"idle", "recordFailure"}
        /\ pc'[p] = "ack" => Skip(p)
    BY DEF IInv, TypeOK, BeginUntracked, Skip, GetStatus, RecordStarted, Handle,
           RecordSuccess, DbError, At, dbVars, brokerVars
  <1>3. Skip(p) => Done(hand[p])
    BY DEF Skip, IInv, DoneInv, At
  <1>4. DoneInv'
    BY <1>2, <1>3 DEF IInv, DoneInv, Done
  <1>5. NoSilentLoss'
    BY <1>2 DEF IInv, NoSilentLoss, InFlight, Done
  <1> QED
    BY <1>1, <1>4, <1>5 DEF IInv

\* The steps of Handle that decide what becomes of the command.
LEMMA DecidingSteps ==
    ASSUME IInv, NEW p \in Consumers,
           \/ HandleError(p) \/ Commit(p) \/ RecordFailure(p)
           \/ CommitAnswerLost(p) \/ RecordFailureAnswerLost(p)
    PROVE  IInv'
  <1>1. /\ pc[p] # "idle"
        /\ hand[p] \in Commands
        /\ UNCHANGED <<sent, deliveries, hand>>
        /\ \A q \in Consumers \ {p} : pc'[q] = pc[q]
    BY DEF HandleError, Commit, RecordFailure, CommitAnswerLost,
           RecordFailureAnswerLost, UpdateFailed, At, Complete, IInv, DoneInv,
           TypeOK, brokerVars
  <1>2. PICK c \in Commands : c = hand[p]
    BY <1>1
  <1>3. CASE HandleError(p)
    <2>1. /\ pc'[p] \in {"recordFailure", "nack"}
          /\ refused' = refused \cup {c}
          /\ UNCHANGED <<status, effects>>
      BY <1>2, <1>3 DEF HandleError, At, IInv, TypeOK, dbVars
    <2>2. TypeOK'
      BY <1>2, <1>3 DEF IInv, TypeOK, HandleError, At, Locations, dbVars, brokerVars
    <2>3. DoneInv'
      BY <1>1, <1>2, <2>1 DEF IInv, DoneInv, Done
    <2>4. NoSilentLoss'
      BY <1>1, <2>1 DEF IInv, NoSilentLoss, InFlight, Done
    <2> QED
      BY <2>2, <2>3, <2>4 DEF IInv
  <1>4. CASE Commit(p) \/ CommitAnswerLost(p)
    <2>1. /\ pc'[p] \in {"ack", "nack"}
          /\ effects' = [effects EXCEPT ![c] = @ + 1]
          /\ status' \in {status, [status EXCEPT ![c] = "success"]}
          /\ UNCHANGED refused
      BY <1>2, <1>4 DEF Commit, CommitAnswerLost, ApplyTx, IInv, TypeOK
    <2>2. TypeOK'
      <3>1. pc' \in [Consumers -> Locations]
        BY <1>4 DEF IInv, TypeOK, Commit, CommitAnswerLost, Locations
      <3>2. dbErrors' \in 0..MaxDbErrors
        BY <1>4, ConstantsAssumption
           DEF IInv, TypeOK, Commit, CommitAnswerLost, ConnectionFails
      <3>3. status' \in [Commands -> Statuses] /\ effects' \in [Commands -> Nat]
        BY <2>1 DEF IInv, TypeOK, Statuses
      <3> QED
        BY <1>1, <1>4, <3>1, <3>2, <3>3
           DEF IInv, TypeOK, Commit, CommitAnswerLost, brokerVars
    <2>3. \A d \in Commands : Done(d) => Done(d)'
      BY <2>1 DEF Done, IInv, TypeOK
    <2>4. Done(c)'
      BY <2>1 DEF Done, IInv, TypeOK
    <2>5. \A d \in Commands : status'[d] # "none" => status[d] # "none" \/ d = c
      BY <2>1 DEF IInv, TypeOK
    <2>6. DoneInv'
      <3>1. ASSUME NEW q \in Consumers
            PROVE  /\ IF pc'[q] = "idle" THEN hand'[q] = NoCommand
                                          ELSE hand'[q] \in Commands
                   /\ pc'[q] = "recordFailure" => hand'[q] \in refused'
                   /\ pc'[q] = "ack" => Done(hand[q])'
        <4>1. CASE q = p
          BY <1>1, <1>2, <2>1, <2>4, <4>1 DEF Done
        <4>2. CASE q # p
          BY <1>1, <2>1, <2>3, <4>2 DEF IInv, DoneInv, Done
        <4> QED
          BY <4>1, <4>2
      <3>2. \A d \in Commands : status'[d] # "none" => Done(d)'
        BY <2>3, <2>4, <2>5 DEF IInv, DoneInv
      <3> QED
        BY <3>1, <3>2 DEF DoneInv
    <2>7. NoSilentLoss'
      BY <1>1, <2>3 DEF IInv, TypeOK, NoSilentLoss, InFlight
    <2> QED
      BY <2>2, <2>6, <2>7 DEF IInv
  <1>5. CASE RecordFailure(p) \/ RecordFailureAnswerLost(p)
    <2>1. /\ pc[p] = "recordFailure" /\ pc'[p] \in {"ack", "nack"}
          /\ \A d \in Commands : status'[d] # "none" => status[d] # "none"
          /\ UNCHANGED <<effects, refused>>
      BY <1>5 DEF RecordFailure, RecordFailureAnswerLost, UpdateFailed, IInv, TypeOK
    <2>2. TypeOK'
      <3>1. dbErrors' \in 0..MaxDbErrors
        BY <1>5, ConstantsAssumption
           DEF IInv, TypeOK, RecordFailure, RecordFailureAnswerLost, ConnectionFails
      <3>2. status' \in [Commands -> Statuses]
        BY <1>1, <1>2, <1>5
           DEF IInv, TypeOK, RecordFailure, RecordFailureAnswerLost,
               UpdateFailed, Statuses
      <3> QED
        BY <1>1, <1>5, <3>1, <3>2
           DEF IInv, TypeOK, RecordFailure, RecordFailureAnswerLost, Locations,
               brokerVars
    <2>3. DoneInv'
      BY <1>1, <2>1 DEF IInv, DoneInv, Done
    <2>4. NoSilentLoss'
      BY <1>1, <2>1 DEF IInv, NoSilentLoss, InFlight, Done
    <2> QED
      BY <2>2, <2>3, <2>4 DEF IInv
  <1> QED
    BY <1>3, <1>4, <1>5

\* The broker and the router: a message leaves a consumer's hand only when its
\* command is done or another copy of it waits.
LEMMA BrokerSteps ==
    ASSUME IInv, NEW p \in Consumers,
           \/ Ack(p) \/ Nack(p) \/ Redeliver(p) \/ Crash(p)
           \/ \E c \in Commands : Receive(p, c)
    PROVE  IInv'
  <1>1. UNCHANGED <<status, effects, sent, refused, dbErrors>>
    BY DEF Ack, Nack, Redeliver, Crash, Receive, dbVars, brokerVars
  <1>2. \A c : Done(c)' <=> Done(c)
    BY <1>1 DEF Done
  <1>3. \A q \in Consumers \ {p} : pc'[q] = pc[q] /\ hand'[q] = hand[q]
    BY DEF Ack, Nack, Redeliver, Crash, Receive, At, IInv, TypeOK
  <1>4. CASE \E c \in Commands : Receive(p, c)
    <2>1. PICK c \in Commands : Receive(p, c)
      BY <1>4
    <2>2. /\ pc[p] = "idle" /\ pc'[p] = "received" /\ hand'[p] = c
          /\ deliveries[c] \in Nat \ {0}
          /\ deliveries' = [deliveries EXCEPT ![c] = @ - 1]
      BY <2>1 DEF Receive, At, IInv, TypeOK
    <2>3. TypeOK'
      BY <1>1, <2>1, <2>2 DEF IInv, TypeOK, Receive, At, Locations
    <2>4. DoneInv'
      BY <1>1, <1>2, <1>3, <2>2 DEF IInv, DoneInv
    <2>5. \A d \in sent : InFlight(d) => InFlight(d)' \/ Done(d)
      <3> SUFFICES ASSUME NEW d \in sent, InFlight(d), ~Done(d)
                   PROVE  InFlight(d)'
        OBVIOUS
      <3>1. CASE d = c
        BY <2>2, <3>1 DEF InFlight
      <3>2. CASE d # c /\ deliveries[d] > 0
        BY <2>2, <3>2 DEF InFlight, IInv, TypeOK
      <3>3. CASE d # c /\ \E q \in Consumers : hand[q] = d
        <4>1. hand[p] = NoCommand /\ d \in Commands
          BY <2>2 DEF IInv, DoneInv, TypeOK
        <4>2. PICK q \in Consumers : hand[q] = d
          BY <3>3
        <4>3. CASE q # p
          <5>1. hand'[q] = d
            BY <1>3, <4>2, <4>3
          <5> QED
            BY <5>1 DEF InFlight
        <4>4. CASE q = p
          BY <4>1, <4>2, <4>4, ConstantsAssumption
        <4> QED
          BY <4>3, <4>4
      <3> QED
        BY <3>1, <3>2, <3>3 DEF InFlight
    <2> QED
      BY <1>1, <1>2, <2>3, <2>4, <2>5 DEF IInv, NoSilentLoss
  <1>5. CASE Ack(p)
    <2>1. /\ pc[p] = "ack" /\ pc'[p] = "idle" /\ hand'[p] = NoCommand
          /\ UNCHANGED deliveries
      BY <1>5 DEF Ack, At, IInv, TypeOK, brokerVars
    <2>2. TypeOK'
      BY <1>1, <1>5 DEF IInv, TypeOK, Ack, At, Locations, brokerVars
    <2>3. DoneInv'
      BY <1>1, <1>2, <1>3, <2>1 DEF IInv, DoneInv
    <2>4. \A d \in sent : InFlight(d) => InFlight(d)' \/ Done(d)
      <3> SUFFICES ASSUME NEW d \in sent, InFlight(d), ~Done(d)
                   PROVE  InFlight(d)'
        OBVIOUS
      <3>1. CASE deliveries[d] > 0
        BY <2>1, <3>1 DEF InFlight
      <3>2. CASE \E q \in Consumers : hand[q] = d
        <4>1. PICK q \in Consumers : hand[q] = d
          BY <3>2
        <4>2. q # p
          BY <2>1, <4>1 DEF IInv, DoneInv
        <4>3. hand'[q] = d
          BY <1>3, <4>1, <4>2
        <4> QED
          BY <4>3 DEF InFlight
      <3> QED
        BY <3>1, <3>2 DEF InFlight
    <2> QED
      BY <1>1, <1>2, <2>2, <2>3, <2>4 DEF IInv, NoSilentLoss
  <1>6. CASE Nack(p) \/ Redeliver(p) \/ Crash(p)
    <2>1. hand[p] \in Commands
      BY <1>6 DEF Nack, Redeliver, Crash, At, IInv, DoneInv, TypeOK
    <2>2. PICK c \in Commands : c = hand[p]
      BY <2>1
    <2>3. /\ deliveries' = [deliveries EXCEPT ![c] = @ + 1]
          /\ \/ pc'[p] = "idle" /\ hand'[p] = NoCommand
             \/ pc'[p] = pc[p] /\ hand'[p] = hand[p]
      BY <1>6, <2>2 DEF Nack, Redeliver, Crash, At, IInv, TypeOK
    <2>4. TypeOK'
      <3>1. deliveries' \in [Commands -> Nat]
        BY <2>3 DEF IInv, TypeOK
      <3>2. redeliveries' \in 0..MaxRedeliveries
        BY <1>6, ConstantsAssumption DEF Nack, Redeliver, Crash, IInv, TypeOK
      <3> QED
        BY <1>1, <1>6, <3>1, <3>2
           DEF IInv, TypeOK, Nack, Redeliver, Crash, At, Locations
    <2>5. DoneInv'
      BY <1>1, <1>2, <1>3, <2>3 DEF IInv, DoneInv
    <2>6. \A d \in sent : InFlight(d) => InFlight(d)'
      <3> SUFFICES ASSUME NEW d \in sent, InFlight(d)
                   PROVE  InFlight(d)'
        OBVIOUS
      <3>1. \A e \in Commands : deliveries[e] > 0 => deliveries'[e] > 0
        BY <2>3 DEF IInv, TypeOK
      <3>2. deliveries'[c] > 0
        BY <2>3 DEF IInv, TypeOK
      <3>3. CASE deliveries[d] > 0
        BY <3>1, <3>3 DEF InFlight, IInv, TypeOK
      <3>4. CASE \E q \in Consumers : hand[q] = d
        <4>1. PICK q \in Consumers : hand[q] = d
          BY <3>4
        <4>2. CASE q = p
          BY <2>2, <3>2, <4>1, <4>2 DEF InFlight
        <4>3. CASE q # p
          <5>1. hand'[q] = d
            BY <1>3, <4>1, <4>3
          <5> QED
            BY <5>1 DEF InFlight
        <4> QED
          BY <4>2, <4>3
      <3> QED
        BY <3>3, <3>4 DEF InFlight
    <2> QED
      BY <1>1, <1>2, <2>4, <2>5, <2>6 DEF IInv, NoSilentLoss
  <1> QED
    BY <1>4, <1>5, <1>6

LEMMA SendStep ==
    ASSUME IInv, NEW c \in Commands, Send(c)
    PROVE  IInv'
  <1>1. /\ UNCHANGED <<status, effects, pc, hand, refused, dbErrors, redeliveries>>
        /\ sent' = sent \cup {c}
        /\ deliveries' = [deliveries EXCEPT ![c] = @ + 1]
    BY DEF Send, dbVars
  <1>2. TypeOK'
    BY <1>1 DEF IInv, TypeOK
  <1>3. DoneInv'
    BY <1>1 DEF IInv, DoneInv, Done
  <1>4. deliveries'[c] > 0 /\ \A d \in Commands \ {c} : deliveries'[d] = deliveries[d]
    BY <1>1 DEF IInv, TypeOK
  <1>5. NoSilentLoss'
    BY <1>1, <1>4 DEF IInv, TypeOK, NoSilentLoss, InFlight, Done
  <1> QED
    BY <1>2, <1>3, <1>5 DEF IInv

LEMMA NextIInv == IInv /\ [Next]_vars => IInv'
  <1> SUFFICES ASSUME IInv, [Next]_vars
               PROVE  IInv'
    OBVIOUS
  <1>1. CASE UNCHANGED vars
    BY <1>1 DEF vars, IInv, TypeOK, DoneInv, NoSilentLoss, InFlight, Done
  <1> QED
    BY <1>1, QuietSteps, DecidingSteps, BrokerSteps, SendStep
       DEF Next, HandleCommand

\* However messages are delivered again, consumers crash and answers get lost, a
\* command that was sent is in flight, was executed, or was turned down by its
\* handler.
THEOREM NothingLost == Spec => []NoSilentLoss
  <1>1. IInv => NoSilentLoss
    BY DEF IInv
  <1> QED
    BY <1>1, InitIInv, NextIInv, PTL DEF Spec

\* Every variable keeps its type: no copy of a message is consumed that was not
\* there, and no status but the three is ever read back.
THEOREM Typing == Spec => []TypeOK
  <1>1. IInv => TypeOK
    BY DEF IInv
  <1> QED
    BY <1>1, InitIInv, NextIInv, PTL DEF Spec

-----------------------------------------------------------------------------
(* SQLite runs one transaction at a time, so that the status GetStatus has  *)
(* read is still the status when the transaction commits.                   *)

OneTransaction == \A p, q \in Consumers : InTx(p) /\ InTx(q) => p = q

CheckStillTrue ==
    \A p \in Consumers :
        InTx(p) /\ hand[p] \in Tracked => status[hand[p]] = "none"

NoEffectUnrecorded == \A c \in Tracked : status[c] = "none" => effects[c] = 0

OnceInv ==
    OneTransaction /\ CheckStillTrue /\ NoEffectUnrecorded /\ AtMostOnceEffect

LEMMA InitOnceInv == Init => OnceInv
  BY ConstantsAssumption
     DEF Init, OnceInv, OneTransaction, CheckStillTrue, NoEffectUnrecorded,
         AtMostOnceEffect, InTx, InTxLocations

\* Whatever leaves the database alone and neither opens a transaction nor puts
\* a command into a consumer's hand that has one open.
LEMMA OnceKept ==
    ASSUME OnceInv, UNCHANGED <<status, effects>>,
           \A p \in Consumers : InTx(p)' => InTx(p) /\ hand'[p] = hand[p]
    PROVE  OnceInv'
  BY DEF OnceInv, OneTransaction, CheckStillTrue, NoEffectUnrecorded,
         AtMostOnceEffect, InTx

LEMMA OnceStep ==
    ASSUME ~RowLocks, TypeOK, OnceInv, [Next]_vars
    PROVE  OnceInv'
  <1>1. CASE UNCHANGED vars
    BY <1>1, OnceKept DEF vars, InTx
  <1>2. CASE \E c \in Commands : Send(c) \/ \E p \in Consumers : Receive(p, c)
    <2>1. UNCHANGED <<status, effects>>
      BY <1>2 DEF Send, Receive, dbVars
    <2>2. \A p \in Consumers : InTx(p)' => InTx(p) /\ hand'[p] = hand[p]
      BY <1>2 DEF Send, Receive, At, InTx, InTxLocations, TypeOK
    <2> QED
      BY <2>1, <2>2, OnceKept
  <1>3. ASSUME NEW p \in Consumers,
               \/ Skip(p) \/ RecordStarted(p) \/ Handle(p) \/ HandleError(p)
               \/ RecordSuccess(p) \/ DbError(p) \/ Ack(p) \/ Nack(p)
               \/ Redeliver(p) \/ Crash(p)
        PROVE  OnceInv'
    <2>1. UNCHANGED <<status, effects>>
      BY <1>3 DEF Skip, RecordStarted, Handle, HandleError, RecordSuccess,
             DbError, Ack, Nack, Redeliver, Crash, dbVars
    <2>2. \A q \in Consumers : InTx(q)' => InTx(q) /\ hand'[q] = hand[q]
      BY <1>3 DEF Skip, RecordStarted, Handle, HandleError, RecordSuccess,
             DbError, Ack, Nack, Redeliver, Crash, At, InTx, InTxLocations, TypeOK
    <2> QED
      BY <2>1, <2>2, OnceKept
  <1>4. ASSUME NEW p \in Consumers, BeginUntracked(p) \/ GetStatus(p)
        PROVE  OnceInv'
    <2>1. UNCHANGED <<status, effects, hand>>
      BY <1>4 DEF BeginUntracked, GetStatus, dbVars
    <2>2. \A q \in Consumers \ {p} : ~InTx(q)
      BY <1>4 DEF BeginUntracked, GetStatus, Waits
    <2>3. \A q \in Consumers \ {p} : ~InTx(q)'
      BY <1>4, <2>2 DEF BeginUntracked, GetStatus, At, InTx, TypeOK
    <2>4. hand[p] \in Tracked => status[hand[p]] = "none"
      BY <1>4, ConstantsAssumption
         DEF BeginUntracked, GetStatus, TypeOK, Statuses
    <2> QED
      BY <2>1, <2>3, <2>4
         DEF OnceInv, OneTransaction, CheckStillTrue, NoEffectUnrecorded,
             AtMostOnceEffect
  <1>5. ASSUME NEW p \in Consumers, Commit(p) \/ CommitAnswerLost(p)
        PROVE  OnceInv'
    <2>1. InTx(p)
      BY <1>5 DEF Commit, CommitAnswerLost, Complete, InTx, InTxLocations
    <2>2. \A q \in Consumers : ~InTx(q)'
      BY <1>5, <2>1
         DEF Commit, CommitAnswerLost, OnceInv, OneTransaction, InTx,
             InTxLocations, TypeOK
    <2>3. \A c \in Tracked : effects[c] <= 1 /\ (status[c] = "none" => effects[c] = 0)
      BY DEF OnceInv, NoEffectUnrecorded, AtMostOnceEffect
    <2>4. hand[p] \in Tracked => effects[hand[p]] = 0
      BY <2>1, <2>3 DEF OnceInv, CheckStillTrue
    <2>5. /\ effects' = [effects EXCEPT ![hand[p]] = @ + 1]
          /\ status' = IF hand[p] \in Tracked
                       THEN [status EXCEPT ![hand[p]] = "success"] ELSE status
      BY <1>5 DEF Commit, CommitAnswerLost, ApplyTx
    <2>6. ASSUME NEW c \in Tracked
          PROVE  effects'[c] <= 1 /\ (status'[c] = "none" => effects'[c] = 0)
      <3>1. c \in Commands
        BY ConstantsAssumption
      <3>2. CASE c = hand[p]
        BY <2>4, <2>5, <3>1, <3>2 DEF TypeOK
      <3>3. CASE c # hand[p]
        <4>1. effects'[c] = effects[c] /\ status'[c] = status[c]
          BY <2>5, <3>1, <3>3 DEF TypeOK
        <4> QED
          BY <2>3, <4>1
      <3> QED
        BY <3>2, <3>3
    <2> QED
      BY <2>2, <2>6 DEF OnceInv, OneTransaction, CheckStillTrue,
             NoEffectUnrecorded, AtMostOnceEffect
  <1>6. ASSUME NEW p \in Consumers, RecordFailure(p) \/ RecordFailureAnswerLost(p)
        PROVE  OnceInv'
    <2>1. \A q \in Consumers : ~InTx(q)'
      BY <1>6 DEF RecordFailure, RecordFailureAnswerLost, UpdateFailed, Waits,
             InTx, InTxLocations, TypeOK
    <2>2. /\ UNCHANGED effects
          /\ \A c \in Commands : status'[c] = "none" => status[c] = "none"
      BY <1>6 DEF RecordFailure, RecordFailureAnswerLost, UpdateFailed, TypeOK
    <2> QED
      BY <2>1, <2>2, ConstantsAssumption
         DEF OnceInv, OneTransaction, CheckStillTrue, NoEffectUnrecorded,
             AtMostOnceEffect
  <1> QED
    BY <1>1, <1>2, <1>3, <1>4, <1>5, <1>6 DEF Next, HandleCommand

\* On SQLite a tracked command's handler is committed at most once, however
\* often its message is delivered and however many consumers run Handle.
THEOREM AtMostOnce == ~RowLocks => (Spec => []AtMostOnceEffect)
  <1>1. IInv => TypeOK
    BY DEF IInv
  <1>2. OnceInv => AtMostOnceEffect
    BY DEF OnceInv
  <1>3. ~RowLocks /\ TypeOK /\ OnceInv /\ [Next]_vars => OnceInv'
    BY OnceStep
  <1> QED
    <2>1. CASE ~RowLocks
      <3>1. TypeOK /\ OnceInv /\ [Next]_vars => OnceInv'
        BY <1>3, <2>1
      <3> QED
        BY <1>1, <1>2, <3>1, InitIInv, NextIInv, InitOnceInv, PTL DEF Spec
    <2>2. CASE RowLocks
      BY <2>2
    <2> QED
      BY <2>1, <2>2

-----------------------------------------------------------------------------
(* The account of executions, on both databases.                            *)

\* Whether p's copy of c may still be executed, and whether it is past GetStatus.
Works(p, c) == IF p \in Working(c) THEN 1 ELSE 0

Opens(p, c) == IF p \in Opened(c) THEN 1 ELSE 0

\* Sets of consumers that agree on all but p differ in size by what they say of p.
LEMMA CountBut ==
    ASSUME NEW p \in Consumers, NEW S \in SUBSET Consumers, NEW T \in SUBSET Consumers,
           S \ {p} = T \ {p}
    PROVE  /\ Cardinality(S) \in Nat /\ Cardinality(T) \in Nat
           /\ Cardinality(T) + (IF p \in S THEN 1 ELSE 0)
                = Cardinality(S) + (IF p \in T THEN 1 ELSE 0)
  <1>1. IsFiniteSet(S) /\ IsFiniteSet(T)
    BY ConstantsAssumption, FS_Subset
  <1>2. Cardinality(S) \in Nat /\ Cardinality(T) \in Nat
    BY <1>1, FS_CardinalityType
  <1>3. /\ Cardinality(S \ {p}) = IF p \in S THEN Cardinality(S) - 1 ELSE Cardinality(S)
        /\ Cardinality(T \ {p}) = IF p \in T THEN Cardinality(T) - 1 ELSE Cardinality(T)
    BY <1>1, FS_RemoveElement
  <1> QED
    BY <1>2, <1>3

\* A step of p changes the counts by what it does to p.
LEMMA CountsOfStep ==
    ASSUME NEW p \in Consumers, NEW c \in Commands,
           \A q \in Consumers \ {p} : pc'[q] = pc[q] /\ hand'[q] = hand[q]
    PROVE  /\ Cardinality(Working(c)) \in Nat /\ Cardinality(Working(c)') \in Nat
           /\ Cardinality(Opened(c)) \in Nat /\ Cardinality(Opened(c)') \in Nat
           /\ Cardinality(Working(c)') + Works(p, c)
                = Cardinality(Working(c)) + Works(p, c)'
           /\ Cardinality(Opened(c)') + Opens(p, c)
                = Cardinality(Opened(c)) + Opens(p, c)'
  <1>1. /\ Working(c) \in SUBSET Consumers /\ Working(c)' \in SUBSET Consumers
        /\ Opened(c) \in SUBSET Consumers /\ Opened(c)' \in SUBSET Consumers
    BY DEF Working, Opened
  <1>2. Working(c) \ {p} = Working(c)' \ {p} /\ Opened(c) \ {p} = Opened(c)' \ {p}
    BY DEF Working, Opened, InTx
  <1> QED
    BY <1>1, <1>2, CountBut DEF Works, Opens

\* Whoever is past GetStatus still works on the copy.
LEMMA OpenedWork ==
    ASSUME NEW c \in Commands
    PROVE  /\ Cardinality(Opened(c)) <= Cardinality(Working(c))
           /\ Cardinality(Opened(c)) <= Cardinality(Consumers)
           /\ Cardinality(Consumers) \in Nat
           /\ Cardinality(Working(c)) \in Nat /\ Cardinality(Opened(c)) \in Nat
  <1>1. Opened(c) \subseteq Working(c) /\ Working(c) \subseteq Consumers
    BY DEF Opened, Working, InTx, InTxLocations
  <1>2. IsFiniteSet(Consumers) /\ IsFiniteSet(Working(c)) /\ IsFiniteSet(Opened(c))
    BY <1>1, ConstantsAssumption, FS_Subset
  <1> QED
    BY <1>1, <1>2, ConstantsAssumption, FS_Subset, FS_CardinalityType

\* A step that executes nothing keeps the account of c, if a new copy is paid for
\* by a redelivery and nobody passes GetStatus after the first commit.
LEMMA LedgerKept ==
    ASSUME TypeOK, TypeOK', LedgerInv, NEW p \in Consumers, NEW c \in Commands,
           \A q \in Consumers \ {p} : pc'[q] = pc[q] /\ hand'[q] = hand[q],
           UNCHANGED <<effects, sent>>,
           status'[c] = "none" <=> status[c] = "none",
           dbErrors <= dbErrors', redeliveries <= redeliveries',
           deliveries'[c] + Works(p, c)' + redeliveries
               <= deliveries[c] + Works(p, c) + redeliveries',
           \/ c \notin Tracked \/ status[c] = "none"
           \/ Opens(p, c)' <= Opens(p, c)
    PROVE  Ledger(c)'
  <1> DEFINE s == IF c \in sent THEN 1 ELSE 0
             W == Cardinality(Working(c))
             O == Cardinality(Opened(c))
             w == Works(p, c)
             o == Opens(p, c)
  <1>1. /\ W \in Nat /\ W' \in Nat /\ O \in Nat /\ O' \in Nat
        /\ W' + w = W + w' /\ O' + o = O + o'
    BY CountsOfStep
  <1>2. /\ w \in Nat /\ w' \in Nat /\ o \in Nat /\ o' \in Nat /\ s \in Nat /\ s' = s
        /\ effects[c] \in Nat /\ effects'[c] = effects[c]
        /\ deliveries[c] \in Nat /\ deliveries'[c] \in Nat
        /\ redeliveries \in Nat /\ redeliveries' \in Nat
        /\ dbErrors \in Nat /\ dbErrors' \in Nat
    BY ConstantsAssumption DEF TypeOK, Works, Opens
  <1>3. Copies(c) = deliveries[c] + W /\ Copies(c)' = deliveries'[c] + W'
    BY DEF Copies
  <1>4. Budget(c) = s + redeliveries /\ Budget(c)' = s' + redeliveries'
    BY DEF Budget
  <1>5. Cardinality(Consumers) \in Nat
    BY OpenedWork
  <1>6. deliveries'[c] + w' + redeliveries <= deliveries[c] + w + redeliveries'
    OBVIOUS
  <1> HIDE DEF s, W, O, w, o
  <1>7. CASE c \notin Tracked
    <2>1. effects[c] + Copies(c) <= Budget(c) + dbErrors
      BY <1>7 DEF LedgerInv, Ledger
    <2>2. effects'[c] + Copies(c)' <= Budget(c)' + dbErrors'
      BY <1>1, <1>2, <1>3, <1>4, <1>6, <2>1
    <2> QED
      BY <1>7, <2>2 DEF Ledger
  <1>8. CASE c \in Tracked /\ status[c] = "none"
    <2>1. effects[c] = 0 /\ Copies(c) <= Budget(c)
      BY <1>8 DEF LedgerInv, Ledger
    <2>2. effects'[c] = 0 /\ Copies(c)' <= Budget(c)'
      BY <1>1, <1>2, <1>3, <1>4, <1>6, <2>1
    <2> QED
      BY <1>8, <2>2 DEF Ledger
  <1>9. CASE c \in Tracked /\ status[c] # "none"
    <2>1. effects[c] + O <= Budget(c) /\ effects[c] + O <= Cardinality(Consumers)
      BY <1>9 DEF LedgerInv, Ledger, O
    <2>2. o' <= o
      BY <1>9 DEF o
    <2>3. effects'[c] + O' <= Budget(c)' /\ effects'[c] + O' <= Cardinality(Consumers)
      BY <1>1, <1>2, <1>4, <1>5, <2>1, <2>2
    <2> QED
      BY <1>9, <2>3 DEF Ledger, O
  <1> QED
    BY <1>7, <1>8, <1>9

\* The steps of Handle, but for the commit, and the answers to the broker.
LEMMA LedgerHandle ==
    ASSUME IInv, TypeOK', LedgerInv, NEW p \in Consumers,
           \/ BeginUntracked(p) \/ Skip(p) \/ GetStatus(p) \/ RecordStarted(p)
           \/ Handle(p) \/ HandleError(p) \/ RecordSuccess(p) \/ DbError(p)
           \/ RecordFailure(p) \/ RecordFailureAnswerLost(p) \/ Ack(p)
    PROVE  LedgerInv'
  <1> SUFFICES ASSUME NEW c \in Commands PROVE Ledger(c)'
    BY DEF LedgerInv
  <1> USE DEF IInv
  <1>1. UNCHANGED <<effects, sent, deliveries, redeliveries>>
    BY DEF BeginUntracked, Skip, GetStatus, RecordStarted, Handle, HandleError,
           RecordSuccess, DbError, RecordFailure, RecordFailureAnswerLost,
           UpdateFailed, Ack, dbVars, brokerVars
  <1>2. /\ \A q \in Consumers \ {p} : pc'[q] = pc[q] /\ hand'[q] = hand[q]
        /\ hand'[p] = hand[p] \/ hand'[p] = NoCommand
        /\ pc[p] = "ack" => hand'[p] = NoCommand
    BY DEF BeginUntracked, Skip, GetStatus, RecordStarted, Handle, HandleError,
           RecordSuccess, DbError, RecordFailure, RecordFailureAnswerLost,
           UpdateFailed, Ack, At, TypeOK
  <1>3. status'[c] = "none" <=> status[c] = "none"
    BY DEF BeginUntracked, Skip, GetStatus, RecordStarted, Handle, HandleError,
           RecordSuccess, DbError, RecordFailure, RecordFailureAnswerLost,
           UpdateFailed, Ack, TypeOK, dbVars
  <1>4. dbErrors <= dbErrors'
    BY ConstantsAssumption
       DEF BeginUntracked, Skip, GetStatus, RecordStarted, Handle, HandleError,
           RecordSuccess, DbError, RecordFailure, RecordFailureAnswerLost,
           UpdateFailed, Ack, TypeOK, ConnectionFails
\* What p works on it worked on before.
  <1>5. p \in Working(c)' => p \in Working(c)
    BY <1>2, ConstantsAssumption DEF Working
  <1>6. p \in Opened(c)' => hand[p] = c /\ pc'[p] \in InTxLocations
    BY <1>2, ConstantsAssumption DEF Opened, InTx
\* Only GetStatus and the untracked begin open a transaction.
  <1>7. pc'[p] \in InTxLocations =>
            \/ pc[p] \in InTxLocations
            \/ hand[p] \notin Tracked
            \/ status[hand[p]] = "none"
    BY ConstantsAssumption
       DEF BeginUntracked, Skip, GetStatus, RecordStarted, Handle, HandleError,
           RecordSuccess, DbError, RecordFailure, RecordFailureAnswerLost,
           UpdateFailed, Ack, At, TypeOK, InTxLocations, Statuses
  <1>8. c \notin Tracked \/ status[c] = "none" \/ Opens(p, c)' <= Opens(p, c)
    BY <1>6, <1>7 DEF Opens, Opened, InTx
  <1>9. /\ redeliveries \in Nat /\ deliveries[c] \in Nat
        /\ Works(p, c)' <= Works(p, c) /\ Works(p, c) \in Nat /\ Works(p, c)' \in Nat
    BY <1>5, ConstantsAssumption DEF TypeOK, Works
  <1>10. /\ deliveries'[c] + Works(p, c)' + redeliveries
                <= deliveries[c] + Works(p, c) + redeliveries'
         /\ redeliveries <= redeliveries'
    BY <1>1, <1>9
  <1> QED
    BY <1>1, <1>2, <1>3, <1>4, <1>8, <1>10, LedgerKept

\* The broker hands out copies, takes them back and repeats them.
LEMMA LedgerBroker ==
    ASSUME IInv, TypeOK', LedgerInv, NEW p \in Consumers,
           \/ Nack(p) \/ Redeliver(p) \/ Crash(p)
           \/ \E d \in Commands : Receive(p, d)
    PROVE  LedgerInv'
  <1> SUFFICES ASSUME NEW c \in Commands PROVE Ledger(c)'
    BY DEF LedgerInv
  <1> USE DEF IInv
  <1>1. UNCHANGED <<effects, sent, status, dbErrors>>
    BY DEF Nack, Redeliver, Crash, Receive, dbVars
  <1>2. \A q \in Consumers \ {p} : pc'[q] = pc[q] /\ hand'[q] = hand[q]
    BY DEF Nack, Redeliver, Crash, Receive, At, TypeOK
  <1>3. /\ redeliveries \in Nat /\ redeliveries' \in Nat /\ dbErrors \in Nat
        /\ deliveries[c] \in Nat /\ deliveries'[c] \in Nat
    BY ConstantsAssumption DEF TypeOK
  <1>4. /\ Works(p, c) \in Nat /\ Works(p, c)' \in Nat
        /\ Works(p, c) <= 1 /\ Works(p, c)' <= 1
    BY DEF Works
  <1>5. CASE \E d \in Commands : Receive(p, d)
    <2>1. PICK d \in Commands : Receive(p, d)
      BY <1>5
    <2>2. /\ pc[p] = "idle" /\ hand[p] = NoCommand /\ hand'[p] = d
          /\ deliveries' = [deliveries EXCEPT ![d] = @ - 1]
          /\ redeliveries' = redeliveries /\ pc'[p] = "received"
      BY <2>1 DEF Receive, At, DoneInv, TypeOK
    <2>3. Works(p, c) = 0
      BY <2>2, ConstantsAssumption DEF Works, Working
    <2>4. deliveries'[c] + Works(p, c)' <= deliveries[c] + Works(p, c)
      <3>1. CASE c = d
        BY <1>3, <1>4, <2>2, <2>3, <3>1 DEF TypeOK
      <3>2. CASE c # d
        <4>1. Works(p, c)' = 0 /\ deliveries'[c] = deliveries[c]
          BY <2>2, <3>2 DEF Works, Working, TypeOK
        <4> QED
          BY <1>3, <2>3, <4>1
      <3> QED
        BY <3>1, <3>2
    <2>5. Opens(p, c)' <= Opens(p, c)
      BY <2>2 DEF Opens, Opened, InTx, InTxLocations
    <2> QED
      BY <1>1, <1>2, <1>3, <1>4, <2>2, <2>4, <2>5, LedgerKept
  <1>6. CASE Nack(p) \/ Redeliver(p) \/ Crash(p)
    <2>1. /\ deliveries' = [deliveries EXCEPT ![hand[p]] = @ + 1]
          /\ hand[p] \in Commands
      BY <1>6 DEF Nack, Redeliver, Crash, At, DoneInv, TypeOK
    <2>2. /\ hand'[p] # hand[p] => hand'[p] = NoCommand
          /\ hand'[p] = hand[p] => pc'[p] = pc[p] \/ hand[p] = NoCommand
      BY <1>6 DEF Nack, Redeliver, Crash, At, TypeOK
    <2>3. p \in Working(c)' => p \in Working(c)
      BY <2>1, <2>2, ConstantsAssumption DEF Working
    <2>4. Works(p, c)' <= Works(p, c)
      BY <2>3 DEF Works
    <2>5. Opens(p, c)' <= Opens(p, c)
      BY <2>1, <2>2, ConstantsAssumption DEF Opens, Opened, InTx
    <2>6. CASE c # hand[p]
      <3>1. deliveries'[c] = deliveries[c] /\ redeliveries <= redeliveries'
        BY <1>3, <1>6, <2>1, <2>6 DEF Nack, Redeliver, Crash, TypeOK
      <3>2. deliveries'[c] + Works(p, c)' + redeliveries
                <= deliveries[c] + Works(p, c) + redeliveries'
        BY <1>3, <1>4, <2>4, <3>1
      <3> QED
        BY <1>1, <1>2, <1>3, <2>5, <3>1, <3>2, LedgerKept
    <2>7. CASE c = hand[p] /\ Nack(p)
      <3>1. /\ deliveries'[c] = deliveries[c] + 1 /\ redeliveries' = redeliveries
            /\ Works(p, c) = 1 /\ Works(p, c)' = 0
        BY <2>1, <2>7, ConstantsAssumption DEF Nack, At, TypeOK, Works, Working
      <3> QED
        BY <1>1, <1>2, <1>3, <2>5, <3>1, LedgerKept
    <2>8. CASE c = hand[p] /\ (Redeliver(p) \/ Crash(p))
      <3>1. deliveries'[c] = deliveries[c] + 1 /\ redeliveries' = redeliveries + 1
        BY <2>1, <2>8 DEF Redeliver, Crash, TypeOK
      <3> QED
        BY <1>1, <1>2, <1>3, <1>4, <2>4, <2>5, <3>1, LedgerKept
    <2> QED
      BY <1>6, <2>6, <2>7, <2>8
  <1> QED
    BY <1>5, <1>6

\* A commit turns a copy past GetStatus into an execution; an untracked command's
\* copy comes back if the answer is lost, which counts as an error.
LEMMA LedgerCommit ==
    ASSUME IInv, TypeOK', LedgerInv, NEW p \in Consumers,
           Commit(p) \/ CommitAnswerLost(p)
    PROVE  LedgerInv'
  <1> SUFFICES ASSUME NEW c \in Commands PROVE Ledger(c)'
    BY DEF LedgerInv
  <1> USE DEF IInv
  <1>1. /\ UNCHANGED <<sent, deliveries, redeliveries, hand>>
        /\ hand[p] \in Commands
        /\ effects' = [effects EXCEPT ![hand[p]] = @ + 1]
        /\ status' = IF hand[p] \in Tracked
                     THEN [status EXCEPT ![hand[p]] = "success"] ELSE status
        /\ InTx(p)
    BY DEF Commit, CommitAnswerLost, ApplyTx, Complete, DoneInv, brokerVars, InTx,
           InTxLocations
  <1>2. /\ \A q \in Consumers \ {p} : pc'[q] = pc[q] /\ hand'[q] = hand[q]
        /\ \/ pc'[p] = "ack" /\ dbErrors' = dbErrors
           \/ pc'[p] = "nack" /\ dbErrors' = dbErrors + 1
    BY DEF Commit, CommitAnswerLost, ConnectionFails, TypeOK
  <1>3. /\ redeliveries \in Nat /\ dbErrors \in Nat /\ deliveries[c] \in Nat
        /\ effects[c] \in Nat
    BY ConstantsAssumption DEF TypeOK
  <1>4. CASE c # hand[p]
    <2>1. /\ Works(p, c) = 0 /\ Works(p, c)' = 0
          /\ Opens(p, c) = 0 /\ Opens(p, c)' = 0
      BY <1>1, <1>4 DEF Works, Opens, Working, Opened
    <2>2. effects'[c] = effects[c] /\ status'[c] = status[c]
      BY <1>1, <1>4 DEF TypeOK
    <2> DEFINE W == Cardinality(Working(c))
               O == Cardinality(Opened(c))
    <2>3. W' = W /\ O' = O /\ W \in Nat /\ O \in Nat
      BY <1>2, <2>1, CountsOfStep
    <2>4. /\ Copies(c) = deliveries[c] + W /\ Copies(c)' = deliveries[c] + W
          /\ Budget(c)' = Budget(c) /\ Budget(c) \in Nat
      BY <1>1, <1>3, <2>3 DEF Copies, Budget
    <2>5. dbErrors' \in Nat /\ dbErrors <= dbErrors' /\ Copies(c) \in Nat
      BY <1>2, <1>3, <2>3, <2>4
    <2>6. Ledger(c)
      BY DEF LedgerInv
    <2> QED
      BY <1>3, <2>2, <2>3, <2>4, <2>5, <2>6 DEF Ledger
  <1>5. CASE c = hand[p]
    <2> DEFINE W == Cardinality(Working(c))
               O == Cardinality(Opened(c))
    <2>1. /\ Works(p, c) = 1 /\ Works(p, c)' = IF pc'[p] = "ack" THEN 0 ELSE 1
          /\ Opens(p, c) = 1 /\ Opens(p, c)' = 0
      BY <1>1, <1>2, <1>5
         DEF Works, Opens, Working, Opened, InTx, InTxLocations
    <2>2. /\ W \in Nat /\ W' \in Nat /\ O \in Nat /\ O' \in Nat
          /\ W' = W - (IF pc'[p] = "ack" THEN 1 ELSE 0) /\ O' = O - 1
      BY <1>2, <2>1, CountsOfStep
    <2>3. O <= W /\ O <= Cardinality(Consumers) /\ Cardinality(Consumers) \in Nat
      BY OpenedWork
    <2>4. /\ Copies(c) = deliveries[c] + W /\ Copies(c)' = deliveries[c] + W'
          /\ Budget(c)' = Budget(c) /\ Budget(c) \in Nat
      BY <1>1, <1>3 DEF Copies, Budget
    <2>5. /\ effects'[c] = effects[c] + 1
          /\ c \in Tracked => status'[c] = "success"
      BY <1>1, <1>5 DEF TypeOK
    <2>6. Ledger(c)
      BY DEF LedgerInv
    <2>7. CASE c \notin Tracked
      <3>1. effects[c] + Copies(c) <= Budget(c) + dbErrors
        BY <2>6, <2>7 DEF Ledger
      <3> HIDE DEF W, O
      <3>2. effects'[c] + Copies(c)' <= Budget(c)' + dbErrors'
        BY <1>2, <1>3, <2>2, <2>4, <2>5, <3>1
      <3> QED
        BY <2>7, <3>2 DEF Ledger
    <2>8. CASE c \in Tracked
      <3>1. /\ effects[c] + O <= Budget(c)
            /\ effects[c] + O <= Cardinality(Consumers)
        BY <1>3, <2>2, <2>3, <2>4, <2>6, <2>8 DEF Ledger
      <3> HIDE DEF W, O
      <3>2. /\ effects'[c] + O' <= Budget(c)'
            /\ effects'[c] + O' <= Cardinality(Consumers)
        BY <1>3, <2>2, <2>3, <2>4, <2>5, <3>1
      <3> QED
        BY <2>5, <2>8, <3>2 DEF Ledger, O
    <2> QED
      BY <2>7, <2>8
  <1> QED
    BY <1>4, <1>5

\* The client's one delivery is the first of a command's budget.
LEMMA LedgerSend ==
    ASSUME IInv, LedgerInv, NEW d \in Commands, Send(d)
    PROVE  LedgerInv'
  <1> SUFFICES ASSUME NEW c \in Commands PROVE Ledger(c)'
    BY DEF LedgerInv
  <1> USE DEF IInv
  <1>1. /\ UNCHANGED <<effects, status, pc, hand, dbErrors, redeliveries>>
        /\ d \notin sent /\ sent' = sent \cup {d}
        /\ deliveries' = [deliveries EXCEPT ![d] = @ + 1]
    BY DEF Send, dbVars
  <1> DEFINE W == Cardinality(Working(c))
             O == Cardinality(Opened(c))
             n == IF c = d THEN 1 ELSE 0
  <1>2. W' = W /\ O' = O /\ W \in Nat /\ O \in Nat
    BY <1>1, OpenedWork DEF Working, Opened, InTx
  <1>3. /\ redeliveries \in Nat /\ dbErrors \in Nat /\ deliveries[c] \in Nat
        /\ effects[c] \in Nat
    BY ConstantsAssumption DEF TypeOK
  <1>4. /\ Copies(c) = deliveries[c] + W /\ Copies(c)' = deliveries[c] + n + W
        /\ Budget(c) \in Nat /\ Budget(c)' = Budget(c) + n
    BY <1>1, <1>2, <1>3 DEF Copies, Budget, TypeOK
  <1>5. Ledger(c) /\ Cardinality(Consumers) \in Nat /\ n \in Nat
    BY OpenedWork DEF LedgerInv
  <1>6. CASE c \notin Tracked
    <2>1. effects[c] + Copies(c) <= Budget(c) + dbErrors
      BY <1>5, <1>6 DEF Ledger
    <2> HIDE DEF W, O, n
    <2>2. effects[c] + Copies(c)' <= Budget(c)' + dbErrors
      BY <1>2, <1>3, <1>4, <1>5, <2>1
    <2> QED
      BY <1>1, <1>6, <2>2 DEF Ledger
  <1>7. CASE c \in Tracked /\ status[c] = "none"
    <2>1. effects[c] = 0 /\ Copies(c) <= Budget(c)
      BY <1>5, <1>7 DEF Ledger
    <2> HIDE DEF W, O, n
    <2>2. Copies(c)' <= Budget(c)'
      BY <1>2, <1>3, <1>4, <1>5, <2>1
    <2> QED
      BY <1>1, <1>7, <2>1, <2>2 DEF Ledger
  <1>8. CASE c \in Tracked /\ status[c] # "none"
    <2>1. effects[c] + O <= Budget(c) /\ effects[c] + O <= Cardinality(Consumers)
      BY <1>5, <1>8 DEF Ledger
    <2>2. effects[c] + O <= Budget(c)'
      <3> HIDE DEF W, O, n
      <3> QED BY <1>2, <1>3, <1>4, <1>5, <2>1
    <2> QED
      BY <1>1, <1>2, <1>8, <2>1, <2>2 DEF Ledger
  <1> QED
    BY <1>6, <1>7, <1>8

LEMMA LedgerStep ==
    ASSUME IInv, IInv', LedgerInv, [Next]_vars
    PROVE  LedgerInv'
  <1>1. CASE UNCHANGED vars
    BY <1>1 DEF vars, LedgerInv, Ledger, Copies, Budget, Working, Opened, InTx
  <1>2. TypeOK'
    BY DEF IInv
  <1> QED
    BY <1>1, <1>2, LedgerHandle, LedgerBroker, LedgerCommit, LedgerSend
       DEF Next, HandleCommand

LEMMA LedgerInit == Init => LedgerInv
  <1> SUFFICES ASSUME Init, NEW c \in Commands PROVE Ledger(c)
    BY DEF LedgerInv
  <1>1. Working(c) = {}
    BY ConstantsAssumption DEF Init, Working
  <1>2. Copies(c) = 0 /\ Budget(c) = 0
    BY <1>1, FS_EmptySet DEF Init, Copies, Budget
  <1> QED
    BY <1>2 DEF Init, Ledger

LEMMA LedgerAlways == Spec => [](IInv /\ LedgerInv)
  <1>1. IInv /\ IInv' /\ LedgerInv /\ [Next]_vars => LedgerInv'
    BY LedgerStep
  <1> QED
    BY <1>1, InitIInv, NextIInv, LedgerInit, PTL DEF Spec

\* What the account says of the executions themselves.
LEMMA LedgerBounds ==
    ASSUME TypeOK, LedgerInv, NEW c \in Commands
    PROVE  IF c \in Tracked
           THEN effects[c] <= 1 + redeliveries /\ effects[c] <= Cardinality(Consumers)
           ELSE effects[c] <= 1 + redeliveries + dbErrors
  <1>1. /\ redeliveries \in Nat /\ dbErrors \in Nat /\ deliveries[c] \in Nat
        /\ effects[c] \in Nat /\ Budget(c) \in Nat /\ Budget(c) <= 1 + redeliveries
    BY ConstantsAssumption DEF TypeOK, Budget
  <1>2. /\ Cardinality(Working(c)) \in Nat /\ Cardinality(Opened(c)) \in Nat
        /\ Cardinality(Consumers) \in Nat
    BY OpenedWork
  <1>3. Ledger(c)
    BY DEF LedgerInv
  <1> QED
    BY <1>1, <1>2, <1>3 DEF Ledger, Copies

\* On MySQL and on SQLite: a tracked command is executed once for each delivery
\* that the broker repeats of its own accord, and never more often than there are
\* consumers; an untracked one also once for each failed call.
THEOREM ExecutionsBounded == Spec => []BoundedExecutions
  <1>1. IInv /\ LedgerInv => BoundedExecutions
    BY LedgerBounds DEF IInv, BoundedExecutions
  <1> QED
    BY <1>1, LedgerAlways, PTL

\* On either database, one consumer alone executes a tracked command at most once,
\* however often its message is delivered.
THEOREM OneConsumerOnce ==
    ASSUME Cardinality(Consumers) = 1
    PROVE  Spec => []AtMostOnceEffect
  <1>1. IInv /\ LedgerInv => AtMostOnceEffect
    BY LedgerBounds, ConstantsAssumption DEF IInv, AtMostOnceEffect
  <1> QED
    BY <1>1, LedgerAlways, PTL

\* On either database and with any number of consumers, a tracked command is
\* executed at most once as long as the broker repeats no delivery of its own
\* accord: the messages that Handle itself gives back, after failed calls and lost
\* answers, never add an execution.
THEOREM OnceWithoutRedelivery ==
    Spec => [](redeliveries = 0 => AtMostOnceEffect)
  <1>1. IInv /\ LedgerInv => (redeliveries = 0 => AtMostOnceEffect)
    BY LedgerBounds, ConstantsAssumption DEF IInv, AtMostOnceEffect
  <1> QED
    BY <1>1, LedgerAlways, PTL
===============================================================================
