------------------------- MODULE CommandWaitProofs -------------------------
(***************************************************************************)
(* What is proved about CommandBus.Wait for any number of clients: the     *)
(* answer that a command succeeded is never taken back, and with a single  *)
(* worker no answer is.                                                    *)
(***************************************************************************)
EXTENDS CommandWait, CommandQueueProofs

\* Waiting only reads.
LEMMA QueueOfWait == WaitSpec => Spec
<1>1. WaitInit => Init
  BY DEF WaitInit
<1>2. [WaitNext]_waitVars => [Next]_vars
  BY DEF WaitNext, WaitStep, Wait, Look, WaitEndsInError, waitVars
<1> QED
  BY <1>1, <1>2, PTL DEF WaitSpec, Spec

-----------------------------------------------------------------------------
(* Types.                                                                  *)

LEMMA WaitInitTypes == WaitInit => WaitTypeOK
BY InitTypeOK, BoundsAssumption DEF WaitInit, WaitTypeOK, NoWait, Waits, Statuses

LEMMA WaitNextTypes == WaitTypeOK /\ [WaitNext]_waitVars => WaitTypeOK'
<1> SUFFICES ASSUME WaitTypeOK, [WaitNext]_waitVars PROVE WaitTypeOK'
  OBVIOUS
<1>1. [Next]_vars
  BY DEF WaitNext, WaitStep, Wait, Look, WaitEndsInError, waitVars
<1>2. TypeOK /\ TypeOK'
  BY <1>1, NextTypeOK DEF WaitTypeOK
<1>3. wait' \in [Waiters -> Waits]
  <2>1. CASE UNCHANGED wait
    BY <2>1 DEF WaitTypeOK
  <2>2. ASSUME NEW r \in Waiters, NEW c \in Commands, Wait(r, c)
        PROVE  wait' \in [Waiters -> Waits]
    <3>1. wait[r] \in Waits
      BY DEF WaitTypeOK
    <3>2. [wait[r] EXCEPT !.phase = "waiting", !.cmd = c] \in Waits
      BY <3>1 DEF Waits
    <3> QED
      BY <2>2, <3>2 DEF Wait, WaitTypeOK
  <2>3. ASSUME NEW r \in Waiters, Look(r) PROVE wait' \in [Waiters -> Waits]
    <3>1. PICK c \in Commands :
              wait' = [wait EXCEPT ![r] = [phase |-> "told", cmd |-> c, sub |-> row[c].sub,
                                           status |-> row[c].status]]
      BY <2>3 DEF Look
    <3>2. row[c].sub \in 0..MaxSends /\ row[c].status \in Statuses
      BY <1>2 DEF TypeOK, Rows
    <3> QED
      BY <3>1, <3>2 DEF Waits, WaitTypeOK
  <2>4. ASSUME NEW r \in Waiters, WaitEndsInError(r) PROVE wait' \in [Waiters -> Waits]
    BY <2>4, BoundsAssumption DEF WaitEndsInError, WaitTypeOK, Waits, NoWait, Statuses
  <2> QED
    BY <2>1, <2>2, <2>3, <2>4 DEF WaitNext, WaitStep, waitVars
<1> QED
  BY <1>2, <1>3 DEF WaitTypeOK

\* What Wait keeps and returns has its type.
THEOREM WaitTyping == WaitSpec => []WaitTypeOK
BY WaitInitTypes, WaitNextTypes, PTL DEF WaitSpec

-----------------------------------------------------------------------------
(* The answer that a command succeeded, with any number of workers.        *)

\* Committed writes are never taken back.
LEMMA EffectsStay ==
    ASSUME IInv, [Next]_vars, NEW c \in Commands, NEW s \in 0..MaxSends,
           effects[c][s] = 1
    PROVE  effects'[c][s] = 1
<1>1. effects \in [Commands -> [0..MaxSends -> Nat]]
  BY DEF IInv, TypeOK
<1>2. CASE UNCHANGED effects
  BY <1>2
<1>3. ASSUME NEW w \in Workers, Commit(w) \/ CommitAnswerLost(w)
      PROVE  effects'[c][s] = 1
  <2>1. /\ tx[w].cmd \in Pending /\ tx[w].view.sub = row[tx[w].cmd].sub
        /\ effects' = [effects EXCEPT ![tx[w].cmd][tx[w].view.sub] =
                          IF tx[w].wrote THEN @ + 1 ELSE @]
    BY <1>3 DEF Commit, CommitAnswerLost, ApplyTx, IInv, TransactionInv, InTx,
           InTxLocations
  <2>2. effects[tx[w].cmd][tx[w].view.sub] = 0
    BY <2>1 DEF IInv, EffectInv, PendingMeansUntouched
  <2> DEFINE d == tx[w].cmd  t == tx[w].view.sub
  <2>3. d # c \/ t # s
    BY <2>2
  <2> HIDE DEF d, t
  <2>4. effects' = [effects EXCEPT ![d][t] = IF tx[w].wrote THEN @ + 1 ELSE @]
    BY <2>1 DEF d, t
  <2>5. CASE d # c
    BY <1>1, <2>4, <2>5
  <2>6. CASE d = c /\ t # s
    BY <1>1, <2>4, <2>6
  <2> QED
    BY <2>3, <2>5, <2>6
<1>4. ASSUME NEW w \in Workers, RecordFailure(w) PROVE UNCHANGED effects
  BY <1>4 DEF RecordFailure
<1>5. ASSUME NEW q \in Senders, NEW d \in Commands, Send(q, d) \/ SendAnswerLost(q, d)
      PROVE  UNCHANGED effects
  BY <1>5 DEF Send, SendAnswerLost
<1> QED
  BY <1>2, <1>3, <1>4, <1>5, DatabaseSteps DEF dbVars

\* A submission told to be a success has left its effects.
SuccessStands ==
    \A r \in Waiters : Told(r) /\ wait[r].status = "success" =>
        /\ wait[r].cmd \in Commands
        /\ effects[wait[r].cmd][wait[r].sub] = 1

LEMMA NextSuccess ==
    ASSUME IInv, WaitTypeOK, SuccessStands, [WaitNext]_waitVars
    PROVE  SuccessStands'
<1>0. wait \in [Waiters -> Waits]
  BY DEF WaitTypeOK
<1>1. CASE [Next]_vars /\ UNCHANGED wait
  <2> SUFFICES ASSUME NEW r \in Waiters, Told(r), wait[r].status = "success"
               PROVE  effects'[wait[r].cmd][wait[r].sub] = 1
    BY <1>1 DEF SuccessStands, Told
  <2>1. wait[r].cmd \in Commands /\ wait[r].sub \in 0..MaxSends
    BY <1>0 DEF SuccessStands, Waits
  <2>2. effects[wait[r].cmd][wait[r].sub] = 1
    BY DEF SuccessStands
  <2> QED
    BY <1>1, <2>1, <2>2, EffectsStay
<1>2. ASSUME NEW r \in Waiters, Look(r) PROVE SuccessStands'
  <2>1. PICK c \in Commands :
            wait' = [wait EXCEPT ![r] = [phase |-> "told", cmd |-> c, sub |-> row[c].sub,
                                         status |-> row[c].status]]
    BY <1>2 DEF Look
  <2>2. UNCHANGED <<row, effects>>
    BY <1>2 DEF Look, vars, dbVars
  <2>3. row[c].status = "success" => effects[c][row[c].sub] = 1
    BY DEF IInv, EffectInv, SuccessMeansApplied
  <2> QED
    BY <1>0, <2>1, <2>2, <2>3 DEF SuccessStands, Told
<1>3. ASSUME NEW r \in Waiters, WaitEndsInError(r) \/ \E c \in Commands : Wait(r, c)
      PROVE  SuccessStands'
  <2>1. UNCHANGED effects
    BY <1>3 DEF WaitEndsInError, Wait, vars, dbVars
  <2>2. ~Told(r)'
    BY <1>0, <1>3 DEF WaitEndsInError, Wait, Told, NoWait, Waits
  <2>3. \A q \in Waiters \ {r} : wait'[q] = wait[q]
    BY <1>0, <1>3 DEF WaitEndsInError, Wait
  <2> QED
    BY <2>1, <2>2, <2>3 DEF SuccessStands, Told
<1> QED
  BY <1>1, <1>2, <1>3 DEF WaitNext, WaitStep, waitVars

\* However many workers race, the answer that a submission succeeded is never
\* taken back: its writes are committed, exactly once, and stay.
THEOREM SuccessesStand == WaitSpec => []SuccessStands
<1>1. WaitInit => SuccessStands
  BY DEF WaitInit, SuccessStands, Told, NoWait
<1>2. IInv /\ WaitTypeOK /\ SuccessStands /\ [WaitNext]_waitVars => SuccessStands'
  BY NextSuccess
<1> QED
  BY <1>1, <1>2, QueueOfWait, WaitTyping, Invariance, PTL DEF WaitSpec

-----------------------------------------------------------------------------
(* An answer stands.                                                       *)

\* What the contract never does to a submission that has finished.
LEMMA FinishedStays ==
    ASSUME TypeOK, [Contract!Next]_(Contract!vars), NEW c \in Commands,
           NEW s \in 0..MaxSends, s <= row[c].sub,
           row[c].sub = s => row[c].status \in Finished
    PROVE  /\ effects'[c][s] = effects[c][s]
           /\ row[c].sub <= row'[c].sub
           /\ row'[c].sub = s => row[c].sub = s /\ row'[c].status = row[c].status
<1> DEFINE st == [d \in Commands |-> row[d].status]
           su == [d \in Commands |-> row[d].sub]
           st2 == [d \in Commands |-> row'[d].status]
           su2 == [d \in Commands |-> row'[d].sub]
<1>1. /\ st[c] = row[c].status /\ su[c] = row[c].sub
      /\ st2[c] = row'[c].status /\ su2[c] = row'[c].sub
      /\ su[c] \in Nat /\ s \in Nat
  BY BoundsAssumption DEF TypeOK, Rows
<1>2. ASSUME NEW d \in Commands, Contract!Submit(d)
      PROVE  /\ effects' = effects
             /\ su2[c] = IF c = d THEN su[c] + 1 ELSE su[c]
             /\ c # d => st2[c] = st[c]
  <2>1. effects' = effects /\ su2 = [su EXCEPT ![d] = @ + 1] /\ st2 = [st EXCEPT ![d] = "pending"]
    BY <1>2 DEF Contract!Submit
  <2> QED
    BY <2>1
<1>3. ASSUME NEW d \in Commands, Contract!Succeed(d)
      PROVE  /\ effects' = [effects EXCEPT ![d][su[d]] = @ + 1]
             /\ su2[c] = su[c] /\ st[d] = "pending"
             /\ c # d => st2[c] = st[c]
  <2>1. /\ effects' = [effects EXCEPT ![d][su[d]] = @ + 1]
        /\ su2 = su /\ st[d] = "pending" /\ st2 = [st EXCEPT ![d] = "success"]
    BY <1>3 DEF Contract!Succeed
  <2> QED
    BY <2>1
<1>4. ASSUME NEW d \in Commands, Contract!Fail(d)
      PROVE  /\ effects' = effects /\ su2[c] = su[c] /\ st[d] = "pending"
             /\ c # d => st2[c] = st[c]
  <2>1. effects' = effects /\ su2 = su /\ st[d] = "pending" /\ st2 = [st EXCEPT ![d] = "failed"]
    BY <1>4 DEF Contract!Fail
  <2> QED
    BY <2>1
<1>5. CASE UNCHANGED Contract!vars
  <2>1. effects' = effects /\ su2 = su /\ st2 = st
    BY <1>5 DEF Contract!vars
  <2> QED
    BY <1>1, <2>1
<1>6. CASE \E d \in Commands : Contract!Submit(d)
  BY <1>1, <1>2, <1>6
<1>7. CASE \E d \in Commands : Contract!Succeed(d)
  <2>1. PICK d \in Commands : Contract!Succeed(d)
    BY <1>7
  <2>2. d # c \/ su[d] # s
    BY <1>1, <1>3, <2>1 DEF Finished
  <2>3. effects \in [Commands -> [0..MaxSends -> Nat]]
    BY DEF TypeOK
  <2>4. effects'[c][s] = effects[c][s]
    <3> DEFINE n == su[d]
    <3>1. effects' = [effects EXCEPT ![d][n] = @ + 1]
      BY <1>3, <2>1
    <3> HIDE DEF n
    <3>2. CASE d # c
      BY <2>3, <3>1, <3>2
    <3>3. CASE d = c /\ n # s
      BY <2>3, <3>1, <3>3
    <3> QED
      BY <2>2, <3>2, <3>3 DEF n
  <2>5. su2[c] = su[c] /\ (c # d => st2[c] = st[c])
    BY <1>3, <2>1
  <2> QED
    BY <1>1, <2>2, <2>4, <2>5
<1>8. CASE \E d \in Commands : Contract!Fail(d)
  BY <1>1, <1>4, <1>8 DEF Finished
<1> QED
  BY <1>5, <1>6, <1>7, <1>8 DEF Contract!Next

\* AnswerStands, and that an answer is about a submission there has been.
AnswerInv ==
    \A r \in Waiters : Told(r) =>
        /\ wait[r].cmd \in Commands
        /\ wait[r].status \in Finished
        /\ wait[r].sub <= row[wait[r].cmd].sub
        /\ effects[wait[r].cmd][wait[r].sub] = IF wait[r].status = "success" THEN 1 ELSE 0
        /\ row[wait[r].cmd].sub = wait[r].sub => row[wait[r].cmd].status = wait[r].status

LEMMA NextAnswer ==
    ASSUME SingleInv, WaitTypeOK, AnswerInv, [WaitNext]_waitVars
    PROVE  AnswerInv'
<1>0. TypeOK /\ EffectInv /\ FailedMeansUntouched /\ wait \in [Waiters -> Waits]
  BY DEF SingleInv, IInv, WaitTypeOK
<1>1. CASE [Next]_vars /\ UNCHANGED wait
  <2>1. [Contract!Next]_(Contract!vars)
    BY <1>1, NextContract DEF SingleInv
  <2> SUFFICES ASSUME NEW r \in Waiters, Told(r)
               PROVE  /\ wait[r].sub <= row'[wait[r].cmd].sub
                      /\ effects'[wait[r].cmd][wait[r].sub] = effects[wait[r].cmd][wait[r].sub]
                      /\ row'[wait[r].cmd].sub = wait[r].sub
                            => row'[wait[r].cmd].status = wait[r].status
    BY <1>1 DEF AnswerInv, Told
  <2> DEFINE c == wait[r].cmd  s == wait[r].sub
  <2>2. c \in Commands /\ s \in 0..MaxSends /\ s <= row[c].sub
    BY <1>0 DEF AnswerInv, Waits
  <2>3. row[c].sub = s => row[c].status = wait[r].status /\ row[c].status \in Finished
    BY DEF AnswerInv
  <2>4. /\ effects'[c][s] = effects[c][s]
        /\ row[c].sub <= row'[c].sub
        /\ row'[c].sub = s => row[c].sub = s /\ row'[c].status = row[c].status
    <3> HIDE DEF c, s
    <3> QED
      BY <1>0, <2>1, <2>2, <2>3, FinishedStays
  <2>5. row[c].sub \in Nat /\ row'[c].sub \in Nat /\ s \in Nat
    <3>1. row \in [Commands -> Rows] /\ row' \in [Commands -> Rows]
      BY <1>0, <1>1, NextTypeOK DEF TypeOK
    <3>2. row[c] \in Rows /\ row'[c] \in Rows
      BY <2>2, <3>1
    <3> HIDE DEF c, s
    <3> QED
      BY <2>2, <3>2, BoundsAssumption DEF Rows
  <2> QED
    BY <2>2, <2>3, <2>4, <2>5
<1>2. ASSUME NEW r \in Waiters, Look(r) PROVE AnswerInv'
  <2>1. PICK c \in Commands :
            /\ row[c].status \in Finished
            /\ wait' = [wait EXCEPT ![r] = [phase |-> "told", cmd |-> c, sub |-> row[c].sub,
                                            status |-> row[c].status]]
    BY <1>2 DEF Look
  <2>2. UNCHANGED <<row, effects>>
    BY <1>2 DEF Look, vars, dbVars
  <2>3. effects[c][row[c].sub] = IF row[c].status = "success" THEN 1 ELSE 0
    BY <1>0, <2>1 DEF EffectInv, SuccessMeansApplied, FailedMeansUntouched, Finished
  <2>4. row[c].sub \in Nat
    BY <1>0, BoundsAssumption DEF TypeOK, Rows
  <2> QED
    BY <1>0, <2>1, <2>2, <2>3, <2>4 DEF AnswerInv, Told
<1>3. ASSUME NEW r \in Waiters, WaitEndsInError(r) \/ \E c \in Commands : Wait(r, c)
      PROVE  AnswerInv'
  <2>1. UNCHANGED <<row, effects>>
    BY <1>3 DEF WaitEndsInError, Wait, vars, dbVars
  <2>2. ~Told(r)'
    BY <1>0, <1>3 DEF WaitEndsInError, Wait, Told, NoWait, Waits
  <2>3. \A q \in Waiters \ {r} : wait'[q] = wait[q]
    BY <1>0, <1>3 DEF WaitEndsInError, Wait
  <2> QED
    BY <2>1, <2>2, <2>3 DEF AnswerInv, Told
<1> QED
  BY <1>1, <1>2, <1>3 DEF WaitNext, WaitStep, waitVars

\* With a single worker, an answer of Wait stays true for ever, also when the same
\* identifier is sent again.
THEOREM AnswersStand == SingleWorker => (WaitSpec => []AnswerStands)
<1> SUFFICES ASSUME SingleWorker PROVE WaitSpec => []AnswerStands
  OBVIOUS
<1>1. WaitInit => AnswerInv
  BY DEF WaitInit, AnswerInv, Told, NoWait
<1>2. SingleInv /\ WaitTypeOK /\ AnswerInv /\ [WaitNext]_waitVars => AnswerInv'
  BY NextAnswer
<1>3. AnswerInv => AnswerStands
  BY DEF AnswerInv, AnswerStands
<1> QED
  BY <1>1, <1>2, <1>3, QueueOfWait, WaitTyping, SingleInvariance, PTL DEF WaitSpec
=============================================================================
