---------------------------- MODULE CommandWait ----------------------------
(***************************************************************************)
(* CommandBus.Wait: clients that look up the row of a command at every     *)
(* tick until it is finished.  They only read the database of              *)
(* CommandQueue, whose workers and senders do not know of them.            *)
(***************************************************************************)
EXTENDS CommandQueue

CONSTANT Waiters  \* goroutines that call CommandBus.Wait, once each

VARIABLE wait  \* how far each Wait has come, and what it has returned

waitVars == <<vars, wait>>

\* Waiting for cmd, or told that its submission sub ended with status.
Waits == [phase  : {"idle", "waiting", "told", "gaveUp"},
          cmd    : Commands \cup {NoCommand},
          sub    : 0..MaxSends,
          status : Statuses]

NoWait == [phase |-> "idle", cmd |-> NoCommand, sub |-> 0, status |-> "none"]

Waiting(r, c) == wait[r].phase = "waiting" /\ wait[r].cmd = c

Told(r) == wait[r].phase = "told"

\* The statuses on which Wait returns.
Finished == {"success", "failed"}

-----------------------------------------------------------------------------

\* Wait is called, also for a command nobody has sent yet.
Wait(r, c) ==
    /\ wait[r].phase = "idle"
    /\ wait' = [wait EXCEPT ![r].phase = "waiting", ![r].cmd = c]
    /\ UNCHANGED vars

\* Mutant: any row will do, as long as there is one.
LookAtAnyRow(r) ==
    \E c \in Commands :
        /\ Waiting(r, c)
        /\ row[c].status # "none"
        /\ wait' = [wait EXCEPT ![r] = [phase  |-> "told",
                                        cmd    |-> c,
                                        sub    |-> row[c].sub,
                                        status |-> row[c].status]]
        /\ UNCHANGED vars

\* Mutant: only a success ends the loop.
LookForSuccess(r) ==
    \E c \in Commands :
        /\ Waiting(r, c)
        /\ row[c].status = "success"
        /\ wait' = [wait EXCEPT ![r] = [phase  |-> "told",
                                        cmd    |-> c,
                                        sub    |-> row[c].sub,
                                        status |-> row[c].status]]
        /\ UNCHANGED vars

\* A tick: GetExecution finds a finished command, and Wait returns the row with
\* or without an error.  (If there is no row, or it is pending, nothing happens.)
Look(r) ==
    \E c \in Commands :
        /\ Waiting(r, c)
        /\ row[c].status \in Finished
        /\ wait' = [wait EXCEPT ![r] = [phase  |-> "told",
                                        cmd    |-> c,
                                        sub    |-> row[c].sub,
                                        status |-> row[c].status]]
        /\ UNCHANGED vars

\* The deadline passes, the context is cancelled or GetExecution fails; select
\* may choose that although the command has finished.
WaitEndsInError(r) ==
    /\ wait[r].phase = "waiting"
    /\ wait' = [wait EXCEPT ![r] = [NoWait EXCEPT !.phase = "gaveUp"]]
    /\ UNCHANGED vars

-----------------------------------------------------------------------------

WaitInit ==
    /\ Init
    /\ wait = [r \in Waiters |-> NoWait]

WaitStep(r) == Look(r) \/ WaitEndsInError(r) \/ \E c \in Commands : Wait(r, c)

WaitNext ==
    \/ Next /\ UNCHANGED wait
    \/ \E r \in Waiters : WaitStep(r)

WaitSpec == WaitInit /\ [][WaitNext]_waitVars

\* The ticker ticks: a Wait looks again and again.
FairWaitSpec ==
    /\ WaitSpec
    /\ \A w \in Workers :
        /\ WF_waitVars(RunWorker(w) /\ UNCHANGED wait)
        /\ SF_waitVars(Exit(w) /\ UNCHANGED wait)
    /\ \A s \in Senders : WF_waitVars(Notify(s) /\ UNCHANGED wait)
    /\ \A i \in Instances :
        /\ WF_waitVars(Start(i) /\ UNCHANGED wait)
        /\ WF_waitVars(Stopped(i) /\ UNCHANGED wait)
    /\ \A r \in Waiters : WF_waitVars(Look(r))

-----------------------------------------------------------------------------
(* Correctness.                                                            *)

WaitTypeOK == TypeOK /\ wait \in [Waiters -> Waits]

\* What Wait has returned stays true, whatever is retried, crashes or is sent
\* again afterwards: the submission that was told to be a success has left its
\* effects, one told to be failed none, and the row says nothing else of it.
AnswerStands ==
    \A r \in Waiters : Told(r) =>
        LET c == wait[r].cmd
            s == wait[r].sub
        IN  /\ effects[c][s] = IF wait[r].status = "success" THEN 1 ELSE 0
            /\ row[c].sub = s => row[c].status = wait[r].status

\* A Wait for a command that has been sent and has a handler returns, and needs
\* no deadline for that.
WaitReturns ==
    \A r \in Waiters :
        (\E c \in Runnable : Waiting(r, c) /\ row[c].sub > 0)
            ~> wait[r].phase \in {"told", "gaveUp"}
=============================================================================
